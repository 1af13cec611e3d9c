-------------------------- MODULE PairFetchProofs --------------------------
(***************************************************************************)
(* Proofs about the two burst engines of Node2Vec, for every graph, size   *)
(* of a line, depth of the streams and sequence of steps: the two lists    *)
(* and the previous vertex that meet in the weight kernels are of one      *)
(* step, every step is answered in its turn, and a run leaves nothing      *)
(* behind.                                                                 *)
(*                                                                         *)
(* Only the packets of the current lists carry a number, and that one      *)
(* wraps.  The invariant therefore speaks of the history of the steps:     *)
(* there is a record g of the steps asked for so far, the places every     *)
(* kernel has come to in it and the lines in flight, such that every       *)
(* stream holds what lies between the places of its reader and its writer. *)
(***************************************************************************)
EXTENDS PairFetch, StreamLemmas, TLAPS

StepSet    == [curr: Vertices \union {Dead}, prev: Vertices \union {Dead}]
PendingPkg == [vertex: StepSet, last: BOOLEAN]

\* a step with a current neighbour, so that there are lists to be read
Sized(p) == DescOf(p.vertex.curr).size # 0

\* a list: the number of its step and the step; a place in the lists: line n
\* of list l
ListSet  == [a: Nat, step: StepSet]
PlaceSet == [l: Nat, n: Nat]

GhostSet ==
    [H: [Nat -> PendingPkg],    \* the steps, by number
     B: [Nat -> Nat],           \* how many lists there are before a step
     S: [Nat -> ListSet],       \* the lists, by number
     r: Nat,                    \* first step of the run
     b: Nat, e: Nat,            \* first step not answered, next step to ask for
     m: Nat, s: Nat, d: Nat,    \* next step of assert_filter_woe, of
                                \* sta_vd_scheduler and of vd_dispatch
     v: Nat, q: Nat,            \* next vertex of vd_dispatch and vertex_loader
     t: Nat,                    \* list being weighed
     k: Nat, j: Nat, i: Nat,    \* next list of sta_cmd_generator, of
                                \* si_cmd_generator and of si_vd_scheduler
     zm: Bit, zf: Bit, zv: Bit, zc: Bit,   \* stop packets in assert_mask,
                                           \* filtered, sta_vd and sta_cmd
     yl: Bit, yv: Bit, yc: Bit,            \* in last, si_vd and si_cmd
     F: [Nat -> PlaceSet], U: [Nat -> PlaceSet],  \* the lines the engines read
     x1: Nat, x2: Nat, x3: Nat, \* next line to be weighed, to be read and to
     y1: Nat, y2: Nat, y3: Nat, \* be asked for, of either engine
     W: Seq(Nat)]               \* the steps in update

-----------------------------------------------------------------------------
(* What the streams hold                                                   *)

\* both vertices of a step, its descriptors, and the packets made of them
QueryOf(H) == [c \in Nat |->
    IF c % 2 = 0 THEN [v |-> H[c \div 2].vertex.curr, last |-> FALSE]
                 ELSE [v |-> H[c \div 2].vertex.prev, last |-> H[c \div 2].last]]
VdsOf(H)     == [c \in Nat |-> [d |-> DescOf(QueryOf(H)[c].v), last |-> QueryOf(H)[c].last]]
CurrentOf(H) == [a \in Nat |-> [d |-> DescOf(H[a].vertex.curr), last |-> H[a].last]]
AssertOf(H)  == [a \in Nat |-> H[a].vertex.prev]
MaskOf(H)    == [a \in Nat |-> [data |-> Sized(H[a]), last |-> FALSE]]

StopMask   == [data |-> FALSE, last |-> TRUE]
StopAssert == [prev |-> Dead, last |-> TRUE]
StopCmd    == BurstCmd(StopVd, 0)

\* what the kernels are told of a list
StaVd(x) == [d |-> DescOf(x.step.curr), id |-> x.a % IdMod, last |-> FALSE]
SiVd(x)  == [d |-> DescOf(x.step.prev), id |-> 0, last |-> FALSE]

StaVdOf(S)    == [l \in Nat |-> StaVd(S[l])]
FilteredOf(S) == [l \in Nat |-> [prev |-> S[l].step.prev, last |-> FALSE]]
LastOf(S)     == [l \in Nat |-> [d |-> DescOf(S[l].step.prev), last |-> FALSE]]
SiVdOf(S)     == [l \in Nat |-> SiVd(S[l])]

\* the command for line n of a list, on either side
StaCmd(x, n) == BurstCmd(StaVd(x), n)
SiCmd(x, n)  == IF SiVd(x).d.size = 0 THEN FillerCmd(SiVd(x)) ELSE BurstCmd(SiVd(x), n)

StaLine(x, n) == [words |-> Unmasked(StaCmd(x, n)), id |-> x.a % IdMod,
                  end_of_burst |-> StaCmd(x, n).end_of_burst, last |-> FALSE]
SiLine(x, n)  == [words |-> IF SiCmd(x, n).size = 0 THEN {} ELSE Unmasked(SiCmd(x, n)),
                  last |-> SiCmd(x, n).end_of_burst]

StaCmdOf(S, F)  == [x \in Nat |-> StaCmd(S[F[x].l], F[x].n)]
StaOutOf(S, F)  == [x \in Nat |-> StaLine(S[F[x].l], F[x].n)]
AssertsOf(S, F) == [x \in Nat |-> S[F[x].l].step.prev]
SiCmdOf(S, U)   == [y \in Nat |-> SiCmd(S[U[y].l], U[y].n)]
SiOutOf(S, U)   == [y \in Nat |-> SiLine(S[U[y].l], U[y].n)]

\* the place behind p, when the last line of a list is marked by end
Behind(p, end) == IF end THEN [l |-> p.l + 1, n |-> 0] ELSE [l |-> p.l, n |-> p.n + 1]

\* the neighbours in the first n lines of a list
Below(d, n) == {w \in Words(d) : w < LineOf(d.start) + n * LineWords}

-----------------------------------------------------------------------------
(* The inductive invariant                                                 *)

\* how far the kernels have come
Bounds(g) ==
    /\ FirstId <= g.r /\ g.r <= g.b /\ g.b <= g.s /\ g.s <= g.d /\ g.d <= g.e
    /\ g.r <= g.m /\ g.m <= g.s
    /\ g.e - g.b <= MaxInFlight
    /\ g.B[g.b] <= g.t /\ g.k <= g.B[g.m]
    /\ sync_id = g.s % IdMod /\ update_id = g.b % IdMod

\* a step is numbered, and so is the list of a step that has one
Numbering(g) ==
    /\ \A a \in FirstId .. g.e - 1 :
         /\ g.B[a + 1] = IF Sized(g.H[a]) THEN g.B[a] + 1 ELSE g.B[a]
         /\ Sized(g.H[a]) => g.S[g.B[a]] = [a |-> a, step |-> g.H[a].vertex]
         /\ g.H[a].last => ~Sized(g.H[a])
    /\ \A a, c \in FirstId .. g.e : a <= c => g.B[a] <= g.B[c]
    /\ \A l \in 0 .. g.B[g.e] - 1 :
         /\ g.S[l].a \in FirstId .. g.e - 1
         /\ Sized(g.H[g.S[l].a]) /\ g.B[g.S[l].a] = l

\* only the last step of a run has the last flag, and vertex_loader returns
\* when it has seen it
Flags(g) ==
    /\ \A a \in g.r .. g.e - 1 : g.H[a].last => a = g.e - 1
    /\ ~vl_run <=> g.r < g.e /\ g.H[g.e - 1].last /\ g.q = 2 * g.e

\* from step_duplicator to sta_vd_scheduler
Asked(g) ==
    /\ Holds(pending, g.H, g.b, g.e, 0, None)
    /\ Holds(half, QueryOf(g.H), 2 * g.e - Len(half), 2 * g.e, 0, None) /\ Len(half) <= 1
    /\ Holds(query, QueryOf(g.H), g.q, 2 * g.e - Len(half), 0, None)
    /\ Holds(vds, VdsOf(g.H), g.v, g.q, 0, None)
    /\ IF last_pkg = <<>> THEN g.v = 2 * g.d
       ELSE g.v = 2 * g.d + 1 /\ last_pkg = <<DescOf(g.H[g.d].vertex.curr)>>
    /\ Holds(current, CurrentOf(g.H), g.s, g.d, 0, None)

\* from sta_vd_scheduler and assert_filter_woe to sta_cmd_generator
Masked(g) ==
    /\ Holds(assert_in, AssertOf(g.H), g.m, g.e, 0, None)
    /\ Holds(assert_mask, MaskOf(g.H), g.m, g.s, g.zm, StopMask)
    /\ Holds(sta_vd, StaVdOf(g.S), g.k, g.B[g.s], g.zv, StopVd)
    /\ Holds(filtered, FilteredOf(g.S), g.k, g.B[g.m], g.zf, StopAssert)

\* the steps without a list that are not answered
Updated(g) ==
    /\ IsSeq(update) /\ Len(update) = Len(g.W)
    /\ \A n \in 1 .. Len(g.W) :
         /\ g.W[n] \in g.b .. g.s - 1 /\ ~Sized(g.H[g.W[n]])
         /\ update[n] = [id |-> g.W[n] % IdMod, to |-> NoVertex, last |-> g.H[g.W[n]].last]
    /\ \A n, p \in 1 .. Len(g.W) : n < p => g.W[n] < g.W[p]

\* from sta_cmd_generator to the weight kernels
StaLines(g) ==
    /\ g.F[g.x3] = [l |-> g.k, n |-> sta_line]
    /\ sta_line # 0 => g.k < g.B[g.s]
    /\ \A x \in g.x1 .. g.x3 - 1 :
         /\ g.F[x + 1] = Behind(g.F[x], StaCmd(g.S[g.F[x].l], g.F[x].n).end_of_burst)
         /\ g.F[x].l < g.B[g.s]
    /\ g.F[g.x1].l = IF seen.curr_end THEN g.t + 1 ELSE g.t
    /\ Holds(sta_out, StaOutOf(g.S, g.F), g.x1, g.x2, 0, None)
    /\ Holds(sta_cmd, StaCmdOf(g.S, g.F), g.x2, g.x3, g.zc, StopCmd)
    /\ Holds(assert_out, AssertsOf(g.S, g.F), g.x1, g.x3, 0, None)

\* from vd_dispatch and si_vd_scheduler to the weight kernels, with what the
\* weight kernels have seen of the previous list
SiLines(g) ==
    /\ Holds(last, LastOf(g.S), g.i, g.B[g.d], g.yl, VdsOf(g.H)[2 * g.e - 1])
    /\ Holds(si_vd, SiVdOf(g.S), g.j, g.i, g.yv, StopVd)
    /\ g.U[g.y3] = [l |-> g.j, n |-> si_line]
    /\ si_line # 0 => g.j < g.i
    /\ \A y \in g.y1 .. g.y3 - 1 :
         /\ g.U[y + 1] = Behind(g.U[y], SiCmd(g.S[g.U[y].l], g.U[y].n).end_of_burst)
         /\ g.U[y].l < g.B[g.d]
    /\ Holds(si_out, SiOutOf(g.S, g.U), g.y1, g.y2, 0, None)
    /\ Holds(si_cmd, SiCmdOf(g.S, g.U), g.y2, g.y3, g.yc, StopCmd)

SeenPrev(g) ==
    LET p == g.U[g.y1]
        d == DescOf(g.S[g.t].step.prev)
    IN  /\ seen.prev_end =>
              p.l = g.t + 1 /\ p.n = 0 /\ g.t < g.B[g.d] /\ seen.against = Words(d)
        /\ ~seen.prev_end =>
              /\ p.l = g.t
              /\ IF p.n = 0 THEN seen.against = {}
                 ELSE g.t < g.B[g.d] /\ seen.against = Below(d, p.n)

\* what the weight kernels have seen of the current list
SeenCurr(g) ==
    /\ ~seen.flag
    /\ IF seen.previous = {}
       THEN seen.selected = Dead /\ seen.id = 0 /\ ~seen.curr_end
       ELSE /\ g.t < g.B[g.s]
            /\ seen.previous = {g.S[g.t].step.prev}
            /\ seen.selected \in Words(DescOf(g.S[g.t].step.curr))
            /\ seen.id = g.S[g.t].a % IdMod

\* the lists that are sampled
SampledPkg(x) == [id: {x.a % IdMod}, last: {FALSE}, to: Answers(x.step)]
Sampled(g) ==
    /\ IsSeq(next_vertex) /\ Len(next_vertex) = g.t - g.B[g.b]
    /\ \A l \in g.B[g.b] .. g.t - 1 :
         /\ g.S[l].a \in g.b .. g.s - 1
         /\ next_vertex[l - g.B[g.b] + 1] \in SampledPkg(g.S[l])

\* One stop packet for each engine, behind everything else of the run
StaStops(g) ==
    /\ g.zm + g.zf = g.zv
    /\ sta_stop => g.zv = 0 /\ g.zc = 0 /\ sta_run
    /\ g.zv = 1 => g.zc = 0 /\ sta_run
    /\ g.zc = 1 => sta_run
    /\ g.zf = 1 => g.m = g.s
    /\ sta_stop \/ g.zv = 1 \/ g.zc = 1 \/ ~sta_run => ~vl_run /\ g.s = g.e
    /\ g.zc = 1 \/ ~sta_run => g.m = g.s /\ g.k = g.B[g.s]
    /\ ~sta_run => g.x2 = g.x3

SiStops(g) ==
    /\ g.yl = 1 => g.yv = 0 /\ g.yc = 0 /\ si_run
    /\ g.yv = 1 => g.yc = 0 /\ si_run
    /\ g.yc = 1 => si_run
    /\ g.yl = 1 \/ g.yv = 1 \/ g.yc = 1 \/ ~si_run => ~vl_run /\ g.d = g.e
    /\ g.yv = 1 \/ g.yc = 1 \/ ~si_run => g.i = g.B[g.d]
    /\ g.yc = 1 \/ ~si_run => g.j = g.i
    /\ ~si_run => g.y2 = g.y3

\* what has no other part
Rest == /\ asked \in 0 .. MaxReq
        /\ vl_run \in BOOLEAN /\ sta_run \in BOOLEAN /\ si_run \in BOOLEAN
        /\ sta_stop \in BOOLEAN
        /\ seen \in [selected: Int, id: Ids, flag: BOOLEAN,
                     previous: SUBSET (Vertices \union {Dead}), against: SUBSET Nat,
                     curr_end: BOOLEAN, prev_end: BOOLEAN]

Parts(g) == /\ Bounds(g) /\ Numbering(g) /\ Flags(g) /\ Asked(g) /\ Masked(g)
            /\ Updated(g) /\ StaLines(g) /\ SiLines(g) /\ SeenPrev(g) /\ SeenCurr(g)
            /\ Sampled(g) /\ StaStops(g) /\ SiStops(g)

PairInv == Rest /\ \E g \in GhostSet : Parts(g)
-----------------------------------------------------------------------------
(* Numbers                                                                  *)

\* Two steps in flight do not have the same number.
LEMMA SameNumber ==
  ASSUME NEW a \in Nat, NEW c \in Nat, c <= a, a < c + IdMod, a % IdMod = c % IdMod
  PROVE  a = c
<1>1. IdMod \in Nat /\ IdMod > 0
  BY PairIdAssumption
<1> QED
  BY <1>1, SameRemainder

\* The generator and the merge count in step.
LEMMA NextNumber ==
  ASSUME NEW a \in Nat
  PROVE  /\ a % IdMod \in Ids /\ a % IdMod # StopId
         /\ Succ(a % IdMod) = (a + 1) % IdMod
<1>1. IdMod \in Nat /\ IdMod > 0
  BY PairIdAssumption
<1>2. a % IdMod \in 0 .. IdMod - 1 /\ ((a % IdMod) + 1) % IdMod = (a + 1) % IdMod
  BY <1>1, NextRemainder
<1> QED
  BY <1>1, <1>2 DEF Ids, StopId, Succ

\* The two packets of a step.
LEMMA QueryPair ==
  ASSUME NEW H, NEW a \in Nat
  PROVE  /\ QueryOf(H)[2 * a] = [v |-> H[a].vertex.curr, last |-> FALSE]
         /\ QueryOf(H)[2 * a + 1] = [v |-> H[a].vertex.prev, last |-> H[a].last]
         /\ VdsOf(H)[2 * a] = [d |-> DescOf(H[a].vertex.curr), last |-> FALSE]
         /\ VdsOf(H)[2 * a + 1] = [d |-> DescOf(H[a].vertex.prev), last |-> H[a].last]
<1>1. /\ (2 * a) % 2 = 0 /\ (2 * a) \div 2 = a
      /\ (2 * a + 1) % 2 = 1 /\ (2 * a + 1) \div 2 = a
      /\ 2 * a \in Nat /\ 2 * a + 1 \in Nat
  OBVIOUS
<1> DEFINE p == 2 * a
           o == 2 * a + 1
<1>2. p % 2 = 0 /\ p \div 2 = a /\ o % 2 = 1 /\ o \div 2 = a /\ p \in Nat /\ o \in Nat
  BY <1>1
<1> HIDE DEF p, o
<1>3. QueryOf(H)[p] = IF p % 2 = 0 THEN [v |-> H[p \div 2].vertex.curr, last |-> FALSE]
                      ELSE [v |-> H[p \div 2].vertex.prev, last |-> H[p \div 2].last]
  BY <1>2, Zenon DEF QueryOf
<1>4. QueryOf(H)[o] = IF o % 2 = 0 THEN [v |-> H[o \div 2].vertex.curr, last |-> FALSE]
                      ELSE [v |-> H[o \div 2].vertex.prev, last |-> H[o \div 2].last]
  BY <1>2, Zenon DEF QueryOf
<1>5. QueryOf(H)[p] = [v |-> H[a].vertex.curr, last |-> FALSE]
  BY <1>2, <1>3, Zenon
<1>6. o % 2 # 0
  BY <1>2
<1>7. QueryOf(H)[o] = [v |-> H[a].vertex.prev, last |-> H[a].last]
  BY <1>2, <1>4, <1>6, Zenon
<1>8. /\ VdsOf(H)[p] = [d |-> DescOf(QueryOf(H)[p].v), last |-> QueryOf(H)[p].last]
      /\ VdsOf(H)[o] = [d |-> DescOf(QueryOf(H)[o].v), last |-> QueryOf(H)[o].last]
  BY <1>2, Zenon DEF VdsOf
<1>9. /\ QueryOf(H)[p].v = H[a].vertex.curr /\ QueryOf(H)[p].last = FALSE
      /\ QueryOf(H)[o].v = H[a].vertex.prev /\ QueryOf(H)[o].last = H[a].last
  <2>1. /\ QueryOf(H)[p].v = H[a].vertex.curr
        /\ QueryOf(H)[o].v = H[a].vertex.prev /\ QueryOf(H)[o].last = H[a].last
    BY <1>5, <1>7
  <2>2. QueryOf(H)[p].last = [v |-> H[a].vertex.curr, last |-> FALSE].last
    BY <1>5, Zenon
  <2>3. [v |-> H[a].vertex.curr, last |-> FALSE].last = FALSE
    BY Zenon
  <2> QED
    BY <2>1, <2>2, <2>3, Zenon
<1>10. /\ VdsOf(H)[p] = [d |-> DescOf(H[a].vertex.curr), last |-> FALSE]
       /\ VdsOf(H)[o] = [d |-> DescOf(H[a].vertex.prev), last |-> H[a].last]
  BY <1>8, <1>9, Zenon
<1> QED
  BY <1>5, <1>7, <1>10 DEF p, o

\* A number of a packet is even or odd.
LEMMA EvenOrOdd ==
  ASSUME NEW c \in Nat
  PROVE  \E a \in Nat : c = 2 * a \/ c = 2 * a + 1
<1>1. c \div 2 \in Nat /\ (c = 2 * (c \div 2) \/ c = 2 * (c \div 2) + 1)
  OBVIOUS
<1> QED
  BY <1>1

-----------------------------------------------------------------------------
(* Lines of a list                                                          *)

DescSet == [start: Nat, size: Nat]

\* What is read for a vertex is a descriptor, and a step with a list has a current
\* vertex.
LEMMA DescType ==
  /\ \A w \in Vertices \union {Dead} : DescOf(w) \in DescSet
  /\ \A p \in PendingPkg : Sized(p) => p.vertex.curr \in Vertices
<1>1. Dead = -1 /\ 0 \in Nat
  BY DEF Dead
<1>2. \A w \in Vertices \union {Dead} : DescOf(w) \in DescSet
  BY StepAssumption DEF DescOf, DescSet
<1>3. ASSUME NEW p \in PendingPkg, Sized(p) PROVE p.vertex.curr \in Vertices
  <2>1. p.vertex.curr \in Vertices \union {Dead}
    BY DEF PendingPkg, StepSet
  <2>2. p.vertex.curr # Dead
    BY <1>3 DEF Sized, DescOf
  <2> QED
    BY <2>1, <2>2
<1> QED
  BY <1>2, <1>3

\* A line begins at or in front of its words.
LEMMA LineBounds ==
  ASSUME NEW w \in Nat
  PROVE  LineOf(w) \in Int /\ LineOf(w) <= w /\ w < LineOf(w) + LineWords /\ LineWords \in Nat
<1>1. LineWords \in Nat /\ LineWords > 0
  BY PairDepthAssumption
<1>2. w % LineWords \in 0 .. LineWords - 1
  BY <1>1
<1> QED
  BY <1>1, <1>2 DEF LineOf

\* The command for line n of a list reads the neighbours of that line, and the
\* one that ends the burst reads the last of them.
LEMMA LineOfList ==
  ASSUME NEW vd, vd.d \in DescSet, NEW n \in Nat
  PROVE  /\ Unmasked(BurstCmd(vd, n)) \subseteq Words(vd.d)
         /\ Below(vd.d, n + 1) = Below(vd.d, n) \union Unmasked(BurstCmd(vd, n))
         /\ BurstCmd(vd, n).end_of_burst => Below(vd.d, n + 1) = Words(vd.d)
         /\ BurstCmd(vd, n).id = vd.id /\ BurstCmd(vd, n).size = 1
         /\ BurstCmd(vd, n).last = (BurstCmd(vd, n).end_of_burst /\ vd.last)
         /\ BurstCmd(vd, n).end_of_burst \in BOOLEAN
<1> DEFINE c == BurstCmd(vd, n)
           first == LineOf(vd.d.start)
           p == n * LineWords
           end == vd.d.start + vd.d.size
<1>1. /\ vd.d.start \in Nat /\ vd.d.size \in Nat /\ end \in Nat
  BY DEF DescSet
<1>2. LineWords \in Nat /\ LineWords > 0 /\ p \in Int /\ (n + 1) * LineWords = p + LineWords
  BY PairDepthAssumption
<1>3. first \in Int /\ first <= vd.d.start
  BY <1>1, LineBounds
<1>4. EndAddr(vd.d) \in Int /\ end <= EndAddr(vd.d)
  BY <1>1, LineBounds, <1>2 DEF EndAddr
<1>5. /\ c.addr = first + p
      /\ c.start = IF first + p < vd.d.start THEN vd.d.start ELSE first + p
      /\ c.end = IF first + p + LineWords > end THEN end ELSE first + p + LineWords
      /\ c.id = vd.id /\ c.size = 1
      /\ c.end_of_burst = (first + p + LineWords >= EndAddr(vd.d))
      /\ c.last = (c.end_of_burst /\ vd.last)
  BY Zenon DEF BurstCmd
<1>6. Words(vd.d) = vd.d.start .. end - 1
  <2>1. vd.d.start + vd.d.size - 1 = end - 1
    BY <1>1
  <2> QED
    BY <2>1, Zenon DEF Words
<1>7. Below(vd.d, n) = {w \in Words(vd.d) : w < first + p}
  BY DEF Below
<1>8. Below(vd.d, n + 1) = {w \in Words(vd.d) : w < first + (p + LineWords)}
  BY <1>2 DEF Below
<1>9. Unmasked(c) = {w \in c.addr .. c.addr + LineWords - 1 : w >= c.start /\ w < c.end}
  BY DEF Unmasked
<1> HIDE DEF c, first, p, end
<1>10. \A w \in Int : w \in Unmasked(c) <=> /\ w >= vd.d.start /\ w < end
                                            /\ w >= first + p /\ w < first + p + LineWords
  BY <1>1, <1>2, <1>3, <1>5, <1>9
<1>11. \A w \in Unmasked(c) : w \in Int
  BY <1>9
<1>12. Unmasked(c) \subseteq Words(vd.d)
  BY <1>1, <1>6, <1>10, <1>11
<1>13. Below(vd.d, n + 1) = Below(vd.d, n) \union Unmasked(c)
  <2>1. \A w \in Words(vd.d) : w \in Int /\ w >= vd.d.start /\ w < end
    BY <1>1, <1>6
  <2>2. \A w \in Words(vd.d) : w < first + (p + LineWords) <=> w < first + p \/ w \in Unmasked(c)
    BY <1>1, <1>2, <1>3, <1>10, <2>1
  <2> QED
    BY <1>7, <1>8, <1>12, <2>2
<1>14. ASSUME c.end_of_burst PROVE Below(vd.d, n + 1) = Words(vd.d)
  <2>1. first + p + LineWords >= EndAddr(vd.d)
    BY <1>5, <1>14, Zenon
  <2>2. \A w \in Words(vd.d) : w \in Int /\ w < end
    BY <1>1, <1>6
  <2>3. first + (p + LineWords) >= end
    BY <1>1, <1>2, <1>3, <1>4, <2>1
  <2>4. \A w \in Words(vd.d) : w < first + (p + LineWords)
    BY <1>1, <1>2, <1>3, <2>2, <2>3
  <2> QED
    BY <1>8, <2>4
<1>15. c.end_of_burst \in BOOLEAN
  BY <1>5
<1> QED
  BY <1>5, <1>12, <1>13, <1>14, <1>15 DEF c

\* Nothing is in front of the first line.
LEMMA NoLineYet ==
  ASSUME NEW d \in DescSet
  PROVE  Below(d, 0) = {}
<1>1. d.start \in Nat /\ LineOf(d.start) \in Int /\ LineOf(d.start) <= d.start
  BY LineBounds DEF DescSet
<1>2. 0 * LineWords = 0
  BY PairDepthAssumption
<1>3. \A w \in Words(d) : w \in Int /\ w >= d.start
  BY <1>1 DEF Words, DescSet
<1> QED
  BY <1>1, <1>2, <1>3 DEF Below

\* The packet that stops an engine makes one command.
LEMMA StopCommand ==
  StopCmd.end_of_burst /\ StopCmd.id = StopId /\ StopVd.d.size # 0
<1>1. LineWords \in Nat /\ LineWords > 0
  BY PairDepthAssumption
<1>2. LineWords % LineWords = 0 /\ 0 % LineWords = 0 /\ 0 * LineWords = 0
  BY <1>1
<1>3. LineOf(0) = 0 /\ LineOf(LineWords) = LineWords
  BY <1>1, <1>2 DEF LineOf
<1>4. StopVd.d.start = 0 /\ StopVd.d.size = LineWords /\ StopVd.id = StopId
  BY DEF StopVd
<1>5. EndAddr(StopVd.d) = LineWords
  BY <1>1, <1>3, <1>4 DEF EndAddr
<1>6. /\ StopCmd.end_of_burst =
              (LineOf(StopVd.d.start) + 0 * LineWords + LineWords >= EndAddr(StopVd.d))
      /\ StopCmd.id = StopVd.id
  BY Zenon DEF StopCmd, BurstCmd
<1>7. LineOf(StopVd.d.start) + 0 * LineWords + LineWords >= EndAddr(StopVd.d)
  BY <1>1, <1>2, <1>3, <1>4, <1>5
<1>8. StopVd.d.size # 0
  BY <1>1, <1>4
<1> QED
  BY <1>4, <1>6, <1>7, <1>8, Zenon

-----------------------------------------------------------------------------
(* The history a step leaves behind                                         *)

SameSteps(g, h)    == h.H = g.H /\ h.B = g.B /\ h.S = g.S /\ h.r = g.r /\ h.e = g.e
SameFront(g, h)    == h.d = g.d /\ h.v = g.v /\ h.q = g.q
SameSta(g, h)      == h.m = g.m /\ h.s = g.s /\ h.k = g.k /\ h.zm = g.zm /\ h.zf = g.zf /\ h.zv = g.zv
SameStaLines(g, h) == h.F = g.F /\ h.x1 = g.x1 /\ h.x2 = g.x2 /\ h.x3 = g.x3 /\ h.zc = g.zc
SameSi(g, h)       == h.i = g.i /\ h.j = g.j /\ h.yl = g.yl /\ h.yv = g.yv
SameSiLines(g, h)  == h.U = g.U /\ h.y1 = g.y1 /\ h.y2 = g.y2 /\ h.y3 = g.y3 /\ h.yc = g.yc
SameOut(g, h)      == h.b = g.b /\ h.t = g.t /\ h.W = g.W

\* The parts of a history.
LEMMA GhostFields ==
  ASSUME NEW g \in GhostSet
  PROVE  /\ g.H \in [Nat -> PendingPkg] /\ g.B \in [Nat -> Nat] /\ g.S \in [Nat -> ListSet]
         /\ g.F \in [Nat -> PlaceSet] /\ g.U \in [Nat -> PlaceSet] /\ g.W \in Seq(Nat)
         /\ g.r \in Nat /\ g.b \in Nat /\ g.e \in Nat /\ g.m \in Nat /\ g.s \in Nat
         /\ g.d \in Nat /\ g.v \in Nat /\ g.q \in Nat /\ g.t \in Nat /\ g.k \in Nat
         /\ g.j \in Nat /\ g.i \in Nat
         /\ g.zm \in Bit /\ g.zf \in Bit /\ g.zv \in Bit /\ g.zc \in Bit
         /\ g.yl \in Bit /\ g.yv \in Bit /\ g.yc \in Bit
         /\ g.x1 \in Nat /\ g.x2 \in Nat /\ g.x3 \in Nat
         /\ g.y1 \in Nat /\ g.y2 \in Nat /\ g.y3 \in Nat
BY DEF GhostSet

\* A stream of one packet is written behind another one.
LEMMA ChainOne ==
  ASSUME NEW s, NEW r, IsSeq(s), IsSeq(r), Len(r) = 1
  PROVE  s \o r = Append(s, r[1])
<1> DEFINE T == PacketsIn(s) \union PacketsIn(r)
<1>1. s \in Seq(T) /\ r \in Seq(T)
  <2>1. s \in Seq(PacketsIn(s)) /\ r \in Seq(PacketsIn(r))
    BY DEF IsSeq
  <2> HIDE DEF PacketsIn
  <2> QED
    BY <2>1
<1> HIDE DEF T
<1> DEFINE o == s \o r
           w == Append(s, r[1])
<1>2. r[1] \in T
  BY <1>1
<1>3. /\ o \in Seq(T) /\ Len(o) = Len(s) + 1
      /\ \A n \in 1 .. Len(s) : o[n] = s[n]
      /\ o[Len(s) + 1] = r[1]
  <2>1. /\ o \in Seq(T) /\ Len(o) = Len(s) + Len(r)
        /\ \A n \in 1 .. Len(s) : o[n] = s[n]
        /\ \A n \in Len(s) + 1 .. Len(s) + Len(r) : o[n] = r[n - Len(s)]
    BY <1>1, ChainElements
  <2>2. Len(s) \in Nat
    BY <1>1
  <2> HIDE DEF o
  <2> QED
    BY <2>1, <2>2
<1>4. /\ w \in Seq(T) /\ Len(w) = Len(s) + 1
      /\ \A n \in 1 .. Len(s) : w[n] = s[n]
      /\ w[Len(s) + 1] = r[1]
  BY <1>1, <1>2, PushElements
<1> HIDE DEF o, w
<1>5. Len(s) \in Nat
  BY <1>1
<1>6. \A n \in 1 .. Len(o) : o[n] = w[n]
  BY <1>3, <1>4, <1>5
<1>7. o = w
  BY <1>3, <1>4, <1>6, SeqEqual
<1> QED
  BY <1>7 DEF o, w

\* A step that touches nothing a part of the invariant speaks of keeps it.
LEMMA KeepBounds ==
  ASSUME NEW g, NEW h, Bounds(g), SameSteps(g, h), SameFront(g, h), SameSta(g, h),
         SameOut(g, h), UNCHANGED <<sync_id, update_id>>
  PROVE  Bounds(h)'
BY DEF Bounds, SameSteps, SameFront, SameSta, SameOut

\* The same for every other part.
LEMMA KeepNumbering ==
  ASSUME NEW g, NEW h, Numbering(g), SameSteps(g, h)
  PROVE  Numbering(h)'
BY DEF Numbering, SameSteps

\* The same for the flags of a run.
LEMMA KeepFlags ==
  ASSUME NEW g, NEW h, Flags(g), SameSteps(g, h), h.q = g.q, UNCHANGED vl_run
  PROVE  Flags(h)'
BY DEF Flags, SameSteps

\* The same for the streams up to sta_vd_scheduler.
LEMMA KeepAsked ==
  ASSUME NEW g, NEW h, Asked(g), SameSteps(g, h), SameFront(g, h), h.b = g.b, h.s = g.s,
         UNCHANGED <<pending, half, query, vds, last_pkg, current>>
  PROVE  Asked(h)'
BY DEF Asked, SameSteps, SameFront

\* The same for the streams up to sta_cmd_generator.
LEMMA KeepMasked ==
  ASSUME NEW g, NEW h, Masked(g), SameSteps(g, h), SameSta(g, h),
         UNCHANGED <<assert_in, assert_mask, sta_vd, filtered>>
  PROVE  Masked(h)'
BY DEF Masked, SameSteps, SameSta

\* The same for the steps without a list.
LEMMA KeepUpdated ==
  ASSUME NEW g, NEW h, Updated(g), h.H = g.H, h.W = g.W, h.b = g.b, h.s = g.s,
         UNCHANGED update
  PROVE  Updated(h)'
BY DEF Updated

\* The same for the lines of the current lists.
LEMMA KeepStaLines ==
  ASSUME NEW g, NEW h, StaLines(g), SameSteps(g, h), SameStaLines(g, h), h.k = g.k, h.s = g.s,
         h.t = g.t, UNCHANGED <<sta_line, sta_out, sta_cmd, assert_out, seen>>
  PROVE  StaLines(h)'
BY DEF StaLines, SameSteps, SameStaLines

\* The same for the lines of the previous lists.
LEMMA KeepSiLines ==
  ASSUME NEW g, NEW h, SiLines(g), SameSteps(g, h), SameSi(g, h), SameSiLines(g, h),
         h.d = g.d, UNCHANGED <<last, si_vd, si_line, si_out, si_cmd>>
  PROVE  SiLines(h)'
BY DEF SiLines, SameSteps, SameSi, SameSiLines

\* The same for what the weight kernels have seen.
LEMMA KeepSeen ==
  ASSUME NEW g, NEW h, SameSteps(g, h), h.t = g.t, UNCHANGED seen
  PROVE  /\ SeenPrev(g) /\ h.d = g.d /\ h.U = g.U /\ h.y1 = g.y1 => SeenPrev(h)'
         /\ SeenCurr(g) /\ h.s = g.s => SeenCurr(h)'
BY DEF SeenPrev, SeenCurr, SameSteps

\* The same for the lists that are sampled.
LEMMA KeepSampled ==
  ASSUME NEW g, NEW h, Sampled(g), SameSteps(g, h), SameOut(g, h), h.s = g.s,
         UNCHANGED next_vertex
  PROVE  Sampled(h)'
BY DEF Sampled, SameSteps, SameOut

\* The same for the stop packets.
LEMMA KeepStops ==
  ASSUME NEW g, NEW h, SameSteps(g, h), UNCHANGED vl_run
  PROVE  /\ StaStops(g) /\ SameSta(g, h) /\ SameStaLines(g, h) /\ UNCHANGED <<sta_stop, sta_run>>
              => StaStops(h)'
         /\ SiStops(g) /\ h.d = g.d /\ SameSi(g, h) /\ SameSiLines(g, h) /\ UNCHANGED si_run
              => SiStops(h)'
BY DEF StaStops, SiStops, SameSteps, SameSta, SameStaLines, SameSi, SameSiLines

\* Nothing of the history changes.
LEMMA SameGhost ==
  ASSUME NEW g
  PROVE  /\ SameSteps(g, g) /\ SameFront(g, g) /\ SameSta(g, g) /\ SameStaLines(g, g)
         /\ SameSi(g, g) /\ SameSiLines(g, g) /\ SameOut(g, g)
BY DEF SameSteps, SameFront, SameSta, SameStaLines, SameSi, SameSiLines, SameOut

\* step_duplicator writes the previous vertex of a step.
LEMMA DuplicatePrevStep ==
  ASSUME Rest, NEW g \in GhostSet, Parts(g), DuplicatePrev
  PROVE  PairInv'
<1>1. /\ half # <<>> /\ query' = query \o half /\ half' = <<>>
      /\ UNCHANGED <<asked, assert_in, loaderVars, staVars, staCmdVars, siVars, outVars>>
  BY DEF DuplicatePrev
<1>2. Asked(g)'
  <2>1. g.e \in Nat /\ g.q \in Nat
    BY GhostFields
  <2>2. /\ Holds(half, QueryOf(g.H), 2 * g.e - Len(half), 2 * g.e, 0, None) /\ Len(half) <= 1
        /\ Holds(query, QueryOf(g.H), g.q, 2 * g.e - Len(half), 0, None)
    BY DEF Parts, Asked
  <2>3. IsSeq(half) /\ IsSeq(query) /\ Len(half) = 1
    <3>1. IsSeq(half) /\ IsSeq(query)
      BY <2>2 DEF Holds
    <3>2. Len(half) \in Nat /\ Len(half) # 0
      BY <1>1, <3>1, EmptyIsSeq
    <3> DEFINE n == Len(half)
    <3>3. n <= 1
      BY <2>2
    <3>4. n \in Nat /\ n # 0
      BY <3>2
    <3> HIDE DEF n
    <3>5. n = 1
      BY <3>3, <3>4
    <3> QED
      BY <3>1, <3>5 DEF n
  <2> DEFINE x == 2 * g.e - 1
  <2>4. x \in Int /\ g.q <= x /\ 2 * g.e = x + 1 /\ 2 * g.e - Len(half) = x
    BY <2>1, <2>2, <2>3 DEF Holds
  <2>5. x \in Nat
    BY <2>1, <2>4, SMTT(30)
  <2> HIDE DEF x
  <2>6. half[1] = QueryOf(g.H)[x]
    <3>1. \A c \in x .. 2 * g.e - 1 : half[c - x + 1] = QueryOf(g.H)[c]
      BY <2>2, <2>4 DEF Holds
    <3>2. x - x + 1 = 1 /\ x \in x .. 2 * g.e - 1
      BY <2>4
    <3> QED
      BY <3>1, <3>2
  <2>7. query' = Append(query, QueryOf(g.H)[x])
    BY <1>1, <2>3, <2>6, ChainOne
  <2>8. Holds(query', QueryOf(g.H), g.q, 2 * g.e, 0, None)
    BY <2>1, <2>2, <2>4, <2>5, <2>7, HoldsPush
  <2>9. Len(half') = 0 /\ 2 * g.e - Len(half') = 2 * g.e /\ 2 * g.e \in Nat
    BY <1>1, <2>1, EmptyIsSeq
  <2>10. Holds(half', QueryOf(g.H), 2 * g.e, 2 * g.e, 0, None)
    BY <1>1, <2>9, NoneHeld
  <2> QED
    BY <1>1, <2>8, <2>9, <2>10 DEF Parts, Asked, loaderVars, outVars
<1>3. /\ Bounds(g)' /\ Numbering(g)' /\ Flags(g)' /\ Masked(g)' /\ Updated(g)' /\ StaLines(g)'
      /\ SiLines(g)' /\ SeenPrev(g)' /\ SeenCurr(g)' /\ Sampled(g)' /\ StaStops(g)' /\ SiStops(g)'
  <2>1. UNCHANGED <<vl_run, vds, last_pkg, current, last, sta_stop, sync_id, update,
                    assert_mask, sta_vd, filtered, sta_line, sta_cmd, assert_out, sta_run,
                    sta_out, si_vd, si_line, si_cmd, si_run, si_out, seen, next_vertex,
                    update_id, answer, pending, assert_in>>
    BY <1>1 DEF loaderVars, staVars, staCmdVars, siVars, outVars
  <2> QED
    BY <2>1, SameGhost, KeepBounds, KeepNumbering, KeepFlags, KeepMasked, KeepUpdated,
       KeepStaLines, KeepSiLines, KeepSeen, KeepSampled, KeepStops DEF Parts, SameSteps, SameFront,
       SameSta, SameOut, SameStaLines, SameSi, SameSiLines
<1>4. Rest'
  BY <1>1 DEF Rest, loaderVars, staVars, staCmdVars, siVars, outVars
<1> QED
  BY <1>2, <1>3, <1>4 DEF PairInv, Parts

\* The order of the places.
LEMMA Order ==
  ASSUME NEW g \in GhostSet, Parts(g)
  PROVE  /\ FirstId \in Nat
         /\ FirstId <= g.r /\ g.r <= g.b /\ g.b <= g.s /\ g.s <= g.d /\ g.d <= g.e
         /\ g.r <= g.m /\ g.m <= g.s
         /\ 2 * g.d <= g.v /\ g.v <= 2 * g.d + 1 /\ g.v <= g.q /\ g.q <= 2 * g.e
         /\ Len(half) \in {0, 1} /\ g.q <= 2 * g.e - Len(half)
<1>1. /\ g.r \in Nat /\ g.b \in Nat /\ g.e \in Nat /\ g.m \in Nat /\ g.s \in Nat
      /\ g.d \in Nat /\ g.v \in Nat /\ g.q \in Nat
  BY GhostFields
<1>2. FirstId \in Nat
  BY PairIdAssumption
<1>3. /\ FirstId <= g.r /\ g.r <= g.b /\ g.b <= g.s /\ g.s <= g.d /\ g.d <= g.e
      /\ g.r <= g.m /\ g.m <= g.s
  BY DEF Parts, Bounds
<1>4. g.v = 2 * g.d \/ g.v = 2 * g.d + 1
  <2>1. IF last_pkg = <<>> THEN g.v = 2 * g.d
        ELSE g.v = 2 * g.d + 1 /\ last_pkg = <<DescOf(g.H[g.d].vertex.curr)>>
    BY DEF Parts, Asked
  <2> QED
    BY <2>1
<1>5. g.v <= g.q /\ g.q <= 2 * g.e - Len(half) /\ Len(half) <= 1 /\ IsSeq(half)
  BY DEF Parts, Asked, Holds
<1>6. Len(half) \in Nat
  BY <1>5, EmptyIsSeq
<1> DEFINE n == Len(half)
<1>7. n \in Nat /\ n <= 1 /\ g.q <= 2 * g.e - n
  BY <1>5, <1>6
<1> HIDE DEF n
<1>8. n \in {0, 1} /\ g.q <= 2 * g.e
  BY <1>1, <1>7
<1>9. 2 * g.d <= g.v /\ g.v <= 2 * g.d + 1
  BY <1>1, <1>4
<1> QED
  BY <1>2, <1>3, <1>5, <1>7, <1>8, <1>9 DEF n

\* vd_dispatch takes the current vertex of a step.
LEMMA DispatchCurrStep ==
  ASSUME Rest, NEW g \in GhostSet, Parts(g), DispatchCurr
  PROVE  PairInv'
<1>1. /\ last_pkg = <<>> /\ vds # <<>> /\ last_pkg' = <<Head(vds).d>> /\ vds' = Tail(vds)
      /\ UNCHANGED <<dupVars, vl_run, current, last, staVars, staCmdVars, siVars, outVars>>
  BY DEF DispatchCurr
<1>2. UNCHANGED <<asked, half, query, vl_run, current, last, sta_stop, sync_id, update,
                  assert_mask, sta_vd, filtered, sta_line, sta_cmd, assert_out, sta_run,
                  sta_out, si_vd, si_line, si_cmd, si_run, si_out, seen, next_vertex,
                  update_id, answer, pending, assert_in>>
  BY <1>1 DEF dupVars, staVars, staCmdVars, siVars, outVars
<1>3. PICK h \in GhostSet :
        /\ h.v = g.v + 1 /\ h.d = g.d /\ h.q = g.q
        /\ SameSteps(g, h) /\ SameSta(g, h) /\ SameStaLines(g, h)
        /\ SameSi(g, h) /\ SameSiLines(g, h) /\ SameOut(g, h)
  <2> PICK c \in Nat : c = g.v + 1
    BY GhostFields
  <2> DEFINE h == [g EXCEPT !.v = c]
  <2>1. h \in GhostSet
    BY ZenonT(60) DEF GhostSet
  <2>2. /\ h.v = g.v + 1 /\ h.d = g.d /\ h.q = g.q
        /\ SameSteps(g, h) /\ SameSta(g, h) /\ SameStaLines(g, h)
        /\ SameSi(g, h) /\ SameSiLines(g, h) /\ SameOut(g, h)
    BY DEF GhostSet, SameSteps, SameSta, SameStaLines, SameSi, SameSiLines, SameOut
  <2> QED
    BY <2>1, <2>2
<1>4. Asked(h)'
  <2>1. g.v \in Nat /\ g.q \in Nat /\ g.d \in Nat /\ g.e \in Nat
    BY GhostFields
  <2>2. Holds(vds, VdsOf(g.H), g.v, g.q, 0, None) /\ g.v = 2 * g.d
    BY <1>1 DEF Parts, Asked
  <2>4. Head(vds) = VdsOf(g.H)[g.v] /\ Holds(Tail(vds), VdsOf(g.H), g.v + 1, g.q, 0, None)
    BY <1>1, <2>1, <2>2, StreamPop
  <2>5. Head(vds).d = DescOf(g.H[g.d].vertex.curr)
    <3>1. VdsOf(g.H)[2 * g.d] = [d |-> DescOf(g.H[g.d].vertex.curr), last |-> FALSE]
      BY <2>1, QueryPair
    <3> QED
      BY <2>2, <2>4, <3>1
  <2>6. last_pkg' # <<>> /\ last_pkg' = <<DescOf(g.H[g.d].vertex.curr)>> /\ h.v = 2 * h.d + 1
    BY <1>1, <1>3, <2>2, <2>5
  <2>7. Holds(vds', VdsOf(h.H), h.v, h.q, 0, None)
    BY <1>1, <1>3, <2>4 DEF SameSteps
  <2>8. Holds(pending', h.H, h.b, h.e, 0, None)
    BY <1>2, <1>3 DEF Parts, Asked, SameSteps, SameOut
  <2>9. /\ Holds(half', QueryOf(h.H), 2 * h.e - Len(half'), 2 * h.e, 0, None) /\ Len(half') <= 1
        /\ Holds(query', QueryOf(h.H), h.q, 2 * h.e - Len(half'), 0, None)
    BY <1>2, <1>3 DEF Parts, Asked, SameSteps
  <2>10. Holds(current', CurrentOf(h.H), h.s, h.d, 0, None)
    BY <1>2, <1>3 DEF Parts, Asked, SameSteps, SameSta
  <2>11. h.H[h.d] = g.H[g.d]
    BY <1>3 DEF SameSteps
  <2> QED
    BY <2>6, <2>7, <2>8, <2>9, <2>10, <2>11 DEF Asked
<1>5. Bounds(h)'
  BY <1>2, <1>3 DEF Parts, Bounds, SameSteps, SameSta, SameOut
<1>6. /\ Numbering(h)' /\ Flags(h)' /\ Masked(h)' /\ Updated(h)' /\ StaLines(h)' /\ SiLines(h)'
      /\ SeenPrev(h)' /\ SeenCurr(h)' /\ Sampled(h)' /\ StaStops(h)' /\ SiStops(h)'
  BY <1>2, <1>3, KeepNumbering, KeepFlags, KeepMasked, KeepUpdated, KeepStaLines,
     KeepSiLines, KeepSeen, KeepSampled, KeepStops DEF Parts, SameSteps, SameSta, SameOut,
     SameStaLines, SameSi, SameSiLines
<1>7. Rest'
  BY <1>2 DEF Rest
<1> QED
  BY <1>3, <1>4, <1>5, <1>6, <1>7 DEF PairInv, Parts

\* What the history says of a step.
LEMMA HistoryStep ==
  ASSUME NEW g \in GhostSet, Parts(g), NEW a \in Nat, FirstId <= a, a < g.e
  PROVE  /\ g.H[a] \in PendingPkg /\ g.H[a].last \in BOOLEAN /\ g.B[a] \in Nat /\ g.B[a + 1] \in Nat
         /\ Sized(g.H[a]) => /\ g.B[a + 1] = g.B[a] + 1 /\ ~g.H[a].last
                             /\ g.S[g.B[a]].a = a /\ g.S[g.B[a]].step = g.H[a].vertex
         /\ ~Sized(g.H[a]) => g.B[a + 1] = g.B[a]
         /\ g.r <= a /\ g.H[a].last => a + 1 = g.e
<1>1. g.H \in [Nat -> PendingPkg] /\ g.B \in [Nat -> Nat] /\ g.e \in Nat /\ g.r \in Nat
  BY GhostFields
<1>2. FirstId \in Nat /\ a \in FirstId .. g.e - 1 /\ a + 1 \in Nat
  BY <1>1, PairIdAssumption
<1>3. /\ g.B[a + 1] = IF Sized(g.H[a]) THEN g.B[a] + 1 ELSE g.B[a]
      /\ Sized(g.H[a]) => g.S[g.B[a]] = [a |-> a, step |-> g.H[a].vertex]
      /\ g.H[a].last => ~Sized(g.H[a])
  BY <1>2 DEF Parts, Numbering
<1>4. g.H[a] \in PendingPkg /\ g.B[a] \in Nat /\ g.B[a + 1] \in Nat
  BY <1>1, <1>2
<1>5. g.H[a].last \in BOOLEAN
  BY <1>4 DEF PendingPkg
<1>6. g.r <= a /\ g.H[a].last => a + 1 = g.e
  <2>1. g.r <= a => a \in g.r .. g.e - 1
    BY <1>1
  <2> QED
    BY <1>1, <2>1 DEF Parts, Flags
<1> QED
  BY <1>3, <1>4, <1>5, <1>6

\* What it says of a list.
LEMMA HistoryList ==
  ASSUME NEW g \in GhostSet, Parts(g), NEW l \in Nat, l < g.B[g.e]
  PROVE  /\ g.S[l].a \in Nat /\ FirstId <= g.S[l].a /\ g.S[l].a < g.e
         /\ Sized(g.H[g.S[l].a]) /\ g.B[g.S[l].a] = l /\ g.B[g.S[l].a + 1] = l + 1
         /\ g.S[l].step = g.H[g.S[l].a].vertex /\ g.S[l].step \in StepSet
         /\ DescOf(g.S[l].step.curr).size # 0
         /\ DescOf(g.S[l].step.curr) \in DescSet /\ DescOf(g.S[l].step.prev) \in DescSet
         /\ g.S[l].step.prev \in Vertices \union {Dead}
<1>1. g.B \in [Nat -> Nat] /\ g.e \in Nat /\ g.S \in [Nat -> ListSet]
  BY GhostFields
<1>2. FirstId \in Nat /\ l \in 0 .. g.B[g.e] - 1
  BY <1>1, PairIdAssumption
<1>3. /\ g.S[l].a \in FirstId .. g.e - 1
      /\ Sized(g.H[g.S[l].a]) /\ g.B[g.S[l].a] = l
  BY <1>2 DEF Parts, Numbering
<1> PICK a \in Nat : a = g.S[l].a
  BY <1>2, <1>3
<1>4. FirstId <= a /\ a < g.e /\ Sized(g.H[a]) /\ g.B[a] = l
  BY <1>1, <1>2, <1>3
<1>5. /\ g.B[a + 1] = g.B[a] + 1 /\ g.S[g.B[a]].step = g.H[a].vertex
  BY <1>4, HistoryStep
<1>6. g.S[l] \in ListSet
  BY <1>1
<1>7. g.S[l].step \in StepSet
  BY <1>6 DEF ListSet
<1>8. DescOf(g.S[l].step.curr).size # 0
  BY <1>4, <1>5 DEF Sized
<1>9. g.S[l].step.curr \in Vertices \union {Dead} /\ g.S[l].step.prev \in Vertices \union {Dead}
  BY <1>7 DEF StepSet
<1>10. DescOf(g.S[l].step.curr) \in DescSet /\ DescOf(g.S[l].step.prev) \in DescSet
  BY <1>9, DescType
<1> QED
  BY <1>4, <1>5, <1>7, <1>8, <1>9, <1>10

\* The later the step the more lists are before it.
LEMMA ListsBefore ==
  ASSUME NEW g \in GhostSet, Parts(g), NEW a \in Nat, NEW c \in Nat,
         FirstId <= a, a <= c, c <= g.e
  PROVE  g.B[a] \in Nat /\ g.B[c] \in Nat /\ g.B[a] <= g.B[c]
<1>1. g.B \in [Nat -> Nat] /\ g.e \in Nat
  BY GhostFields
<1>3. FirstId \in Nat
  BY PairIdAssumption
<1>2. a \in FirstId .. g.e /\ c \in FirstId .. g.e
  BY <1>1, <1>3
<1> QED
  BY <1>1, <1>2 DEF Parts, Numbering

\* vertex_loader has returned when vd_dispatch has come to the end of the last
\* step, and only when it has read the last packet.
LEMMA RunEnd ==
  ASSUME NEW g \in GhostSet, Parts(g)
  PROVE  /\ ~vl_run => g.r < g.e /\ g.H[g.e - 1].last /\ g.q = 2 * g.e
         /\ g.r < g.e /\ g.H[g.e - 1].last /\ 2 * g.e <= g.v + 1 /\ vds # <<>> => ~vl_run
         /\ g.r < g.e /\ g.H[g.e - 1].last /\ g.d = g.e => ~vl_run
<1>1. ~vl_run <=> g.r < g.e /\ g.H[g.e - 1].last /\ g.q = 2 * g.e
  BY DEF Parts, Flags
<1>2. /\ 2 * g.d <= g.v /\ g.v <= g.q /\ g.q <= 2 * g.e
      /\ g.d \in Nat /\ g.v \in Nat /\ g.q \in Nat /\ g.e \in Nat
  BY Order, GhostFields
<1>3. vds # <<>> => g.v < g.q
  <2>1. Holds(vds, VdsOf(g.H), g.v, g.q, 0, None)
    BY DEF Parts, Asked
  <2> QED
    BY <1>2, <2>1, StreamPop
<1>4. 2 * g.e <= g.v + 1 /\ vds # <<>> => g.q = 2 * g.e
  BY <1>2, <1>3, SMTT(30)
<1>5. g.d = g.e => g.q = 2 * g.e
  BY <1>2
<1> QED
  BY <1>1, <1>4, <1>5

\* vertex_loader reads a descriptor.
LEMMA VertexLoaderStep ==
  ASSUME Rest, NEW g \in GhostSet, Parts(g), VertexLoader
  PROVE  PairInv'
<1>1. /\ vl_run /\ query # <<>> /\ query' = Tail(query)
      /\ vds' = Append(vds, [d |-> DescOf(Head(query).v), last |-> Head(query).last])
      /\ vl_run' = ~Head(query).last
  BY DEF VertexLoader
<1>2. UNCHANGED <<asked, half, last_pkg, current, last, sta_stop, sync_id, update,
                  assert_mask, sta_vd, filtered, sta_line, sta_cmd, assert_out, sta_run,
                  sta_out, si_vd, si_line, si_cmd, si_run, si_out, seen, next_vertex,
                  update_id, answer, pending, assert_in>>
  BY DEF VertexLoader, staVars, staCmdVars, siVars, outVars
<1>3. PICK h \in GhostSet :
        /\ h.q = g.q + 1 /\ h.d = g.d /\ h.v = g.v
        /\ SameSteps(g, h) /\ SameSta(g, h) /\ SameStaLines(g, h)
        /\ SameSi(g, h) /\ SameSiLines(g, h) /\ SameOut(g, h)
  <2> PICK c \in Nat : c = g.q + 1
    BY GhostFields
  <2> DEFINE h == [g EXCEPT !.q = c]
  <2>1. h \in GhostSet
    BY ZenonT(60) DEF GhostSet
  <2>2. /\ h.q = g.q + 1 /\ h.d = g.d /\ h.v = g.v
        /\ SameSteps(g, h) /\ SameSta(g, h) /\ SameStaLines(g, h)
        /\ SameSi(g, h) /\ SameSiLines(g, h) /\ SameOut(g, h)
    BY DEF GhostSet, SameSteps, SameSta, SameStaLines, SameSi, SameSiLines, SameOut
  <2> QED
    BY <2>1, <2>2
<1>4. g.v \in Nat /\ g.q \in Nat /\ g.d \in Nat /\ g.e \in Nat /\ g.r \in Nat
  BY GhostFields
<1> DEFINE y == 2 * g.e - Len(half)
<1>5. Holds(query, QueryOf(g.H), g.q, y, 0, None) /\ Holds(vds, VdsOf(g.H), g.v, g.q, 0, None)
  BY DEF Parts, Asked
<1>6. y \in Nat /\ y <= 2 * g.e
  <2>1. Len(half) \in {0, 1} /\ g.q <= y
    BY Order
  <2> DEFINE n == Len(half)
  <2>2. n \in {0, 1} /\ g.q <= 2 * g.e - n
    BY <2>1
  <2> HIDE DEF n
  <2>3. 2 * g.e - n \in Nat /\ 2 * g.e - n <= 2 * g.e
    BY <1>4, <2>2
  <2> QED
    BY <2>3 DEF n
<1> HIDE DEF y
<1>7. /\ g.q < y /\ Head(query) = QueryOf(g.H)[g.q]
      /\ Holds(Tail(query), QueryOf(g.H), g.q + 1, y, 0, None)
  BY <1>1, <1>4, <1>5, <1>6, StreamPop
<1>8. Asked(h)'
  <2>1. vds' = Append(vds, VdsOf(g.H)[g.q])
    <3>1. VdsOf(g.H)[g.q] = [d |-> DescOf(QueryOf(g.H)[g.q].v), last |-> QueryOf(g.H)[g.q].last]
      BY <1>4, Zenon DEF VdsOf
    <3> QED
      BY <1>1, <1>7, <3>1
  <2>2. Holds(vds', VdsOf(g.H), g.v, g.q + 1, 0, None)
    BY <1>4, <1>5, <2>1, HoldsPush
  <2>3. Holds(query', QueryOf(g.H), g.q + 1, 2 * g.e - Len(half), 0, None)
    BY <1>1, <1>7 DEF y
  <2>4. /\ Holds(pending, g.H, g.b, g.e, 0, None)
        /\ Holds(half, QueryOf(g.H), 2 * g.e - Len(half), 2 * g.e, 0, None) /\ Len(half) <= 1
        /\ IF last_pkg = <<>> THEN g.v = 2 * g.d
           ELSE g.v = 2 * g.d + 1 /\ last_pkg = <<DescOf(g.H[g.d].vertex.curr)>>
        /\ Holds(current, CurrentOf(g.H), g.s, g.d, 0, None)
    BY DEF Parts, Asked
  <2> QED
    BY <1>2, <1>3, <2>2, <2>3, <2>4 DEF Asked, SameSteps, SameSta, SameOut
<1>9. Flags(h)'
  <2>1. vl_run' <=> ~QueryOf(g.H)[g.q].last
    BY <1>1, <1>7
  <2>2. ~(g.r < g.e /\ g.H[g.e - 1].last /\ g.q = 2 * g.e)
    BY <1>1 DEF Parts, Flags
  <2>3. QueryOf(g.H)[g.q].last <=> g.r < g.e /\ g.H[g.e - 1].last /\ g.q + 1 = 2 * g.e
    <3>1. PICK a \in Nat : g.q = 2 * a \/ g.q = 2 * a + 1
      BY <1>4, EvenOrOdd
    <3>2. /\ FirstId \in Nat /\ FirstId <= g.r /\ g.r <= g.d /\ 2 * g.d <= g.v /\ g.v <= g.q
      <4>1. g.b \in Nat /\ g.s \in Nat
        BY GhostFields
      <4>2. /\ FirstId \in Nat /\ FirstId <= g.r /\ g.r <= g.b /\ g.b <= g.s /\ g.s <= g.d
            /\ 2 * g.d <= g.v /\ g.v <= g.q
        BY Order
      <4> QED
        BY <1>4, <4>1, <4>2
    <3>3. a < g.e /\ g.r <= a /\ FirstId <= a
      BY <1>4, <1>6, <1>7, <3>1, <3>2
    <3>4. CASE g.q = 2 * a
      <4>1. QueryOf(g.H)[2 * a] = [v |-> g.H[a].vertex.curr, last |-> FALSE]
        BY QueryPair
      <4>2. ~QueryOf(g.H)[g.q].last
        BY <3>4, <4>1
      <4>3. g.q + 1 # 2 * g.e
        BY <1>4, <3>4
      <4> QED
        BY <4>2, <4>3
    <3>5. CASE g.q = 2 * a + 1
      <4>1. QueryOf(g.H)[2 * a + 1] = [v |-> g.H[a].vertex.prev, last |-> g.H[a].last]
        BY QueryPair
      <4>2. QueryOf(g.H)[g.q].last = g.H[a].last
        BY <3>5, <4>1
      <4>3. g.H[a].last => a + 1 = g.e
        BY <3>3, HistoryStep
      <4>4. g.r < g.e
        BY <1>4, <3>3
      <4>5. g.q + 1 = 2 * g.e <=> a = g.e - 1
        BY <1>4, <3>5
      <4>6. a + 1 = g.e => a = g.e - 1
        BY <1>4
      <4> QED
        BY <4>2, <4>3, <4>4, <4>5, <4>6
    <3> QED
      BY <3>1, <3>4, <3>5
  <2>4. \A a \in g.r .. g.e - 1 : g.H[a].last => a = g.e - 1
    BY DEF Parts, Flags
  <2>5. ~vl_run' <=> g.r < g.e /\ g.H[g.e - 1].last /\ g.q + 1 = 2 * g.e
    BY <2>1, <2>3
  <2> QED
    BY <1>3, <2>4, <2>5 DEF Flags, SameSteps
<1>10. StaStops(h)' /\ SiStops(h)'
  BY <1>1, <1>2, <1>3 DEF Parts, StaStops, SiStops, SameSteps, SameSta, SameStaLines, SameSi,
     SameSiLines
<1>11. Bounds(h)'
  BY <1>2, <1>3 DEF Parts, Bounds, SameSteps, SameSta, SameOut
<1>12. /\ Numbering(h)' /\ Masked(h)' /\ Updated(h)' /\ StaLines(h)' /\ SiLines(h)'
       /\ SeenPrev(h)' /\ SeenCurr(h)' /\ Sampled(h)'
  BY <1>2, <1>3, KeepNumbering, KeepMasked, KeepUpdated, KeepStaLines,
     KeepSiLines, KeepSeen, KeepSampled DEF Parts, SameSteps, SameSta, SameOut,
     SameStaLines, SameSi, SameSiLines
<1>13. Rest'
  <2>1. vl_run' \in BOOLEAN
    BY <1>1
  <2> QED
    BY <1>2, <2>1 DEF Rest
<1> QED
  BY <1>3, <1>8, <1>9, <1>10, <1>11, <1>12, <1>13 DEF PairInv, Parts

\* vd_dispatch takes the previous vertex of a step.
LEMMA DispatchPrevStep ==
  ASSUME Rest, NEW g \in GhostSet, Parts(g), DispatchPrev
  PROVE  PairInv'
<1>1. /\ last_pkg # <<>> /\ vds # <<>> /\ vds' = Tail(vds) /\ last_pkg' = <<>>
      /\ current' = Append(current, [d |-> Head(last_pkg), last |-> Head(vds).last])
      /\ last' = IF NeedsPrevious(Head(last_pkg), Head(vds).last) THEN Append(last, Head(vds))
                 ELSE last
  BY DEF DispatchPrev
<1>2. UNCHANGED <<asked, half, query, vl_run, sta_stop, sync_id, update,
                  assert_mask, sta_vd, filtered, sta_line, sta_cmd, assert_out, sta_run,
                  sta_out, si_vd, si_line, si_cmd, si_run, si_out, seen, next_vertex,
                  update_id, answer, pending, assert_in>>
  BY DEF DispatchPrev, dupVars, staVars, staCmdVars, siVars, outVars
<1>3. /\ g.v \in Nat /\ g.q \in Nat /\ g.d \in Nat /\ g.e \in Nat /\ g.r \in Nat /\ g.s \in Nat
      /\ g.i \in Nat /\ g.j \in Nat /\ g.b \in Nat
  BY GhostFields
<1>4. /\ Holds(vds, VdsOf(g.H), g.v, g.q, 0, None)
      /\ g.v = 2 * g.d + 1 /\ last_pkg = <<DescOf(g.H[g.d].vertex.curr)>>
      /\ Holds(current, CurrentOf(g.H), g.s, g.d, 0, None)
  BY <1>1 DEF Parts, Asked
<1>5. /\ g.v < g.q /\ Head(vds) = VdsOf(g.H)[g.v]
      /\ Holds(Tail(vds), VdsOf(g.H), g.v + 1, g.q, 0, None)
  BY <1>1, <1>3, <1>4, StreamPop
<1>6. /\ FirstId \in Nat /\ FirstId <= g.r /\ g.r <= g.b /\ g.b <= g.s /\ g.s <= g.d
      /\ g.q <= 2 * g.e
  BY Order
<1>7. FirstId <= g.d /\ g.d < g.e /\ g.r <= g.d
  BY <1>3, <1>4, <1>5, <1>6
<1> DEFINE p == g.H[g.d]
<1>8. Head(vds) = [d |-> DescOf(p.vertex.prev), last |-> p.last]
  <2>1. VdsOf(g.H)[2 * g.d + 1] = [d |-> DescOf(p.vertex.prev), last |-> p.last]
    BY <1>3, QueryPair, ZenonT(60)
  <2> QED
    BY <1>4, <1>5, <2>1
<1>9. Head(vds).last = p.last /\ Head(last_pkg) = DescOf(p.vertex.curr)
  BY <1>4, <1>8
<1>10. NeedsPrevious(Head(last_pkg), Head(vds).last) <=> Sized(p) \/ p.last
  BY <1>9 DEF NeedsPrevious, Sized
<1>11. /\ p \in PendingPkg /\ p.last \in BOOLEAN /\ g.B[g.d] \in Nat /\ g.B[g.d + 1] \in Nat
       /\ Sized(p) => /\ g.B[g.d + 1] = g.B[g.d] + 1 /\ ~p.last
                      /\ g.S[g.B[g.d]].a = g.d /\ g.S[g.B[g.d]].step = p.vertex
       /\ ~Sized(p) => g.B[g.d + 1] = g.B[g.d]
       /\ p.last => g.d + 1 = g.e
  BY <1>3, <1>7, HistoryStep
<1>12. g.yl = 0 /\ g.yv = 0 /\ g.yc = 0 /\ si_run
  <2>1. g.yl = 1 \/ g.yv = 1 \/ g.yc = 1 \/ ~si_run => g.d = g.e
    BY DEF Parts, SiStops
  <2>2. g.yl \in {0, 1} /\ g.yv \in {0, 1} /\ g.yc \in {0, 1}
    BY GhostFields DEF Bit
  <2> QED
    BY <1>3, <1>7, <2>1, <2>2
<1>13. PICK h \in GhostSet :
        /\ h.v = g.v + 1 /\ h.d = g.d + 1 /\ h.q = g.q
        /\ h.i = g.i /\ h.j = g.j /\ h.yv = g.yv /\ h.yl = IF p.last THEN 1 ELSE 0
        /\ SameSteps(g, h) /\ SameSta(g, h) /\ SameStaLines(g, h)
        /\ SameSiLines(g, h) /\ SameOut(g, h)
  <2> PICK x \in Nat, y \in Nat, z \in Bit :
        x = g.v + 1 /\ y = g.d + 1 /\ z = IF p.last THEN 1 ELSE 0
    BY <1>3 DEF Bit
  <2> DEFINE h == [g EXCEPT !.v = x, !.d = y, !.yl = z]
  <2>1. h \in GhostSet
    BY ZenonT(60) DEF GhostSet
  <2>2. /\ h.v = x /\ h.d = y /\ h.q = g.q
        /\ h.i = g.i /\ h.j = g.j /\ h.yv = g.yv /\ h.yl = z
        /\ SameSteps(g, h) /\ SameSta(g, h) /\ SameStaLines(g, h)
        /\ SameSiLines(g, h) /\ SameOut(g, h)
    BY DEF GhostSet, SameSteps, SameSta, SameStaLines, SameSiLines, SameOut
  <2> QED
    BY <2>1, <2>2
<1> HIDE DEF p
<1>14. Bounds(h)'
  <2>1. g.d + 1 <= g.e /\ g.s <= g.d + 1
    BY <1>3, <1>6, <1>7
  <2> QED
    BY <1>2, <1>13, <2>1 DEF Parts, Bounds, SameSteps, SameSta, SameOut
<1>15. Asked(h)'
  <2>1. CurrentOf(g.H)[g.d] = [d |-> DescOf(p.vertex.curr), last |-> p.last]
    BY <1>3 DEF CurrentOf, p
  <2>2. current' = Append(current, CurrentOf(g.H)[g.d])
    BY <1>1, <1>9, <2>1
  <2>3. Holds(current', CurrentOf(g.H), g.s, g.d + 1, 0, None)
    BY <1>3, <1>4, <2>2, HoldsPush
  <2>4. g.v + 1 = 2 * (g.d + 1)
    BY <1>3, <1>4
  <2>5. Holds(vds', VdsOf(g.H), g.v + 1, g.q, 0, None)
    BY <1>1, <1>5
  <2>6. /\ Holds(pending, g.H, g.b, g.e, 0, None)
        /\ Holds(half, QueryOf(g.H), 2 * g.e - Len(half), 2 * g.e, 0, None) /\ Len(half) <= 1
        /\ Holds(query, QueryOf(g.H), g.q, 2 * g.e - Len(half), 0, None)
    BY DEF Parts, Asked
  <2> QED
    BY <1>1, <1>2, <1>13, <2>3, <2>4, <2>5, <2>6 DEF Asked, SameSteps, SameSta, SameOut
<1>16. g.B[g.d] <= g.B[g.d + 1]
  BY <1>11
<1>17. SiLines(h)'
  <2> DEFINE stop == VdsOf(g.H)[2 * g.e - 1]
  <2>1. Holds(last, LastOf(g.S), g.i, g.B[g.d], 0, stop)
    BY <1>12 DEF Parts, SiLines
  <2>2. Head(vds) = stop \/ ~p.last
    <3>1. p.last => g.v = 2 * g.e - 1
      BY <1>3, <1>4, <1>11
    <3> QED
      BY <1>5, <3>1
  <2> HIDE DEF stop
  <2>3. Holds(last', LastOf(g.S), g.i, g.B[g.d + 1], h.yl, stop)
    <3>1. CASE Sized(p)
      <4>1. LastOf(g.S)[g.B[g.d]] = [d |-> DescOf(g.S[g.B[g.d]].step.prev), last |-> FALSE]
        BY <1>11 DEF LastOf
      <4>2. Head(vds) = LastOf(g.S)[g.B[g.d]]
        BY <1>8, <1>11, <3>1, <4>1 DEF p
      <4>3. last' = Append(last, LastOf(g.S)[g.B[g.d]])
        BY <1>1, <1>10, <3>1, <4>2
      <4>4. Holds(last', LastOf(g.S), g.i, g.B[g.d] + 1, 0, stop)
        BY <1>3, <1>11, <2>1, <4>3, HoldsPush
      <4> QED
        BY <1>11, <1>13, <3>1, <4>4 DEF p
    <3>2. CASE ~Sized(p) /\ p.last
      <4>1. last' = Append(last, stop)
        BY <1>1, <1>10, <2>2, <3>2
      <4>2. Holds(last', LastOf(g.S), g.i, g.B[g.d], 1, stop)
        BY <1>3, <1>11, <2>1, <4>1, HoldsPush
      <4> QED
        BY <1>11, <1>13, <3>2, <4>2 DEF p
    <3>3. CASE ~Sized(p) /\ ~p.last
      BY <1>1, <1>10, <1>11, <1>13, <2>1, <3>3 DEF p
    <3> QED
      BY <3>1, <3>2, <3>3
  <2>4. \A y \in g.y1 .. g.y3 - 1 :
           /\ g.U[y + 1] = Behind(g.U[y], SiCmd(g.S[g.U[y].l], g.U[y].n).end_of_burst)
           /\ g.U[y].l < g.B[g.d + 1]
    <3>1. ASSUME NEW y \in g.y1 .. g.y3 - 1
          PROVE  /\ g.U[y + 1] = Behind(g.U[y], SiCmd(g.S[g.U[y].l], g.U[y].n).end_of_burst)
                 /\ g.U[y].l < g.B[g.d]
      BY DEF Parts, SiLines
    <3>2. ASSUME NEW y \in g.y1 .. g.y3 - 1 PROVE g.U[y].l \in Nat
      <4>1. g.U \in [Nat -> PlaceSet] /\ y \in Nat
        BY GhostFields
      <4> QED
        BY <4>1 DEF PlaceSet
    <3> QED
      BY <1>11, <1>16, <3>1, <3>2
  <2>5. /\ Holds(si_vd, SiVdOf(g.S), g.j, g.i, g.yv, StopVd)
        /\ g.U[g.y3] = [l |-> g.j, n |-> si_line]
        /\ si_line # 0 => g.j < g.i
        /\ Holds(si_out, SiOutOf(g.S, g.U), g.y1, g.y2, 0, None)
        /\ Holds(si_cmd, SiCmdOf(g.S, g.U), g.y2, g.y3, g.yc, StopCmd)
    BY DEF Parts, SiLines
  <2> QED
    BY <1>2, <1>13, <2>3, <2>4, <2>5 DEF SiLines, SameSteps, SameSiLines, stop
<1>18. SeenPrev(h)'
  <2>1. g.t \in Nat
    BY GhostFields
  <2>2. g.t < g.B[g.d] => g.t < g.B[g.d + 1]
    BY <1>11, <1>16, <2>1
  <2> QED
    BY <1>2, <1>13, <2>2 DEF Parts, SeenPrev, SameSteps, SameSiLines, SameOut
<1>19. SiStops(h)'
  <2>1. p.last => ~vl_run
    <3>1. p.last => g.r < g.e /\ g.H[g.e - 1].last /\ 2 * g.e <= g.v + 1
      <4>1. p.last => g.d = g.e - 1 /\ g.r < g.e /\ 2 * g.e <= g.v + 1
        BY <1>3, <1>4, <1>7, <1>11
      <4> QED
        BY <4>1 DEF p
    <3> QED
      BY <1>1, <3>1, RunEnd
  <2>2. p.last => g.d + 1 = g.e
    BY <1>11 DEF p
  <2> QED
    BY <1>2, <1>12, <1>13, <2>1, <2>2 DEF SiStops, SameSteps, SameSiLines
<1>20. StaStops(h)'
  BY <1>2, <1>13, KeepStops DEF Parts
<1>21. /\ Numbering(h)' /\ Flags(h)' /\ Masked(h)' /\ Updated(h)' /\ StaLines(h)'
       /\ SeenCurr(h)' /\ Sampled(h)'
  BY <1>2, <1>13, KeepNumbering, KeepFlags, KeepMasked, KeepUpdated, KeepStaLines,
     KeepSeen, KeepSampled DEF Parts, SameSteps, SameSta, SameOut, SameStaLines
<1>22. Rest'
  BY <1>2 DEF Rest
<1> QED
  BY <1>13, <1>14, <1>15, <1>17, <1>18, <1>19, <1>20, <1>21, <1>22 DEF PairInv, Parts

\* sta_vd_scheduler has work left of this run.
LEMMA NoStaStop ==
  ASSUME NEW g \in GhostSet, Parts(g), g.s < g.e
  PROVE  /\ g.zm = 0 /\ g.zf = 0 /\ g.zv = 0 /\ g.zc = 0
         /\ ~sta_stop /\ sta_run
<1>1. g.zm \in {0, 1} /\ g.zf \in {0, 1} /\ g.zv \in {0, 1} /\ g.zc \in {0, 1}
  BY GhostFields DEF Bit
<1>2. g.s \in Nat /\ g.e \in Nat
  BY GhostFields
<1>3. /\ g.zm + g.zf = g.zv
      /\ sta_stop \/ g.zv = 1 \/ g.zc = 1 \/ ~sta_run => g.s = g.e
  BY DEF Parts, StaStops
<1> QED
  BY <1>1, <1>2, <1>3

\* What lies between two steps still does when the second one is later.
LEMMA AlsoLater ==
  ASSUME NEW b \in Nat, NEW s \in Nat, NEW a \in b .. s - 1
  PROVE  a \in b .. (s + 1) - 1 /\ a \in Int /\ a < s
OBVIOUS

\* sta_vd_scheduler numbers a step.
LEMMA StaScheduleStep ==
  ASSUME Rest, NEW g \in GhostSet, Parts(g), StaSchedule
  PROVE  PairInv'
<1> DEFINE p == Head(current)
<1>1. /\ ~sta_stop /\ current # <<>> /\ current' = Tail(current)
      /\ assert_mask' = Append(assert_mask, [data |-> p.d.size # 0, last |-> FALSE])
      /\ sta_stop' = p.last /\ sync_id' = Succ(sync_id)
      /\ \/ /\ p.d.size = 0
            /\ update' = Append(update, [id |-> sync_id, to |-> NoVertex, last |-> p.last])
            /\ sta_vd' = sta_vd
         \/ /\ p.d.size # 0
            /\ sta_vd' = Append(sta_vd, [d |-> p.d, id |-> sync_id, last |-> p.last])
            /\ update' = update
  BY DEF StaSchedule
<1>2. UNCHANGED <<asked, half, query, assert_in, vl_run, vds, last_pkg, last, filtered,
                  sta_line, sta_cmd, assert_out, sta_run, sta_out, si_vd, si_line, si_cmd,
                  si_run, si_out, seen, next_vertex, update_id, answer, pending>>
  BY DEF StaSchedule, dupVars, staCmdVars, siVars, outVars
<1>3. /\ g.d \in Nat /\ g.e \in Nat /\ g.r \in Nat /\ g.s \in Nat /\ g.m \in Nat /\ g.k \in Nat
      /\ g.b \in Nat /\ g.t \in Nat /\ g.W \in Seq(Nat) /\ g.H \in [Nat -> PendingPkg]
  BY GhostFields
<1>4. Holds(current, CurrentOf(g.H), g.s, g.d, 0, None)
  BY DEF Parts, Asked
<1>5. /\ g.s < g.d /\ Head(current) = CurrentOf(g.H)[g.s]
      /\ Holds(Tail(current), CurrentOf(g.H), g.s + 1, g.d, 0, None)
  BY <1>1, <1>3, <1>4, StreamPop
<1>6. /\ FirstId \in Nat /\ FirstId <= g.r /\ g.r <= g.b /\ g.b <= g.s /\ g.d <= g.e
      /\ g.m <= g.s /\ g.r <= g.m
  BY Order
<1>7. FirstId <= g.s /\ g.s < g.e /\ g.r <= g.s
  BY <1>3, <1>5, <1>6, SMTT(30)
<1> DEFINE o == g.H[g.s]
<1>8. p.d = DescOf(o.vertex.curr) /\ p.last = o.last
  BY <1>3, <1>5, SMTT(30) DEF CurrentOf
<1> HIDE DEF p
<1>9. p.d.size # 0 <=> Sized(o)
  BY <1>8 DEF Sized
<1>10. /\ o \in PendingPkg /\ o.last \in BOOLEAN /\ g.B[g.s] \in Nat /\ g.B[g.s + 1] \in Nat
       /\ Sized(o) => /\ g.B[g.s + 1] = g.B[g.s] + 1 /\ ~o.last
                      /\ g.S[g.B[g.s]].a = g.s /\ g.S[g.B[g.s]].step = o.vertex
       /\ ~Sized(o) => g.B[g.s + 1] = g.B[g.s]
       /\ o.last => g.s + 1 = g.e
  <2>1. g.s \in Nat
    BY <1>3
  <2>2. /\ g.H[g.s] \in PendingPkg /\ g.H[g.s].last \in BOOLEAN
        /\ g.B[g.s] \in Nat /\ g.B[g.s + 1] \in Nat
        /\ Sized(g.H[g.s]) => /\ g.B[g.s + 1] = g.B[g.s] + 1 /\ ~g.H[g.s].last
                              /\ g.S[g.B[g.s]].a = g.s /\ g.S[g.B[g.s]].step = g.H[g.s].vertex
        /\ ~Sized(g.H[g.s]) => g.B[g.s + 1] = g.B[g.s]
        /\ g.r <= g.s /\ g.H[g.s].last => g.s + 1 = g.e
    BY <1>7, <2>1, HistoryStep
  <2> QED
    BY <1>7, <2>2
<1>11. /\ g.zm = 0 /\ g.zf = 0 /\ g.zv = 0 /\ g.zc = 0 /\ sta_run
  BY <1>7, NoStaStop
<1>12. PICK h \in GhostSet :
         /\ h.m = g.m /\ h.s = g.s + 1 /\ h.k = g.k /\ h.zm = g.zm /\ h.zf = g.zf /\ h.zv = g.zv
         /\ h.b = g.b /\ h.t = g.t /\ h.W = IF Sized(o) THEN g.W ELSE Append(g.W, g.s)
         /\ SameSteps(g, h) /\ SameFront(g, h) /\ SameStaLines(g, h)
         /\ SameSi(g, h) /\ SameSiLines(g, h)
  <2> PICK x \in Nat : x = g.s + 1
    BY <1>3
  <2> PICK w \in Seq(Nat) : w = IF Sized(o) THEN g.W ELSE Append(g.W, g.s)
    <3>1. Append(g.W, g.s) \in Seq(Nat)
      BY <1>3
    <3> QED
      BY <1>3, <3>1
  <2> DEFINE h == [g EXCEPT !.s = x, !.W = w]
  <2>1. h \in GhostSet
    BY ZenonT(60) DEF GhostSet
  <2>2. /\ h.m = g.m /\ h.s = x /\ h.k = g.k /\ h.zm = g.zm /\ h.zf = g.zf /\ h.zv = g.zv
        /\ h.b = g.b /\ h.t = g.t /\ h.W = w
        /\ SameSteps(g, h) /\ SameFront(g, h) /\ SameStaLines(g, h)
        /\ SameSi(g, h) /\ SameSiLines(g, h)
    BY DEF GhostSet, SameSteps, SameFront, SameStaLines, SameSi, SameSiLines
  <2> QED
    BY <2>1, <2>2
<1> HIDE DEF o
<1>13. sync_id = g.s % IdMod
  BY DEF Parts, Bounds
<1>14. Bounds(h)'
  <2>1. sync_id' = (g.s + 1) % IdMod
    BY <1>1, <1>3, <1>13, NextNumber
  <2>2. g.b <= g.s + 1 /\ g.s + 1 <= g.d /\ g.m <= g.s + 1
    BY <1>3, <1>5, <1>6, SMTT(30)
  <2> QED
    BY <1>2, <1>12, <2>1, <2>2 DEF Parts, Bounds, SameSteps, SameFront
<1>15. Asked(h)'
  <2>1. Holds(current', CurrentOf(g.H), g.s + 1, g.d, 0, None)
    BY <1>1, <1>5
  <2> QED
    BY <1>2, <1>12, <2>1 DEF Parts, Asked, SameSteps, SameFront
<1>16. Masked(h)'
  <2>1. /\ Holds(assert_in, AssertOf(g.H), g.m, g.e, 0, None)
        /\ Holds(assert_mask, MaskOf(g.H), g.m, g.s, 0, StopMask)
        /\ Holds(sta_vd, StaVdOf(g.S), g.k, g.B[g.s], 0, StopVd)
        /\ Holds(filtered, FilteredOf(g.S), g.k, g.B[g.m], 0, StopAssert)
    BY <1>11 DEF Parts, Masked
  <2>2. assert_mask' = Append(assert_mask, MaskOf(g.H)[g.s])
    <3>1. MaskOf(g.H)[g.s] = [data |-> Sized(o), last |-> FALSE]
      BY <1>3, Zenon DEF MaskOf, o
    <3>2. (p.d.size # 0) = Sized(o)
      <4>1. (p.d.size # 0) \in BOOLEAN /\ Sized(o) \in BOOLEAN
        BY DEF Sized
      <4> QED
        BY <1>9, <4>1
    <3>3. [data |-> p.d.size # 0, last |-> FALSE] = [data |-> Sized(o), last |-> FALSE]
      BY <3>2, Zenon
    <3> QED
      BY <1>1, <3>1, <3>3, Zenon
  <2>3. Holds(assert_mask', MaskOf(g.H), g.m, g.s + 1, 0, StopMask)
    BY <1>3, <2>1, <2>2, HoldsPush
  <2>4. Holds(sta_vd', StaVdOf(g.S), g.k, g.B[g.s + 1], 0, StopVd)
    <3>1. CASE Sized(o)
      <4>1. StaVdOf(g.S)[g.B[g.s]] = [d |-> DescOf(o.vertex.curr), id |-> g.s % IdMod, last |-> FALSE]
        BY <1>10, <3>1 DEF StaVdOf, StaVd
      <4>2. o.last = FALSE
        BY <1>10, <3>1
      <4>3. [d |-> p.d, id |-> sync_id, last |-> p.last]
               = [d |-> DescOf(o.vertex.curr), id |-> g.s % IdMod, last |-> FALSE]
        BY <1>8, <1>13, <4>2, Zenon
      <4>4. sta_vd' = Append(sta_vd, StaVdOf(g.S)[g.B[g.s]])
        BY <1>1, <1>9, <3>1, <4>1, <4>3, Zenon
      <4>5. Holds(sta_vd', StaVdOf(g.S), g.k, g.B[g.s] + 1, 0, StopVd)
        BY <1>3, <1>10, <2>1, <4>4, HoldsPush
      <4> QED
        BY <1>10, <3>1, <4>5
    <3>2. CASE ~Sized(o)
      BY <1>1, <1>9, <1>10, <2>1, <3>2
    <3> QED
      BY <3>1, <3>2
  <2> QED
    BY <1>2, <1>11, <1>12, <2>1, <2>3, <2>4 DEF Masked, SameSteps
<1>17. g.B[g.s] <= g.B[g.s + 1]
  BY <1>10
<1>18. Updated(h)'
  <2>1. /\ IsSeq(update) /\ Len(update) = Len(g.W)
        /\ \A n \in 1 .. Len(g.W) :
             /\ g.W[n] \in g.b .. g.s - 1 /\ ~Sized(g.H[g.W[n]])
             /\ update[n] = [id |-> g.W[n] % IdMod, to |-> NoVertex, last |-> g.H[g.W[n]].last]
        /\ \A n, c \in 1 .. Len(g.W) : n < c => g.W[n] < g.W[c]
    BY DEF Parts, Updated
  <2>2. ASSUME NEW n \in 1 .. Len(g.W)
        PROVE  g.W[n] \in g.b .. (g.s + 1) - 1 /\ g.W[n] \in Int /\ g.W[n] < g.s
    <3>1. g.W[n] \in g.b .. g.s - 1
      BY <2>1
    <3>2. g.b \in Nat /\ g.s \in Nat
      BY GhostFields
    <3> QED
      BY <3>1, <3>2, AlsoLater
  <2>3. CASE Sized(o)
    <3>1. update' = update /\ h.W = g.W
      BY <1>1, <1>9, <1>12, <2>3
    <3> QED
      BY <1>12, <2>1, <2>2, <3>1 DEF Updated, SameSteps
  <2>4. CASE ~Sized(o)
    <3> DEFINE w == Append(g.W, g.s)
               z == [id |-> g.s % IdMod, to |-> NoVertex, last |-> o.last]
               u == Append(update, z)
    <3>1. h.W = w
      BY <1>12, <2>4
    <3>2. update' = u
      <4>1. [id |-> sync_id, to |-> NoVertex, last |-> p.last] = z
        BY <1>8, <1>13, Zenon
      <4> QED
        BY <1>1, <1>9, <2>4, <4>1, Zenon
    <3>3. /\ Len(g.W) \in Nat /\ Len(w) = Len(g.W) + 1 /\ w[Len(g.W) + 1] = g.s
          /\ \A n \in 1 .. Len(g.W) : w[n] = g.W[n]
      <4>1. Len(g.W) \in Nat
        BY <1>3
      <4> QED
        BY <1>3, <4>1, PushElements
    <3>4. /\ IsSeq(u) /\ Len(u) = Len(g.W) + 1 /\ u[Len(g.W) + 1] = z
          /\ \A n \in 1 .. Len(g.W) : u[n] = update[n]
      BY <2>1, PushIsSeq
    <3> HIDE DEF w, u, z
    <3>5. /\ g.s \in g.b .. (g.s + 1) - 1 /\ ~Sized(g.H[g.s])
          /\ z = [id |-> g.s % IdMod, to |-> NoVertex, last |-> g.H[g.s].last]
      BY <1>3, <1>6, <2>4 DEF o, z
    <3>6. ASSUME NEW n \in 1 .. Len(w)
          PROVE  /\ w[n] \in g.b .. (g.s + 1) - 1 /\ ~Sized(g.H[w[n]])
                 /\ u[n] = [id |-> w[n] % IdMod, to |-> NoVertex, last |-> g.H[w[n]].last]
      <4>1. CASE n = Len(g.W) + 1
        BY <3>3, <3>4, <3>5, <4>1
      <4>2. CASE n \in 1 .. Len(g.W)
        BY <2>1, <2>2, <3>3, <3>4, <4>2
      <4> QED
        BY <3>3, <4>1, <4>2
    <3>7. ASSUME NEW n \in 1 .. Len(w), NEW c \in 1 .. Len(w), n < c PROVE w[n] < w[c]
      <4>1. n \in 1 .. Len(g.W)
        BY <3>3, <3>7
      <4>2. w[n] = g.W[n] /\ g.W[n] < g.s /\ g.W[n] \in Int
        BY <2>2, <3>3, <4>1
      <4>3. CASE c = Len(g.W) + 1
        BY <3>3, <4>2, <4>3
      <4>4. CASE c \in 1 .. Len(g.W)
        BY <2>1, <3>3, <3>7, <4>1, <4>2, <4>4
      <4> QED
        BY <3>3, <4>3, <4>4
    <3> QED
      BY <1>12, <3>1, <3>2, <3>3, <3>4, <3>6, <3>7 DEF Updated, SameSteps
  <2> QED
    BY <2>3, <2>4
<1>19. StaLines(h)'
  <2>1. g.k < g.B[g.s] => g.k < g.B[g.s + 1]
    BY <1>3, <1>10, <1>17
  <2>2. \A x \in g.x1 .. g.x3 - 1 : g.F[x].l < g.B[g.s + 1]
    <3>1. ASSUME NEW x \in g.x1 .. g.x3 - 1 PROVE g.F[x].l \in Nat /\ g.F[x].l < g.B[g.s]
      <4>1. g.F \in [Nat -> PlaceSet] /\ x \in Nat
        BY GhostFields
      <4>2. g.F[x].l \in Nat
        BY <4>1 DEF PlaceSet
      <4> QED
        BY <4>2 DEF Parts, StaLines
    <3> QED
      BY <1>10, <1>17, <3>1
  <2> QED
    BY <1>2, <1>12, <2>1, <2>2 DEF Parts, StaLines, SameSteps, SameStaLines
<1>20. SeenCurr(h)'
  <2>1. g.t < g.B[g.s] => g.t < g.B[g.s + 1]
    BY <1>3, <1>10, <1>17
  <2> QED
    BY <1>2, <1>12, <2>1 DEF Parts, SeenCurr, SameSteps
<1>21. Sampled(h)'
  <2>1. ASSUME NEW l \in g.B[g.b] .. g.t - 1 PROVE g.S[l].a \in g.b .. (g.s + 1) - 1
    <3>1. g.S[l].a \in g.b .. g.s - 1
      BY DEF Parts, Sampled
    <3>2. g.b \in Nat /\ g.s \in Nat
      BY GhostFields
    <3> QED
      BY <3>1, <3>2, AlsoLater
  <2> QED
    BY <1>2, <1>12, <2>1 DEF Parts, Sampled, SameSteps
<1>22. StaStops(h)'
  <2>1. o.last => ~vl_run /\ g.s + 1 = g.e
    <3>1. o.last => g.s + 1 = g.e
      BY <1>10
    <3>2. o.last => g.d = g.e /\ g.r < g.e /\ g.H[g.e - 1].last
      <4>1. o.last => g.s = g.e - 1 /\ g.d = g.e /\ g.r < g.e
        <5>1. g.s \in Nat /\ g.d \in Nat /\ g.e \in Nat /\ g.r \in Nat
          BY GhostFields
        <5>2. g.s < g.d
          BY <1>5
        <5>3. g.d <= g.e /\ g.r <= g.s
          BY <1>6, <1>7
        <5> QED
          BY <3>1, <5>1, <5>2, <5>3
      <4> QED
        BY <4>1 DEF o
    <3> QED
      BY <3>1, <3>2, RunEnd
  <2>2. sta_stop' = o.last
    BY <1>1, <1>8
  <2> QED
    BY <1>2, <1>11, <1>12, <2>1, <2>2 DEF StaStops, SameSteps, SameStaLines
<1>23. SiStops(h)'
  BY <1>2, <1>12, KeepStops DEF Parts, SameFront
<1>24. /\ Numbering(h)' /\ Flags(h)' /\ SiLines(h)' /\ SeenPrev(h)'
  BY <1>2, <1>12, KeepNumbering, KeepFlags, KeepSiLines, KeepSeen DEF Parts, SameFront,
     SameSiLines
<1>25. Rest'
  BY <1>1, <1>2, <1>8, <1>10 DEF Rest
<1> QED
  BY <1>12, <1>14, <1>15, <1>16, <1>18, <1>19, <1>20, <1>21, <1>22, <1>23, <1>24, <1>25
     DEF PairInv, Parts

\* sta_vd_scheduler sends the packets that stop staburst_core.
LEMMA StaScheduleStopStep ==
  ASSUME Rest, NEW g \in GhostSet, Parts(g), StaScheduleStop
  PROVE  PairInv'
<1>1. /\ sta_stop /\ sta_vd' = Append(sta_vd, StopVd) /\ sta_stop' = FALSE
      /\ assert_mask' = Append(assert_mask, StopMask)
  BY DEF StaScheduleStop, StopMask
<1>2. UNCHANGED <<asked, half, query, assert_in, vl_run, vds, last_pkg, current, last, sync_id,
                  update, filtered, sta_line, sta_cmd, assert_out, sta_run, sta_out, si_vd,
                  si_line, si_cmd, si_run, si_out, seen, next_vertex, update_id, answer, pending>>
  BY DEF StaScheduleStop, dupVars, loaderVars, staCmdVars, siVars, outVars
<1>3. g.zm = 0 /\ g.zf = 0 /\ g.zv = 0 /\ g.zc = 0 /\ sta_run /\ ~vl_run /\ g.s = g.e
  <2>1. g.zm \in {0, 1} /\ g.zf \in {0, 1}
    BY GhostFields DEF Bit
  <2>2. g.zm + g.zf = g.zv /\ g.zv = 0 /\ g.zc = 0 /\ sta_run /\ ~vl_run /\ g.s = g.e
    BY <1>1 DEF Parts, StaStops
  <2> QED
    BY <2>1, <2>2
<1>4. PICK h \in GhostSet :
        /\ h.m = g.m /\ h.s = g.s /\ h.k = g.k /\ h.zm = 1 /\ h.zf = g.zf /\ h.zv = 1
        /\ SameSteps(g, h) /\ SameFront(g, h) /\ SameStaLines(g, h)
        /\ SameSi(g, h) /\ SameSiLines(g, h) /\ SameOut(g, h)
  <2> PICK z \in Bit : z = 1
    BY DEF Bit
  <2> DEFINE h == [g EXCEPT !.zm = z, !.zv = z]
  <2>1. h \in GhostSet
    BY ZenonT(60) DEF GhostSet
  <2>2. /\ h.m = g.m /\ h.s = g.s /\ h.k = g.k /\ h.zm = z /\ h.zf = g.zf /\ h.zv = z
        /\ SameSteps(g, h) /\ SameFront(g, h) /\ SameStaLines(g, h)
        /\ SameSi(g, h) /\ SameSiLines(g, h) /\ SameOut(g, h)
    BY DEF GhostSet, SameSteps, SameFront, SameStaLines, SameSi, SameSiLines, SameOut
  <2> QED
    BY <2>1, <2>2
<1>5. Masked(h)'
  <2>1. /\ g.m \in Nat /\ g.s \in Nat /\ g.k \in Nat /\ g.B[g.s] \in Nat
    BY GhostFields
  <2>2. /\ Holds(assert_in, AssertOf(g.H), g.m, g.e, 0, None)
        /\ Holds(assert_mask, MaskOf(g.H), g.m, g.s, 0, StopMask)
        /\ Holds(sta_vd, StaVdOf(g.S), g.k, g.B[g.s], 0, StopVd)
        /\ Holds(filtered, FilteredOf(g.S), g.k, g.B[g.m], g.zf, StopAssert)
    BY <1>3 DEF Parts, Masked
  <2>3. Holds(assert_mask', MaskOf(g.H), g.m, g.s, 1, StopMask)
    BY <1>1, <2>1, <2>2, HoldsPush
  <2>4. Holds(sta_vd', StaVdOf(g.S), g.k, g.B[g.s], 1, StopVd)
    BY <1>1, <2>1, <2>2, HoldsPush
  <2> QED
    BY <1>2, <1>4, <2>2, <2>3, <2>4 DEF Masked, SameSteps
<1>6. StaStops(h)'
  BY <1>1, <1>2, <1>3, <1>4 DEF StaStops, SameSteps, SameStaLines
<1>7. Bounds(h)' /\ Asked(h)' /\ Updated(h)' /\ Sampled(h)'
  BY <1>2, <1>4 DEF Parts, Bounds, Asked, Updated, Sampled, SameSteps, SameFront, SameOut
<1>8. /\ Numbering(h)' /\ Flags(h)' /\ StaLines(h)' /\ SiLines(h)' /\ SeenPrev(h)'
      /\ SeenCurr(h)' /\ SiStops(h)'
  BY <1>2, <1>4, KeepNumbering, KeepFlags, KeepStaLines, KeepSiLines, KeepSeen, KeepStops
     DEF Parts, SameFront, SameSiLines, SameOut
<1>9. Rest'
  BY <1>1, <1>2 DEF Rest
<1> QED
  BY <1>4, <1>5, <1>6, <1>7, <1>8, <1>9 DEF PairInv, Parts

\* assert_filter_woe has come to a mask.
LEMMA AssertFilterStep ==
  ASSUME Rest, NEW g \in GhostSet, Parts(g), AssertFilter
  PROVE  PairInv'
<1> DEFINE o == Head(assert_mask)
<1>1. /\ assert_mask # <<>> /\ assert_mask' = Tail(assert_mask)
      /\ ~o.last => assert_in # <<>>
      /\ assert_in' = IF o.last THEN assert_in ELSE Tail(assert_in)
      /\ filtered' = CASE o.last -> Append(filtered, [prev |-> Dead, last |-> TRUE])
                     [] ~o.last /\ o.data ->
                          Append(filtered, [prev |-> Head(assert_in), last |-> FALSE])
                     [] OTHER -> filtered
  BY DEF AssertFilter
<1> HIDE DEF o
<1>2. UNCHANGED <<asked, half, query, vl_run, vds, last_pkg, current, last, sta_stop, sync_id,
                  update, sta_vd, sta_line, sta_cmd, assert_out, sta_run, sta_out, si_vd,
                  si_line, si_cmd, si_run, si_out, seen, next_vertex, update_id, answer, pending>>
  BY DEF AssertFilter, loaderVars, staCmdVars, siVars, outVars
<1>3. /\ g.m \in Nat /\ g.s \in Nat /\ g.e \in Nat /\ g.k \in Nat /\ g.r \in Nat /\ g.d \in Nat
      /\ g.zm \in Bit /\ g.zf \in Bit /\ g.zv \in Bit /\ g.B \in [Nat -> Nat]
  BY GhostFields
<1>4. /\ Holds(assert_in, AssertOf(g.H), g.m, g.e, 0, None)
      /\ Holds(assert_mask, MaskOf(g.H), g.m, g.s, g.zm, StopMask)
      /\ Holds(sta_vd, StaVdOf(g.S), g.k, g.B[g.s], g.zv, StopVd)
      /\ Holds(filtered, FilteredOf(g.S), g.k, g.B[g.m], g.zf, StopAssert)
  BY DEF Parts, Masked
<1>5. /\ FirstId \in Nat /\ FirstId <= g.r /\ g.r <= g.m /\ g.m <= g.s /\ g.s <= g.d /\ g.d <= g.e
  BY Order
<1>6. CASE g.m < g.s
  <2>1. /\ o = MaskOf(g.H)[g.m]
        /\ Holds(assert_mask', MaskOf(g.H), g.m + 1, g.s, g.zm, StopMask)
    BY <1>1, <1>3, <1>4, <1>6, HoldsPop DEF o
  <2> DEFINE p == g.H[g.m]
  <2>2. o = [data |-> Sized(p), last |-> FALSE]
    BY <1>3, <2>1, Zenon DEF MaskOf
  <2>3. ~o.last /\ (o.data <=> Sized(p))
    <3>1. o.data = Sized(p)
      BY <2>2
    <3>2. ~o.last
      BY <2>2
    <3> QED
      BY <3>1, <3>2
  <2>4. /\ Head(assert_in) = AssertOf(g.H)[g.m]
        /\ Holds(assert_in', AssertOf(g.H), g.m + 1, g.e, 0, None)
    BY <1>1, <1>3, <1>4, <2>3, StreamPop
  <2>5. FirstId <= g.m /\ g.m < g.e /\ g.m + 1 \in Nat
    BY <1>3, <1>5, <1>6
  <2>6. /\ g.B[g.m] \in Nat /\ g.B[g.m + 1] \in Nat
        /\ Sized(p) => /\ g.B[g.m + 1] = g.B[g.m] + 1
                       /\ g.S[g.B[g.m]].step = p.vertex
        /\ ~Sized(p) => g.B[g.m + 1] = g.B[g.m]
    BY <1>3, <2>5, HistoryStep
  <2>7. g.zf = 0
    <3>1. g.zf = 1 => g.m = g.s
      BY DEF Parts, StaStops
    <3> QED
      BY <1>3, <1>6, <3>1 DEF Bit
  <2>8. Holds(filtered', FilteredOf(g.S), g.k, g.B[g.m + 1], g.zf, StopAssert)
    <3>1. CASE Sized(p)
      <4>1. FilteredOf(g.S)[g.B[g.m]] = [prev |-> p.vertex.prev, last |-> FALSE]
        BY <2>6, <3>1 DEF FilteredOf
      <4>2. AssertOf(g.H)[g.m] = p.vertex.prev
        BY <1>3 DEF AssertOf
      <4>3. filtered' = Append(filtered, [prev |-> Head(assert_in), last |-> FALSE])
        BY <1>1, <2>3, <3>1
      <4>4. filtered' = Append(filtered, FilteredOf(g.S)[g.B[g.m]])
        BY <2>4, <4>1, <4>2, <4>3
      <4>5. Holds(filtered', FilteredOf(g.S), g.k, g.B[g.m] + 1, 0, StopAssert)
        BY <1>3, <1>4, <2>6, <2>7, <4>4, HoldsPush
      <4> QED
        BY <2>6, <2>7, <3>1, <4>5
    <3>2. CASE ~Sized(p)
      <4>1. filtered' = filtered
        BY <1>1, <2>3, <3>2
      <4> QED
        BY <1>4, <2>6, <3>2, <4>1
    <3> QED
      BY <3>1, <3>2
  <2> HIDE DEF p
  <2>9. PICK h \in GhostSet :
          /\ h.m = g.m + 1 /\ h.s = g.s /\ h.k = g.k /\ h.zm = g.zm /\ h.zf = g.zf /\ h.zv = g.zv
          /\ SameSteps(g, h) /\ SameFront(g, h) /\ SameStaLines(g, h)
          /\ SameSi(g, h) /\ SameSiLines(g, h) /\ SameOut(g, h)
    <3> PICK x \in Nat : x = g.m + 1
      BY <1>3
    <3> DEFINE h == [g EXCEPT !.m = x]
    <3>1. h \in GhostSet
      BY ZenonT(60) DEF GhostSet
    <3>2. /\ h.m = x /\ h.s = g.s /\ h.k = g.k /\ h.zm = g.zm /\ h.zf = g.zf /\ h.zv = g.zv
          /\ SameSteps(g, h) /\ SameFront(g, h) /\ SameStaLines(g, h)
          /\ SameSi(g, h) /\ SameSiLines(g, h) /\ SameOut(g, h)
      BY DEF GhostSet, SameSteps, SameFront, SameStaLines, SameSi, SameSiLines, SameOut
    <3> QED
      BY <3>1, <3>2
  <2>10. Bounds(h)'
    <3>1. g.k <= g.B[g.m]
      BY DEF Parts, Bounds
    <3>2. g.k <= g.B[g.m + 1] /\ g.r <= g.m + 1 /\ g.m + 1 <= g.s
      BY <1>3, <1>5, <1>6, <2>6, <3>1
    <3> QED
      BY <1>2, <2>9, <3>2 DEF Parts, Bounds, SameSteps, SameFront, SameOut
  <2>11. Masked(h)'
    BY <1>2, <1>4, <2>1, <2>4, <2>8, <2>9 DEF Masked, SameSteps
  <2>12. StaStops(h)'
    <3>1. /\ g.zm + g.zf = g.zv
          /\ sta_stop => g.zv = 0 /\ g.zc = 0 /\ sta_run
          /\ g.zv = 1 => g.zc = 0 /\ sta_run
          /\ g.zc = 1 => sta_run
          /\ sta_stop \/ g.zv = 1 \/ g.zc = 1 \/ ~sta_run => ~vl_run /\ g.s = g.e
          /\ g.zc = 1 \/ ~sta_run => g.m = g.s /\ g.k = g.B[g.s]
          /\ ~sta_run => g.x2 = g.x3
      BY DEF Parts, StaStops
    <3>2. ~(g.m = g.s)
      BY <1>3, <1>6
    <3> QED
      BY <1>2, <2>7, <2>9, <3>1, <3>2 DEF StaStops, SameSteps, SameStaLines
  <2>13. Asked(h)' /\ Updated(h)' /\ Sampled(h)'
    BY <1>2, <2>9 DEF Parts, Asked, Updated, Sampled, SameSteps, SameFront, SameOut
  <2>14. /\ Numbering(h)' /\ Flags(h)' /\ StaLines(h)' /\ SiLines(h)' /\ SeenPrev(h)'
         /\ SeenCurr(h)' /\ SiStops(h)'
    BY <1>2, <2>9, KeepNumbering, KeepFlags, KeepStaLines, KeepSiLines, KeepSeen, KeepStops
       DEF Parts, SameFront, SameSiLines, SameOut
  <2>15. Rest'
    BY <1>2 DEF Rest
  <2> QED
    BY <2>9, <2>10, <2>11, <2>12, <2>13, <2>14, <2>15 DEF PairInv, Parts
<1>7. CASE g.m = g.s
  <2>1. /\ g.zm = 1 /\ o = StopMask
        /\ Holds(assert_mask', MaskOf(g.H), g.m, g.s, 0, StopMask)
    <3>1. Holds(assert_mask, MaskOf(g.H), g.m, g.m, g.zm, StopMask)
      BY <1>4, <1>7
    <3>2. g.zm = 1 /\ Head(assert_mask) = StopMask
      BY <1>1, <1>3, <3>1, StopPop
    <3>3. Holds(Tail(assert_mask), MaskOf(g.H), g.m, g.m, 0, StopMask)
      BY <1>1, <1>3, <3>1, StopPop
    <3> QED
      BY <1>1, <1>7, <3>2, <3>3 DEF o
  <2>2. g.zf = 0 /\ g.zv = 1
    <3>1. g.zm + g.zf = g.zv
      BY DEF Parts, StaStops
    <3> QED
      BY <1>3, <2>1, <3>1 DEF Bit
  <2>3. assert_in' = assert_in /\ filtered' = Append(filtered, StopAssert)
    <3>1. o.last
      BY <2>1 DEF StopMask
    <3> QED
      BY <1>1, <3>1 DEF StopAssert
  <2>4. Holds(filtered', FilteredOf(g.S), g.k, g.B[g.m], 1, StopAssert)
    BY <1>3, <1>4, <2>2, <2>3, HoldsPush
  <2>5. PICK h \in GhostSet :
          /\ h.m = g.m /\ h.s = g.s /\ h.k = g.k /\ h.zm = 0 /\ h.zf = 1 /\ h.zv = g.zv
          /\ SameSteps(g, h) /\ SameFront(g, h) /\ SameStaLines(g, h)
          /\ SameSi(g, h) /\ SameSiLines(g, h) /\ SameOut(g, h)
    <3> PICK z \in Bit : z = 0
      BY DEF Bit
    <3> PICK w \in Bit : w = 1
      BY DEF Bit
    <3> DEFINE h == [g EXCEPT !.zm = z, !.zf = w]
    <3>1. h \in GhostSet
      BY ZenonT(60) DEF GhostSet
    <3>2. /\ h.m = g.m /\ h.s = g.s /\ h.k = g.k /\ h.zm = z /\ h.zf = w /\ h.zv = g.zv
          /\ SameSteps(g, h) /\ SameFront(g, h) /\ SameStaLines(g, h)
          /\ SameSi(g, h) /\ SameSiLines(g, h) /\ SameOut(g, h)
      BY DEF GhostSet, SameSteps, SameFront, SameStaLines, SameSi, SameSiLines, SameOut
    <3> QED
      BY <3>1, <3>2
  <2>6. Masked(h)'
    BY <1>2, <1>4, <2>1, <2>3, <2>4, <2>5 DEF Masked, SameSteps
  <2>7. StaStops(h)'
    <3>1. /\ h.B = g.B /\ h.m = g.m /\ h.s = g.s /\ h.e = g.e /\ h.k = g.k /\ h.zm = 0
          /\ h.zf = 1 /\ h.zv = g.zv /\ h.zc = g.zc /\ h.x2 = g.x2 /\ h.x3 = g.x3
      BY <2>5 DEF SameSteps, SameStaLines
    <3>2. UNCHANGED <<sta_stop, sta_run, vl_run>>
      BY <1>2
    <3> QED
      BY <1>7, <2>2, <3>1, <3>2 DEF Parts, StaStops
  <2>8. Bounds(h)' /\ Asked(h)' /\ Updated(h)' /\ Sampled(h)'
    BY <1>2, <2>5, ZenonT(60) DEF Parts, Bounds, Asked, Updated, Sampled, SameSteps, SameFront, SameOut
  <2>9. /\ Numbering(h)' /\ Flags(h)' /\ StaLines(h)' /\ SiLines(h)' /\ SeenPrev(h)'
        /\ SeenCurr(h)' /\ SiStops(h)'
    BY <1>2, <2>5, KeepNumbering, KeepFlags, KeepStaLines, KeepSiLines, KeepSeen, KeepStops
       DEF Parts, SameFront, SameSiLines, SameOut
  <2>10. Rest'
    BY <1>2 DEF Rest
  <2> QED
    BY <2>5, <2>6, <2>7, <2>8, <2>9, <2>10 DEF PairInv, Parts
<1> QED
  BY <1>3, <1>5, <1>6, <1>7

\* A command generator comes to the next line.
LEMMA BehindType ==
  ASSUME NEW F \in [Nat -> PlaceSet], NEW x \in Nat, NEW end
  PROVE  Behind(F[x], end) \in PlaceSet
<1>1. F[x] \in PlaceSet
  OBVIOUS
<1> QED
  BY <1>1 DEF Behind, PlaceSet

\* The lines before stay.
LEMMA NextLine ==
  ASSUME NEW F \in [Nat -> PlaceSet], NEW x \in Nat, NEW p \in PlaceSet
  PROVE  \E G \in [Nat -> PlaceSet] :
            G[x + 1] = p /\ \A c \in Nat : c <= x => G[c] = F[c]
<1> DEFINE G == [F EXCEPT ![x + 1] = p]
<1>3. G \in [Nat -> PlaceSet] /\ G[x + 1] = p
  OBVIOUS
<1>4. \A c \in Nat : c <= x => G[c] = F[c]
  OBVIOUS
<1> HIDE DEF G
<1> QED
  BY <1>3, <1>4

\* The lines that were there before are seen as before.
LEMMA LinesStay ==
  ASSUME NEW S, NEW F, NEW G, NEW u \in Nat, \A c \in Nat : c <= u => G[c] = F[c],
         NEW s, NEW x \in Nat, NEW y \in Nat, y <= u + 1, NEW z \in Bit, NEW stop
  PROVE  /\ Holds(s, StaCmdOf(S, F), x, y, z, stop) => Holds(s, StaCmdOf(S, G), x, y, z, stop)
         /\ Holds(s, StaOutOf(S, F), x, y, z, stop) => Holds(s, StaOutOf(S, G), x, y, z, stop)
         /\ Holds(s, AssertsOf(S, F), x, y, z, stop) => Holds(s, AssertsOf(S, G), x, y, z, stop)
         /\ Holds(s, SiCmdOf(S, F), x, y, z, stop) => Holds(s, SiCmdOf(S, G), x, y, z, stop)
         /\ Holds(s, SiOutOf(S, F), x, y, z, stop) => Holds(s, SiOutOf(S, G), x, y, z, stop)
<1>1. ASSUME NEW c \in x .. y - 1
      PROVE  /\ StaCmdOf(S, G)[c] = StaCmdOf(S, F)[c] /\ StaOutOf(S, G)[c] = StaOutOf(S, F)[c]
             /\ AssertsOf(S, G)[c] = AssertsOf(S, F)[c] /\ SiCmdOf(S, G)[c] = SiCmdOf(S, F)[c]
             /\ SiOutOf(S, G)[c] = SiOutOf(S, F)[c]
  <2>1. c \in Nat /\ c <= u
    OBVIOUS
  <2>2. G[c] = F[c]
    BY <2>1
  <2> QED
    BY <2>1, <2>2 DEF StaCmdOf, StaOutOf, AssertsOf, SiCmdOf, SiOutOf
<1>2. Holds(s, StaCmdOf(S, F), x, y, z, stop) => Holds(s, StaCmdOf(S, G), x, y, z, stop)
  BY <1>1, HoldsSame
<1>3. Holds(s, StaOutOf(S, F), x, y, z, stop) => Holds(s, StaOutOf(S, G), x, y, z, stop)
  BY <1>1, HoldsSame
<1>4. Holds(s, AssertsOf(S, F), x, y, z, stop) => Holds(s, AssertsOf(S, G), x, y, z, stop)
  BY <1>1, HoldsSame
<1>5. Holds(s, SiCmdOf(S, F), x, y, z, stop) => Holds(s, SiCmdOf(S, G), x, y, z, stop)
  BY <1>1, HoldsSame
<1>6. Holds(s, SiOutOf(S, F), x, y, z, stop) => Holds(s, SiOutOf(S, G), x, y, z, stop)
  BY <1>1, HoldsSame
<1> QED
  BY <1>2, <1>3, <1>4, <1>5, <1>6

\* The places of sta_cmd_generator and of the lines it has asked for.
LEMMA StaPlaces ==
  ASSUME NEW g \in GhostSet, Parts(g)
  PROVE  /\ sta_line \in Nat /\ g.F[g.x3].l = g.k /\ g.F[g.x3].n = sta_line
         /\ g.x1 <= g.x2 /\ g.x2 <= g.x3
         /\ g.k <= g.B[g.m] /\ g.k <= g.B[g.s] /\ g.B[g.m] \in Nat /\ g.B[g.s] \in Nat
         /\ g.B[g.m] <= g.B[g.s] /\ g.B[g.s] <= g.B[g.e] /\ g.B[g.e] \in Nat
<1>1. /\ g.x1 \in Nat /\ g.x2 \in Nat /\ g.x3 \in Nat /\ g.k \in Nat /\ g.m \in Nat /\ g.s \in Nat
      /\ g.F \in [Nat -> PlaceSet] /\ g.e \in Nat /\ g.r \in Nat /\ g.d \in Nat
  BY GhostFields
<1>2. g.F[g.x3] \in PlaceSet /\ g.F[g.x3] = [l |-> g.k, n |-> sta_line]
  BY <1>1 DEF Parts, StaLines
<1>3. sta_line \in Nat /\ g.F[g.x3].l = g.k /\ g.F[g.x3].n = sta_line
  BY <1>2 DEF PlaceSet
<1>4. g.x1 <= g.x2 /\ g.x2 <= g.x3
  BY DEF Parts, StaLines, Holds
<1>5. /\ FirstId <= g.r /\ g.r <= g.m /\ g.m <= g.s /\ FirstId \in Nat
      /\ g.s <= g.d /\ g.d <= g.e
  BY Order
<1>6. FirstId <= g.m /\ g.m <= g.e /\ FirstId <= g.s /\ g.s <= g.e
  BY <1>1, <1>5
<1>7. g.B[g.m] \in Nat /\ g.B[g.s] \in Nat /\ g.B[g.m] <= g.B[g.s]
  BY <1>1, <1>5, <1>6, ListsBefore
<1>8. g.B[g.e] \in Nat /\ g.B[g.s] <= g.B[g.e]
  BY <1>1, <1>6, ListsBefore
<1>9. g.k <= g.B[g.m]
  BY DEF Parts, Bounds
<1>10. g.k <= g.B[g.s]
  BY <1>1, <1>7, <1>9
<1> QED
  BY <1>3, <1>4, <1>7, <1>8, <1>9, <1>10

\* sta_cmd_generator asks for a line.
LEMMA StaCmdGeneratorStep ==
  ASSUME Rest, NEW g \in GhostSet, Parts(g), StaCmdGenerator
  PROVE  PairInv'
<1> DEFINE c == BurstCmd(Head(sta_vd), sta_line)
           o == Head(filtered)
<1>1. /\ sta_vd # <<>> /\ filtered # <<>>
      /\ sta_cmd' = Append(sta_cmd, c)
      /\ assert_out' = IF SendsAssert(o) THEN Append(assert_out, o.prev) ELSE assert_out
      /\ c.end_of_burst =>
            sta_vd' = Tail(sta_vd) /\ filtered' = Tail(filtered) /\ sta_line' = 0
      /\ ~c.end_of_burst =>
            sta_line' = sta_line + 1 /\ sta_vd' = sta_vd /\ filtered' = filtered
  BY DEF StaCmdGenerator
<1> HIDE DEF c, o
<1>2. UNCHANGED <<asked, half, query, assert_in, vl_run, vds, last_pkg, current, last, sta_stop,
                  sync_id, update, assert_mask, sta_run, sta_out, si_vd, si_line, si_cmd, si_run,
                  si_out, seen, next_vertex, update_id, answer, pending>>
  BY DEF StaCmdGenerator, dupVars, loaderVars, siVars, outVars
<1>3. /\ g.k \in Nat /\ g.m \in Nat /\ g.s \in Nat /\ g.zm \in Bit /\ g.zf \in Bit /\ g.zv \in Bit
      /\ g.zc \in Bit /\ g.x1 \in Nat /\ g.x2 \in Nat /\ g.x3 \in Nat /\ g.F \in [Nat -> PlaceSet]
      /\ g.B \in [Nat -> Nat] /\ g.S \in [Nat -> ListSet]
  BY GhostFields
<1>4. /\ Holds(sta_vd, StaVdOf(g.S), g.k, g.B[g.s], g.zv, StopVd)
      /\ Holds(filtered, FilteredOf(g.S), g.k, g.B[g.m], g.zf, StopAssert)
      /\ Holds(assert_in, AssertOf(g.H), g.m, g.e, 0, None)
      /\ Holds(assert_mask, MaskOf(g.H), g.m, g.s, g.zm, StopMask)
  BY DEF Parts, Masked
<1>5. /\ sta_line \in Nat /\ g.F[g.x3].l = g.k /\ g.F[g.x3].n = sta_line
      /\ g.x1 <= g.x2 /\ g.x2 <= g.x3
      /\ g.k <= g.B[g.m] /\ g.k <= g.B[g.s] /\ g.B[g.m] \in Nat /\ g.B[g.s] \in Nat
      /\ g.B[g.m] <= g.B[g.s] /\ g.B[g.s] <= g.B[g.e] /\ g.B[g.e] \in Nat
  BY StaPlaces
<1>6. /\ g.F[g.x1].l = IF seen.curr_end THEN g.t + 1 ELSE g.t
      /\ \A x \in g.x1 .. g.x3 - 1 :
           /\ g.F[x + 1] = Behind(g.F[x], StaCmd(g.S[g.F[x].l], g.F[x].n).end_of_burst)
           /\ g.F[x].l < g.B[g.s]
      /\ sta_line # 0 => g.k < g.B[g.s]
      /\ Holds(sta_out, StaOutOf(g.S, g.F), g.x1, g.x2, 0, None)
      /\ Holds(sta_cmd, StaCmdOf(g.S, g.F), g.x2, g.x3, g.zc, StopCmd)
      /\ Holds(assert_out, AssertsOf(g.S, g.F), g.x1, g.x3, 0, None)
  BY DEF Parts, StaLines
<1>7. /\ g.zm + g.zf = g.zv
      /\ sta_stop => g.zv = 0 /\ g.zc = 0 /\ sta_run
      /\ g.zv = 1 => g.zc = 0 /\ sta_run
      /\ g.zc = 1 => sta_run
      /\ g.zf = 1 => g.m = g.s
      /\ sta_stop \/ g.zv = 1 \/ g.zc = 1 \/ ~sta_run => ~vl_run /\ g.s = g.e
      /\ g.zc = 1 \/ ~sta_run => g.m = g.s /\ g.k = g.B[g.s]
      /\ ~sta_run => g.x2 = g.x3
  BY DEF Parts, StaStops
<1>8. CASE g.k < g.B[g.s]
  <2>1. g.zc = 0 /\ sta_run
    BY <1>3, <1>5, <1>7, <1>8 DEF Bit
  <2>2. g.k < g.B[g.m]
    <3>1. ASSUME g.k = g.B[g.m] PROVE FALSE
      <4>1. Holds(filtered, FilteredOf(g.S), g.k, g.k, g.zf, StopAssert)
        BY <1>4, <3>1
      <4>2. g.zf = 1
        BY <1>1, <1>3, <4>1, StopPop
      <4> QED
        BY <1>3, <1>7, <1>8, <3>1, <4>2
    <3> QED
      BY <1>3, <1>5, <3>1
  <2>3. /\ Head(sta_vd) = StaVdOf(g.S)[g.k]
        /\ Holds(Tail(sta_vd), StaVdOf(g.S), g.k + 1, g.B[g.s], g.zv, StopVd)
    BY <1>1, <1>3, <1>4, <1>5, <1>8, HoldsPop
  <2>4. /\ o = FilteredOf(g.S)[g.k]
        /\ Holds(Tail(filtered), FilteredOf(g.S), g.k + 1, g.B[g.m], g.zf, StopAssert)
    BY <1>1, <1>3, <1>4, <1>5, <2>2, HoldsPop DEF o
  <2>5. c = StaCmd(g.S[g.k], sta_line)
    BY <1>3, <2>3 DEF c, StaVdOf, StaCmd
  <2>6. assert_out' = Append(assert_out, g.S[g.k].step.prev)
    <3>1. o = [prev |-> g.S[g.k].step.prev, last |-> FALSE]
      BY <1>3, <2>4 DEF FilteredOf
    <3>2. o.prev = g.S[g.k].step.prev /\ SendsAssert(o)
      BY <3>1 DEF SendsAssert
    <3> QED
      BY <1>1, <3>2
  <2>7. DescOf(g.S[g.k].step.curr) \in DescSet
    BY <1>3, <1>5, <1>8, HistoryList
  <2>8. PICK end \in BOOLEAN : end = c.end_of_burst
    <3>1. StaVd(g.S[g.k]).d \in DescSet
      BY <2>7 DEF StaVd
    <3>2. BurstCmd(StaVd(g.S[g.k]), sta_line).end_of_burst \in BOOLEAN
      BY <1>5, <3>1, LineOfList
    <3> QED
      BY <2>5, <3>2 DEF StaCmd
  <2>9. PICK p \in PlaceSet : p = Behind(g.F[g.x3], end)
    BY <1>3, BehindType
  <2>10. PICK G \in [Nat -> PlaceSet] :
          G[g.x3 + 1] = p /\ \A x \in Nat : x <= g.x3 => G[x] = g.F[x]
    <3> DEFINE f == g.F
               u == g.x3
    <3>1. f \in [Nat -> PlaceSet] /\ u \in Nat
      BY <1>3
    <3> HIDE DEF f, u
    <3>2. \E G \in [Nat -> PlaceSet] : G[u + 1] = p /\ \A x \in Nat : x <= u => G[x] = f[x]
      BY <3>1, NextLine
    <3> QED
      BY <3>2 DEF f, u
  <2>11. p.l \in Nat /\ p = [l |-> IF end THEN g.k + 1 ELSE g.k, n |-> IF end THEN 0 ELSE sta_line + 1]
    <3>1. p.l \in Nat
      BY DEF PlaceSet
    <3> QED
      BY <1>5, <2>9, <3>1 DEF Behind
  <2>12. PICK h \in GhostSet :
          /\ h.m = g.m /\ h.s = g.s /\ h.k = p.l /\ h.zm = g.zm /\ h.zf = g.zf /\ h.zv = g.zv
          /\ h.F = G /\ h.x1 = g.x1 /\ h.x2 = g.x2 /\ h.x3 = g.x3 + 1 /\ h.zc = g.zc
          /\ SameSteps(g, h) /\ SameFront(g, h)
          /\ SameSi(g, h) /\ SameSiLines(g, h) /\ SameOut(g, h)
    <3> PICK x \in Nat : x = g.x3 + 1
      BY <1>3
    <3> PICK l \in Nat : l = p.l
      BY <2>11
    <3> DEFINE h == [g EXCEPT !.k = l, !.F = G, !.x3 = x]
    <3>1. h \in GhostSet
      BY ZenonT(60) DEF GhostSet
    <3>2. /\ h.m = g.m /\ h.s = g.s /\ h.k = l /\ h.zm = g.zm /\ h.zf = g.zf /\ h.zv = g.zv
          /\ h.F = G /\ h.x1 = g.x1 /\ h.x2 = g.x2 /\ h.x3 = x /\ h.zc = g.zc
          /\ SameSteps(g, h) /\ SameFront(g, h)
          /\ SameSi(g, h) /\ SameSiLines(g, h) /\ SameOut(g, h)
      BY DEF GhostSet, SameSteps, SameFront, SameSi, SameSiLines, SameOut
    <3> QED
      BY <3>1, <3>2
  <2>13. /\ h.k = IF end THEN g.k + 1 ELSE g.k
         /\ sta_line' = IF end THEN 0 ELSE sta_line + 1
         /\ h.k <= g.B[g.m] /\ (sta_line' # 0 => h.k < g.B[g.s])
         /\ Holds(sta_vd', StaVdOf(g.S), h.k, g.B[g.s], g.zv, StopVd)
         /\ Holds(filtered', FilteredOf(g.S), h.k, g.B[g.m], g.zf, StopAssert)
    <3>1. CASE end
      <4>1. h.k = g.k + 1 /\ sta_line' = 0 /\ sta_vd' = Tail(sta_vd) /\ filtered' = Tail(filtered)
        BY <1>1, <2>8, <2>11, <2>12, <3>1
      <4>2. g.k + 1 <= g.B[g.m]
        BY <1>3, <1>5, <2>2
      <4> QED
        BY <2>3, <2>4, <3>1, <4>1, <4>2
    <3>2. CASE ~end
      <4>1. h.k = g.k /\ sta_line' = sta_line + 1 /\ sta_vd' = sta_vd /\ filtered' = filtered
        BY <1>1, <2>8, <2>11, <2>12, <3>2
      <4> QED
        BY <1>4, <1>5, <1>8, <3>2, <4>1
    <3> QED
      BY <3>1, <3>2
  <2>14. Bounds(h)'
    BY <1>2, <2>12, <2>13 DEF Parts, Bounds, SameSteps, SameFront, SameOut
  <2>15. Masked(h)'
    BY <1>2, <1>4, <2>12, <2>13 DEF Masked, SameSteps
  <2>16. StaLines(h)'
    <3>1. G[g.x3 + 1] = [l |-> h.k, n |-> sta_line']
      BY <2>10, <2>11, <2>13
    <3>2. ASSUME NEW x \in g.x1 .. (g.x3 + 1) - 1
          PROVE  /\ G[x + 1] = Behind(G[x], StaCmd(g.S[G[x].l], G[x].n).end_of_burst)
                 /\ G[x].l < g.B[g.s]
      <4>1. CASE x = g.x3
        <5>1. G[x] = g.F[g.x3]
          BY <1>3, <2>10, <4>1
        <5>2. StaCmd(g.S[G[x].l], G[x].n).end_of_burst = end
          BY <1>5, <2>5, <2>8, <5>1
        <5> QED
          BY <1>5, <1>8, <2>9, <2>10, <4>1, <5>1, <5>2
      <4>2. CASE x < g.x3
        <5>1. x \in Nat /\ x + 1 \in Nat /\ x + 1 <= g.x3 /\ x <= g.x3 /\ x \in g.x1 .. g.x3 - 1
          BY <1>3, <4>2
        <5>2. G[x] = g.F[x] /\ G[x + 1] = g.F[x + 1]
          BY <2>10, <5>1
        <5> QED
          BY <1>6, <5>1, <5>2
      <4> QED
        BY <1>3, <4>1, <4>2
    <3>3. G[g.x1] = g.F[g.x1]
      BY <1>3, <1>5, <2>10
    <3>4. Holds(sta_out, StaOutOf(g.S, G), g.x1, g.x2, 0, None)
      <4>1. g.x2 <= g.x3 + 1 /\ 0 \in Bit
        BY <1>3, <1>5 DEF Bit
      <4> QED
        BY <1>3, <1>6, <2>10, <4>1, LinesStay
    <3>5. Holds(sta_cmd', StaCmdOf(g.S, G), g.x2, g.x3 + 1, 0, StopCmd)
      <4>1. StaCmdOf(g.S, g.F)[g.x3] = c
        BY <1>3, <1>5, <2>5 DEF StaCmdOf
      <4> DEFINE y == g.x3 + 1
      <4>2. Holds(sta_cmd', StaCmdOf(g.S, g.F), g.x2, y, 0, StopCmd)
        BY <1>1, <1>3, <1>6, <2>1, <4>1, HoldsPush
      <4>3. y \in Nat /\ y <= g.x3 + 1 /\ 0 \in Bit
        BY <1>3 DEF Bit
      <4> HIDE DEF y
      <4>4. Holds(sta_cmd', StaCmdOf(g.S, G), g.x2, y, 0, StopCmd)
        BY <1>3, <2>10, <4>2, <4>3, LinesStay
      <4> QED
        BY <4>4 DEF y
    <3>6. Holds(assert_out', AssertsOf(g.S, G), g.x1, g.x3 + 1, 0, None)
      <4>1. AssertsOf(g.S, g.F)[g.x3] = g.S[g.k].step.prev
        BY <1>3, <1>5 DEF AssertsOf
      <4> DEFINE y == g.x3 + 1
      <4>2. Holds(assert_out', AssertsOf(g.S, g.F), g.x1, y, 0, None)
        BY <1>3, <1>6, <2>6, <4>1, HoldsPush
      <4>3. y \in Nat /\ y <= g.x3 + 1 /\ 0 \in Bit
        BY <1>3 DEF Bit
      <4> HIDE DEF y
      <4>4. Holds(assert_out', AssertsOf(g.S, G), g.x1, y, 0, None)
        BY <1>3, <2>10, <4>2, <4>3, LinesStay
      <4> QED
        BY <4>4 DEF y
    <3> QED
      <4>1. /\ h.S = g.S /\ h.B = g.B /\ h.s = g.s /\ h.t = g.t
            /\ h.F = G /\ h.x1 = g.x1 /\ h.x2 = g.x2 /\ h.x3 = g.x3 + 1 /\ h.zc = 0
        BY <2>1, <2>12 DEF SameSteps, SameOut
      <4>2. UNCHANGED <<sta_out, seen>>
        BY <1>2
      <4>3. sta_line' # 0 => h.k < g.B[g.s]
        BY <2>13
      <4>4. G[g.x1].l = IF seen.curr_end THEN g.t + 1 ELSE g.t
        BY <1>6, <3>3
      <4> QED
        BY <3>1, <3>2, <3>4, <3>5, <3>6, <4>1, <4>2, <4>3, <4>4 DEF StaLines
  <2>17. StaStops(h)'
    BY <1>2, <1>7, <2>1, <2>12 DEF StaStops, SameSteps
  <2>18. Asked(h)' /\ Updated(h)' /\ Sampled(h)'
    BY <1>2, <2>12 DEF Parts, Asked, Updated, Sampled, SameSteps, SameFront, SameOut
  <2>19. /\ Numbering(h)' /\ Flags(h)' /\ SiLines(h)' /\ SeenPrev(h)' /\ SeenCurr(h)' /\ SiStops(h)'
    BY <1>2, <2>12, KeepNumbering, KeepFlags, KeepSiLines, KeepSeen, KeepStops
       DEF Parts, SameFront, SameSiLines, SameOut
  <2>20. Rest'
    BY <1>2 DEF Rest
  <2> QED
    BY <2>12, <2>14, <2>15, <2>16, <2>17, <2>18, <2>19, <2>20 DEF PairInv, Parts
<1>9. CASE g.k = g.B[g.s]
  <2>1. g.k = g.B[g.m] /\ sta_line = 0
    <3>1. g.k <= g.B[g.m] /\ g.B[g.m] <= g.B[g.s] /\ g.B[g.m] \in Nat /\ g.B[g.s] \in Nat
      BY StaPlaces
    <3>2. g.k = g.B[g.m]
      BY <1>9, <3>1
    <3>3. sta_line # 0 => g.k < g.B[g.s]
      BY <1>6, Zenon
    <3>4. ~(g.k < g.B[g.s])
      BY <1>9, <3>1
    <3> QED
      BY <3>2, <3>3, <3>4
  <2>2. /\ Holds(sta_vd, StaVdOf(g.S), g.k, g.k, g.zv, StopVd)
        /\ Holds(filtered, FilteredOf(g.S), g.k, g.k, g.zf, StopAssert)
    BY <1>4, <1>9, <2>1
  <2>3. g.zv = 1 /\ Head(sta_vd) = StopVd /\ Holds(Tail(sta_vd), StaVdOf(g.S), g.k, g.k, 0, StopVd)
    BY <1>1, <1>3, <2>2, StopPop
  <2>4. g.zf = 1 /\ o = StopAssert /\ Holds(Tail(filtered), FilteredOf(g.S), g.k, g.k, 0, StopAssert)
    BY <1>1, <1>3, <2>2, StopPop DEF o
  <2>5. g.zm = 0 /\ g.zc = 0 /\ sta_run /\ g.m = g.s /\ ~vl_run /\ g.s = g.e /\ ~sta_stop
    BY <1>3, <1>7, <2>3, <2>4 DEF Bit
  <2>6. c = StopCmd /\ c.end_of_burst
    <3>1. c = StopCmd
      BY <2>1, <2>3 DEF c, StopCmd
    <3> QED
      BY <3>1, StopCommand
  <2>7. assert_out' = assert_out
    <3>1. ~SendsAssert(o)
      BY <2>4 DEF SendsAssert, StopAssert
    <3> QED
      BY <1>1, <3>1
  <2>8. Holds(sta_cmd', StaCmdOf(g.S, g.F), g.x2, g.x3, 1, StopCmd)
    BY <1>1, <1>3, <1>6, <2>5, <2>6, HoldsPush
  <2>9. PICK h \in GhostSet :
          /\ h.m = g.m /\ h.s = g.s /\ h.k = g.k /\ h.zm = g.zm /\ h.zf = 0 /\ h.zv = 0
          /\ h.F = g.F /\ h.x1 = g.x1 /\ h.x2 = g.x2 /\ h.x3 = g.x3 /\ h.zc = 1
          /\ SameSteps(g, h) /\ SameFront(g, h)
          /\ SameSi(g, h) /\ SameSiLines(g, h) /\ SameOut(g, h)
    <3> PICK z \in Bit : z = 0
      BY DEF Bit
    <3> PICK w \in Bit : w = 1
      BY DEF Bit
    <3> DEFINE h == [g EXCEPT !.zf = z, !.zv = z, !.zc = w]
    <3>1. h \in GhostSet
      BY ZenonT(60) DEF GhostSet
    <3>2. /\ h.m = g.m /\ h.s = g.s /\ h.k = g.k /\ h.zm = g.zm /\ h.zf = z /\ h.zv = z
          /\ h.F = g.F /\ h.x1 = g.x1 /\ h.x2 = g.x2 /\ h.x3 = g.x3 /\ h.zc = w
          /\ SameSteps(g, h) /\ SameFront(g, h)
          /\ SameSi(g, h) /\ SameSiLines(g, h) /\ SameOut(g, h)
      BY DEF GhostSet, SameSteps, SameFront, SameSi, SameSiLines, SameOut
    <3> QED
      BY <3>1, <3>2
  <2>10. Masked(h)'
    BY <1>1, <1>2, <1>4, <1>9, <2>1, <2>3, <2>4, <2>6, <2>9 DEF Masked, SameSteps
  <2>11. StaLines(h)'
    <3>1. /\ h.S = g.S /\ h.B = g.B /\ h.s = g.s /\ h.k = g.k /\ h.t = g.t
          /\ h.F = g.F /\ h.x1 = g.x1 /\ h.x2 = g.x2 /\ h.x3 = g.x3 /\ h.zc = 1
      BY <2>9 DEF SameSteps, SameOut
    <3>2. sta_line' = sta_line
      BY <1>1, <2>1, <2>6
    <3>3. UNCHANGED <<sta_out, seen>>
      BY <1>2
    <3> QED
      <4>1. /\ Holds(sta_out', StaOutOf(g.S, g.F), g.x1, g.x2, 0, None)
            /\ Holds(assert_out', AssertsOf(g.S, g.F), g.x1, g.x3, 0, None)
        BY <1>6, <2>7, <3>3
      <4>2. /\ g.F[g.x3] = [l |-> g.k, n |-> sta_line']
            /\ sta_line' # 0 => g.k < g.B[g.s]
            /\ g.F[g.x1].l = IF seen'.curr_end THEN g.t + 1 ELSE g.t
        <5>1. g.F[g.x3] = [l |-> g.k, n |-> sta_line]
          BY DEF Parts, StaLines
        <5>2. sta_line # 0 => g.k < g.B[g.s]
          BY <1>6, Zenon
        <5>3. g.F[g.x1].l = IF seen.curr_end THEN g.t + 1 ELSE g.t
          BY <1>6
        <5> QED
          BY <3>2, <3>3, <5>1, <5>2, <5>3
      <4>3. \A x \in g.x1 .. g.x3 - 1 :
              /\ g.F[x + 1] = Behind(g.F[x], StaCmd(g.S[g.F[x].l], g.F[x].n).end_of_burst)
              /\ g.F[x].l < g.B[g.s]
        BY <1>6
      <4> QED
        BY <2>8, <3>1, <4>1, <4>2, <4>3 DEF StaLines
  <2>12. StaStops(h)'
    BY <1>2, <1>9, <2>5, <2>9, SMTT(30) DEF StaStops, SameSteps
  <2>13. Bounds(h)' /\ Asked(h)' /\ Updated(h)' /\ Sampled(h)'
    BY <1>2, <2>9 DEF Parts, Bounds, Asked, Updated, Sampled, SameSteps, SameFront, SameOut
  <2>14. /\ Numbering(h)' /\ Flags(h)' /\ SiLines(h)' /\ SeenPrev(h)' /\ SeenCurr(h)' /\ SiStops(h)'
    BY <1>2, <2>9, KeepNumbering, KeepFlags, KeepSiLines, KeepSeen, KeepStops
       DEF Parts, SameFront, SameSiLines, SameOut
  <2>15. Rest'
    BY <1>2 DEF Rest
  <2> QED
    BY <2>9, <2>10, <2>11, <2>12, <2>13, <2>14, <2>15 DEF PairInv, Parts
<1> QED
  BY <1>3, <1>5, <1>8, <1>9

\* The places of si_cmd_generator and of the lines it has asked for.
LEMMA SiPlaces ==
  ASSUME NEW g \in GhostSet, Parts(g)
  PROVE  /\ si_line \in Nat /\ g.U[g.y3].l = g.j /\ g.U[g.y3].n = si_line
         /\ g.y1 <= g.y2 /\ g.y2 <= g.y3 /\ g.j <= g.i /\ g.i <= g.B[g.d]
         /\ g.B[g.d] \in Nat /\ g.B[g.d] <= g.B[g.e] /\ g.B[g.e] \in Nat
<1>1. /\ g.y1 \in Nat /\ g.y2 \in Nat /\ g.y3 \in Nat /\ g.j \in Nat /\ g.i \in Nat
      /\ g.b \in Nat /\ g.s \in Nat /\ g.d \in Nat /\ g.e \in Nat /\ g.r \in Nat
      /\ g.U \in [Nat -> PlaceSet]
  BY GhostFields
<1>2. g.U[g.y3] \in PlaceSet /\ g.U[g.y3] = [l |-> g.j, n |-> si_line]
  BY <1>1 DEF Parts, SiLines
<1>3. si_line \in Nat /\ g.U[g.y3].l = g.j /\ g.U[g.y3].n = si_line
  BY <1>2 DEF PlaceSet
<1>4. g.y1 <= g.y2 /\ g.y2 <= g.y3 /\ g.j <= g.i /\ g.i <= g.B[g.d]
  BY DEF Parts, SiLines, Holds
<1>5. /\ FirstId <= g.r /\ g.r <= g.b /\ g.b <= g.s /\ FirstId \in Nat
      /\ g.s <= g.d /\ g.d <= g.e
  BY Order
<1>6. FirstId <= g.d
  BY <1>1, <1>5
<1>7. g.B[g.d] \in Nat /\ g.B[g.e] \in Nat /\ g.B[g.d] <= g.B[g.e]
  BY <1>1, <1>5, <1>6, ListsBefore
<1> QED
  BY <1>3, <1>4, <1>7

\* The last packet of a run has the last flag.
LEMMA LastPacket ==
  ASSUME NEW g \in GhostSet, Parts(g), ~vl_run
  PROVE  VdsOf(g.H)[2 * g.e - 1].last
<1>1. g.r < g.e /\ g.H[g.e - 1].last /\ g.r \in Nat /\ g.e \in Nat
  BY RunEnd, GhostFields
<1> PICK a \in Nat : a = g.e - 1
  BY <1>1
<1>2. 2 * g.e - 1 = 2 * a + 1
  BY <1>1
<1>3. VdsOf(g.H)[2 * a + 1] = [d |-> DescOf(g.H[a].vertex.prev), last |-> g.H[a].last]
  BY QueryPair
<1>4. VdsOf(g.H)[2 * a + 1].last = g.H[a].last
  BY <1>3
<1> QED
  BY <1>1, <1>2, <1>4

\* si_vd_scheduler passes a descriptor on.
LEMMA SiScheduleStep ==
  ASSUME Rest, NEW g \in GhostSet, Parts(g), SiSchedule
  PROVE  PairInv'
<1>1. /\ last # <<>> /\ last' = Tail(last)
      /\ si_vd' = Append(si_vd, SiRequest(Head(last)))
  BY DEF SiSchedule
<1>2. UNCHANGED <<asked, half, query, assert_in, vl_run, vds, last_pkg, current, sta_stop,
                  sync_id, update, assert_mask, sta_vd, filtered, sta_line, sta_cmd, assert_out,
                  sta_run, sta_out, si_line, si_cmd, si_run, si_out, seen, next_vertex,
                  update_id, answer, pending>>
  BY DEF SiSchedule, dupVars, staVars, staCmdVars, outVars
<1>3. g.i \in Nat /\ g.j \in Nat /\ g.yl \in Bit /\ g.yv \in Bit /\ g.d \in Nat /\ g.e \in Nat
  BY GhostFields
<1> DEFINE stop == VdsOf(g.H)[2 * g.e - 1]
<1>4. /\ Holds(last, LastOf(g.S), g.i, g.B[g.d], g.yl, stop)
      /\ Holds(si_vd, SiVdOf(g.S), g.j, g.i, g.yv, StopVd)
  BY DEF Parts, SiLines
<1>5. g.j <= g.i /\ g.i <= g.B[g.d] /\ g.B[g.d] \in Nat
  BY SiPlaces
<1>6. /\ g.yl = 1 => g.yv = 0 /\ g.yc = 0 /\ si_run
      /\ g.yv = 1 => g.yc = 0 /\ si_run
      /\ g.yc = 1 => si_run
      /\ g.yl = 1 \/ g.yv = 1 \/ g.yc = 1 \/ ~si_run => ~vl_run /\ g.d = g.e
      /\ g.yv = 1 \/ g.yc = 1 \/ ~si_run => g.i = g.B[g.d]
      /\ g.yc = 1 \/ ~si_run => g.j = g.i
      /\ ~si_run => g.y2 = g.y3
  BY DEF Parts, SiStops
<1>7. stop.last \/ vl_run
  BY LastPacket
<1> HIDE DEF stop
<1>8. CASE g.i < g.B[g.d]
  <2>1. /\ Head(last) = LastOf(g.S)[g.i]
        /\ Holds(Tail(last), LastOf(g.S), g.i + 1, g.B[g.d], g.yl, stop)
    <3>1. last # <<>> /\ Holds(last, LastOf(g.S), g.i, g.B[g.d], g.yl, stop)
      BY <1>1, <1>4
    <3>2. g.i \in Nat /\ g.B[g.d] \in Nat /\ g.yl \in Bit
      BY <1>3, <1>5
    <3> QED
      BY <1>8, <3>1, <3>2, HoldsPop
  <2>2. g.yv = 0 /\ ~(g.yc = 1) /\ si_run
    BY <1>3, <1>5, <1>6, <1>8 DEF Bit
  <2>3. SiRequest(Head(last)) = SiVdOf(g.S)[g.i]
    <3>1. Head(last) = [d |-> DescOf(g.S[g.i].step.prev), last |-> FALSE]
      BY <1>3, <2>1 DEF LastOf
    <3>2. ~Head(last).last /\ Head(last).d = DescOf(g.S[g.i].step.prev)
      BY <3>1
    <3>3. SiVdOf(g.S)[g.i] = [d |-> DescOf(g.S[g.i].step.prev), id |-> 0, last |-> FALSE]
      BY <1>3, Zenon DEF SiVdOf, SiVd
    <3> QED
      BY <3>2, <3>3 DEF SiRequest
  <2>4. Holds(si_vd', SiVdOf(g.S), g.j, g.i + 1, 0, StopVd)
    BY <1>1, <1>3, <1>4, <2>2, <2>3, HoldsPush
  <2>5. PICK h \in GhostSet :
          /\ h.i = g.i + 1 /\ h.j = g.j /\ h.yl = g.yl /\ h.yv = g.yv
          /\ SameSteps(g, h) /\ SameFront(g, h) /\ SameSta(g, h) /\ SameStaLines(g, h)
          /\ SameSiLines(g, h) /\ SameOut(g, h)
    <3> PICK x \in Nat : x = g.i + 1
      BY <1>3
    <3> DEFINE h == [g EXCEPT !.i = x]
    <3>1. h \in GhostSet
      BY ZenonT(60) DEF GhostSet
    <3>2. /\ h.i = x /\ h.j = g.j /\ h.yl = g.yl /\ h.yv = g.yv
          /\ SameSteps(g, h) /\ SameFront(g, h) /\ SameSta(g, h) /\ SameStaLines(g, h)
          /\ SameSiLines(g, h) /\ SameOut(g, h)
      BY DEF GhostSet, SameSteps, SameFront, SameSta, SameStaLines, SameSiLines, SameOut
    <3> QED
      BY <3>1, <3>2
  <2>6. SiLines(h)'
    <3>1. si_line # 0 => g.j < g.i + 1
      BY <1>3, <1>5
    <3>2. Holds(last', LastOf(g.S), g.i + 1, g.B[g.d], g.yl, stop)
      BY <1>1, <2>1
    <3> QED
      BY <1>2, <2>2, <2>4, <2>5, <3>1, <3>2 DEF Parts, SiLines, SameSteps, SameFront, SameSiLines, stop
  <2>7. SiStops(h)'
    BY <1>2, <1>6, <2>2, <2>5 DEF SiStops, SameSteps, SameFront, SameSiLines
  <2>8. /\ Bounds(h)' /\ Numbering(h)' /\ Flags(h)' /\ Asked(h)' /\ Masked(h)' /\ Updated(h)'
        /\ StaLines(h)' /\ SeenPrev(h)' /\ SeenCurr(h)' /\ Sampled(h)' /\ StaStops(h)'
    BY <1>2, <2>5, KeepBounds, KeepNumbering, KeepFlags, KeepAsked, KeepMasked, KeepUpdated,
       KeepStaLines, KeepSeen, KeepSampled, KeepStops DEF Parts, SameSteps, SameFront, SameSta,
       SameSiLines, SameOut
  <2>9. Rest'
    BY <1>2 DEF Rest
  <2> QED
    BY <2>5, <2>6, <2>7, <2>8, <2>9 DEF PairInv, Parts
<1>9. CASE g.i = g.B[g.d]
  <2>1. Holds(last, LastOf(g.S), g.i, g.i, g.yl, stop)
    BY <1>4, <1>9
  <2>2. g.yl = 1 /\ Head(last) = stop /\ Holds(Tail(last), LastOf(g.S), g.i, g.i, 0, stop)
    BY <1>1, <1>3, <2>1, StopPop
  <2>3. g.yv = 0 /\ g.yc = 0 /\ si_run /\ ~vl_run /\ g.d = g.e
    BY <1>6, <2>2
  <2>4. SiRequest(Head(last)) = StopVd
    BY <1>7, <2>2, <2>3 DEF SiRequest
  <2>5. Holds(si_vd', SiVdOf(g.S), g.j, g.i, 1, StopVd)
    BY <1>1, <1>3, <1>4, <2>3, <2>4, HoldsPush
  <2>6. PICK h \in GhostSet :
          /\ h.i = g.i /\ h.j = g.j /\ h.yl = 0 /\ h.yv = 1
          /\ SameSteps(g, h) /\ SameFront(g, h) /\ SameSta(g, h) /\ SameStaLines(g, h)
          /\ SameSiLines(g, h) /\ SameOut(g, h)
    <3> PICK z \in Bit : z = 0
      BY DEF Bit
    <3> PICK w \in Bit : w = 1
      BY DEF Bit
    <3> DEFINE h == [g EXCEPT !.yl = z, !.yv = w]
    <3>1. h \in GhostSet
      BY ZenonT(60) DEF GhostSet
    <3>2. /\ h.i = g.i /\ h.j = g.j /\ h.yl = z /\ h.yv = w
          /\ SameSteps(g, h) /\ SameFront(g, h) /\ SameSta(g, h) /\ SameStaLines(g, h)
          /\ SameSiLines(g, h) /\ SameOut(g, h)
      BY DEF GhostSet, SameSteps, SameFront, SameSta, SameStaLines, SameSiLines, SameOut
    <3> QED
      BY <3>1, <3>2
  <2>7. SiLines(h)'
    <3>1. Holds(last', LastOf(g.S), g.i, g.B[g.d], 0, stop)
      BY <1>1, <1>9, <2>2
    <3> QED
      BY <1>2, <2>3, <2>5, <2>6, <3>1 DEF Parts, SiLines, SameSteps, SameFront, SameSiLines, stop
  <2>8. SiStops(h)'
    BY <1>2, <1>9, <2>3, <2>6 DEF SiStops, SameSteps, SameFront, SameSiLines
  <2>9. /\ Bounds(h)' /\ Numbering(h)' /\ Flags(h)' /\ Asked(h)' /\ Masked(h)' /\ Updated(h)'
        /\ StaLines(h)' /\ SeenPrev(h)' /\ SeenCurr(h)' /\ Sampled(h)' /\ StaStops(h)'
    BY <1>2, <2>6, KeepBounds, KeepNumbering, KeepFlags, KeepAsked, KeepMasked, KeepUpdated,
       KeepStaLines, KeepSeen, KeepSampled, KeepStops DEF Parts, SameSteps, SameFront, SameSta,
       SameSiLines, SameOut
  <2>10. Rest'
    BY <1>2 DEF Rest
  <2> QED
    BY <2>6, <2>7, <2>8, <2>9, <2>10 DEF PairInv, Parts
<1> QED
  BY <1>3, <1>5, <1>8, <1>9

\* One command is written behind the others.
LEMMA OneCommand ==
  ASSUME NEW s, IsSeq(s), NEW x
  PROVE  s \o <<x>> = Append(s, x)
<1> DEFINE r == <<x>>
<1>1. r \in Seq({x}) /\ Len(r) = 1 /\ r[1] = x
  OBVIOUS
<1> HIDE DEF r
<1>2. IsSeq(r)
  BY <1>1, SeqIsSeq
<1>3. s \o r = Append(s, r[1])
  BY <1>1, <1>2, ChainOne
<1> QED
  BY <1>1, <1>3 DEF r

\* si_cmd_generator asks for a line.
LEMMA SiCmdGeneratorStep ==
  ASSUME Rest, NEW g \in GhostSet, Parts(g), SiCmdGenerator
  PROVE  PairInv'
<1> DEFINE vd == Head(si_vd)
           c == IF vd.d.size = 0 THEN FillerCmd(vd) ELSE BurstCmd(vd, si_line)
<1>1. /\ si_vd # <<>> /\ si_cmd' = si_cmd \o SiCommands(vd, si_line)
      /\ vd.d.size = 0 \/ BurstCmd(vd, si_line).end_of_burst =>
            si_vd' = Tail(si_vd) /\ si_line' = 0
      /\ ~(vd.d.size = 0 \/ BurstCmd(vd, si_line).end_of_burst) =>
            si_line' = si_line + 1 /\ si_vd' = si_vd
  BY DEF SiCmdGenerator
<1>2. UNCHANGED <<asked, half, query, assert_in, vl_run, vds, last_pkg, current, last, sta_stop,
                  sync_id, update, assert_mask, sta_vd, filtered, sta_line, sta_cmd, assert_out,
                  sta_run, sta_out, si_run, si_out, seen, next_vertex, update_id, answer, pending>>
  BY DEF SiCmdGenerator, dupVars, loaderVars, staVars, staCmdVars, outVars
<1>3. /\ g.i \in Nat /\ g.j \in Nat /\ g.yv \in Bit /\ g.yc \in Bit /\ g.d \in Nat /\ g.e \in Nat
      /\ g.y1 \in Nat /\ g.y2 \in Nat /\ g.y3 \in Nat /\ g.U \in [Nat -> PlaceSet]
      /\ g.S \in [Nat -> ListSet]
  BY GhostFields
<1>4. /\ Holds(last, LastOf(g.S), g.i, g.B[g.d], g.yl, VdsOf(g.H)[2 * g.e - 1])
      /\ Holds(si_vd, SiVdOf(g.S), g.j, g.i, g.yv, StopVd)
      /\ si_line # 0 => g.j < g.i
      /\ \A y \in g.y1 .. g.y3 - 1 :
           /\ g.U[y + 1] = Behind(g.U[y], SiCmd(g.S[g.U[y].l], g.U[y].n).end_of_burst)
           /\ g.U[y].l < g.B[g.d]
      /\ Holds(si_out, SiOutOf(g.S, g.U), g.y1, g.y2, 0, None)
      /\ Holds(si_cmd, SiCmdOf(g.S, g.U), g.y2, g.y3, g.yc, StopCmd)
  BY DEF Parts, SiLines
<1>5. /\ si_line \in Nat /\ g.U[g.y3].l = g.j /\ g.U[g.y3].n = si_line
      /\ g.y1 <= g.y2 /\ g.y2 <= g.y3 /\ g.j <= g.i /\ g.i <= g.B[g.d]
      /\ g.B[g.d] \in Nat /\ g.B[g.d] <= g.B[g.e] /\ g.B[g.e] \in Nat
  BY SiPlaces
<1>6. /\ g.yl = 1 => g.yv = 0 /\ g.yc = 0 /\ si_run
      /\ g.yv = 1 => g.yc = 0 /\ si_run
      /\ g.yc = 1 => si_run
      /\ g.yl = 1 \/ g.yv = 1 \/ g.yc = 1 \/ ~si_run => ~vl_run /\ g.d = g.e
      /\ g.yv = 1 \/ g.yc = 1 \/ ~si_run => g.i = g.B[g.d]
      /\ g.yc = 1 \/ ~si_run => g.j = g.i
      /\ ~si_run => g.y2 = g.y3
  BY DEF Parts, SiStops
<1>7. si_cmd' = Append(si_cmd, c)
  <2>1. IsSeq(si_cmd)
    BY <1>4 DEF Holds
  <2>2. SiCommands(vd, si_line) = <<c>>
    BY DEF SiCommands
  <2> HIDE DEF c
  <2> QED
    BY <1>1, <2>1, <2>2, OneCommand
<1>8. c.end_of_burst <=> vd.d.size = 0 \/ BurstCmd(vd, si_line).end_of_burst
  <2>1. FillerCmd(vd).end_of_burst
    BY DEF FillerCmd
  <2> QED
    BY <2>1
<1> HIDE DEF c
<1>9. CASE g.j < g.i
  <2>1. /\ vd = SiVdOf(g.S)[g.j]
        /\ Holds(Tail(si_vd), SiVdOf(g.S), g.j + 1, g.i, g.yv, StopVd)
    BY <1>1, <1>3, <1>4, <1>5, <1>9, HoldsPop
  <2>2. ~(g.yc = 1) /\ g.yc = 0 /\ si_run
    BY <1>3, <1>6, <1>9 DEF Bit
  <2>3. vd = SiVd(g.S[g.j])
    BY <1>3, <2>1 DEF SiVdOf
  <2>4. c = SiCmd(g.S[g.j], si_line)
    BY <2>3 DEF c, SiCmd
  <2>5. g.j < g.B[g.d] /\ g.j < g.B[g.e]
    BY <1>3, <1>5, <1>9
  <2>6. c.end_of_burst \in BOOLEAN
    <3>1. vd.d \in DescSet
      <4>1. DescOf(g.S[g.j].step.prev) \in DescSet
        BY <1>3, <2>5, HistoryList
      <4> QED
        BY <2>3, <4>1 DEF SiVd
    <3>2. BurstCmd(vd, si_line).end_of_burst \in BOOLEAN
      BY <1>5, <3>1, LineOfList
    <3>3. FillerCmd(vd).end_of_burst \in BOOLEAN
      BY DEF FillerCmd
    <3> QED
      BY <3>2, <3>3 DEF c
  <2>7. PICK end \in BOOLEAN : end = c.end_of_burst
    BY <2>6
  <2>8. end <=> vd.d.size = 0 \/ BurstCmd(vd, si_line).end_of_burst
    BY <1>8, <2>7
  <2> HIDE DEF vd
  <2>9. PICK p \in PlaceSet : p = Behind(g.U[g.y3], end)
    BY <1>3, BehindType
  <2>10. PICK G \in [Nat -> PlaceSet] :
          G[g.y3 + 1] = p /\ \A y \in Nat : y <= g.y3 => G[y] = g.U[y]
    <3> DEFINE f == g.U
               u == g.y3
    <3>1. f \in [Nat -> PlaceSet] /\ u \in Nat
      BY <1>3
    <3> HIDE DEF f, u
    <3>2. \E G \in [Nat -> PlaceSet] : G[u + 1] = p /\ \A x \in Nat : x <= u => G[x] = f[x]
      BY <3>1, NextLine
    <3> QED
      BY <3>2 DEF f, u
  <2>11. p.l \in Nat /\ p = [l |-> IF end THEN g.j + 1 ELSE g.j, n |-> IF end THEN 0 ELSE si_line + 1]
    <3>1. p.l \in Nat
      BY DEF PlaceSet
    <3> QED
      BY <1>5, <2>9, <3>1 DEF Behind
  <2>12. PICK h \in GhostSet :
          /\ h.i = g.i /\ h.j = p.l /\ h.yl = g.yl /\ h.yv = g.yv
          /\ h.U = G /\ h.y1 = g.y1 /\ h.y2 = g.y2 /\ h.y3 = g.y3 + 1 /\ h.yc = g.yc
          /\ SameSteps(g, h) /\ SameFront(g, h) /\ SameSta(g, h) /\ SameStaLines(g, h)
          /\ SameOut(g, h)
    <3> PICK x \in Nat : x = g.y3 + 1
      BY <1>3
    <3> PICK l \in Nat : l = p.l
      BY <2>11
    <3> DEFINE h == [g EXCEPT !.j = l, !.U = G, !.y3 = x]
    <3>1. h \in GhostSet
      BY ZenonT(60) DEF GhostSet
    <3>2. /\ h.i = g.i /\ h.j = l /\ h.yl = g.yl /\ h.yv = g.yv
          /\ h.U = G /\ h.y1 = g.y1 /\ h.y2 = g.y2 /\ h.y3 = x /\ h.yc = g.yc
          /\ SameSteps(g, h) /\ SameFront(g, h) /\ SameSta(g, h) /\ SameStaLines(g, h)
          /\ SameOut(g, h)
      BY DEF GhostSet, SameSteps, SameFront, SameSta, SameStaLines, SameOut
    <3> QED
      BY <3>1, <3>2
  <2>13. /\ h.j = IF end THEN g.j + 1 ELSE g.j
         /\ si_line' = IF end THEN 0 ELSE si_line + 1
         /\ si_line' # 0 => h.j < g.i
         /\ Holds(si_vd', SiVdOf(g.S), h.j, g.i, g.yv, StopVd)
    <3>1. CASE end
      <4>1. h.j = g.j + 1 /\ si_line' = 0 /\ si_vd' = Tail(si_vd)
        BY <1>1, <2>8, <2>11, <2>12, <3>1 DEF vd
      <4> QED
        BY <2>1, <3>1, <4>1
    <3>2. CASE ~end
      <4>1. h.j = g.j /\ si_line' = si_line + 1 /\ si_vd' = si_vd
        BY <1>1, <2>8, <2>11, <2>12, <3>2 DEF vd
      <4> QED
        BY <1>4, <1>9, <3>2, <4>1
    <3> QED
      BY <3>1, <3>2
  <2>14. SiLines(h)'
    <3>1. G[g.y3 + 1] = [l |-> h.j, n |-> si_line']
      BY <2>10, <2>11, <2>13
    <3>2. ASSUME NEW y \in g.y1 .. (g.y3 + 1) - 1
          PROVE  /\ G[y + 1] = Behind(G[y], SiCmd(g.S[G[y].l], G[y].n).end_of_burst)
                 /\ G[y].l < g.B[g.d]
      <4>1. CASE y = g.y3
        <5>1. G[y] = g.U[g.y3]
          BY <1>3, <2>10, <4>1
        <5>2. SiCmd(g.S[G[y].l], G[y].n).end_of_burst = end
          BY <1>5, <2>4, <2>7, <5>1
        <5> QED
          BY <1>5, <2>5, <2>9, <2>10, <4>1, <5>1, <5>2
      <4>2. CASE y < g.y3
        <5>1. y \in Nat /\ y + 1 \in Nat /\ y + 1 <= g.y3 /\ y <= g.y3 /\ y \in g.y1 .. g.y3 - 1
          BY <1>3, <4>2
        <5>2. G[y] = g.U[y] /\ G[y + 1] = g.U[y + 1]
          BY <2>10, <5>1
        <5> QED
          BY <1>4, <5>1, <5>2
      <4> QED
        BY <1>3, <4>1, <4>2
    <3>4. Holds(si_out, SiOutOf(g.S, G), g.y1, g.y2, 0, None)
      <4>1. g.y2 <= g.y3 + 1 /\ 0 \in Bit
        BY <1>3, <1>5 DEF Bit
      <4> QED
        BY <1>3, <1>4, <2>10, <4>1, LinesStay
    <3>5. Holds(si_cmd', SiCmdOf(g.S, G), g.y2, g.y3 + 1, 0, StopCmd)
      <4>1. SiCmdOf(g.S, g.U)[g.y3] = c
        BY <1>3, <1>5, <2>4 DEF SiCmdOf
      <4> DEFINE y == g.y3 + 1
      <4>2. Holds(si_cmd', SiCmdOf(g.S, g.U), g.y2, y, 0, StopCmd)
        BY <1>3, <1>4, <1>7, <2>2, <4>1, HoldsPush
      <4>3. y \in Nat /\ y <= g.y3 + 1 /\ 0 \in Bit
        BY <1>3 DEF Bit
      <4> HIDE DEF y
      <4>4. Holds(si_cmd', SiCmdOf(g.S, G), g.y2, y, 0, StopCmd)
        <5>1. g.y2 \in Nat /\ y \in Nat /\ y <= g.y3 + 1 /\ 0 \in Bit /\ g.y3 \in Nat
          BY <1>3, <4>3
        <5> QED
          BY <2>10, <4>2, <5>1, LinesStay
      <4> QED
        BY <4>4 DEF y
    <3> QED
      BY <1>2, <1>4, <2>2, <2>12, <2>13, <3>1, <3>2, <3>4, <3>5
         DEF SiLines, SameSteps, SameFront
  <2>15. SiStops(h)'
    <3>1. g.yv = 1 => g.i = g.B[g.d]
      BY <1>6
    <3> QED
      BY <1>2, <1>6, <2>2, <2>12 DEF SiStops, SameSteps, SameFront
  <2>16. SeenPrev(h)'
    <3>1. G[g.y1] = g.U[g.y1]
      BY <1>3, <1>5, <2>10
    <3> QED
      BY <1>2, <2>12, <3>1 DEF Parts, SeenPrev, SameSteps, SameFront, SameOut
  <2>17. /\ Bounds(h)' /\ Numbering(h)' /\ Flags(h)' /\ Asked(h)' /\ Masked(h)' /\ Updated(h)'
        /\ StaLines(h)' /\ SeenCurr(h)' /\ Sampled(h)' /\ StaStops(h)'
    BY <1>2, <2>12, KeepBounds, KeepNumbering, KeepFlags, KeepAsked, KeepMasked, KeepUpdated,
       KeepStaLines, KeepSeen, KeepSampled, KeepStops DEF Parts, SameSteps, SameFront, SameSta,
       SameOut
  <2>18. Rest'
    BY <1>2 DEF Rest
  <2> QED
    BY <2>12, <2>14, <2>15, <2>16, <2>17, <2>18 DEF PairInv, Parts
<1>10. CASE g.j = g.i
  <2>1. Holds(si_vd, SiVdOf(g.S), g.j, g.j, g.yv, StopVd)
    BY <1>4, <1>10
  <2>2. g.yv = 1 /\ vd = StopVd /\ Holds(Tail(si_vd), SiVdOf(g.S), g.j, g.j, 0, StopVd)
    BY <1>1, <1>3, <2>1, StopPop
  <2>3. si_line = 0 /\ g.yc = 0 /\ si_run /\ ~vl_run /\ g.d = g.e /\ g.i = g.B[g.d] /\ ~(g.yl = 1)
    BY <1>3, <1>4, <1>6, <1>10, <2>2
  <2>4. c = StopCmd /\ BurstCmd(vd, si_line).end_of_burst
    BY <2>2, <2>3, StopCommand DEF c, StopCmd
  <2>5. si_vd' = Tail(si_vd) /\ si_line' = 0
    BY <1>1, <2>4
  <2>6. Holds(si_cmd', SiCmdOf(g.S, g.U), g.y2, g.y3, 1, StopCmd)
    BY <1>3, <1>4, <1>7, <2>3, <2>4, HoldsPush
  <2> HIDE DEF vd
  <2>7. PICK h \in GhostSet :
          /\ h.i = g.i /\ h.j = g.j /\ h.yl = g.yl /\ h.yv = 0
          /\ h.U = g.U /\ h.y1 = g.y1 /\ h.y2 = g.y2 /\ h.y3 = g.y3 /\ h.yc = 1
          /\ SameSteps(g, h) /\ SameFront(g, h) /\ SameSta(g, h) /\ SameStaLines(g, h)
          /\ SameOut(g, h)
    <3> PICK z \in Bit : z = 0
      BY DEF Bit
    <3> PICK w \in Bit : w = 1
      BY DEF Bit
    <3> DEFINE h == [g EXCEPT !.yv = z, !.yc = w]
    <3>1. h \in GhostSet
      BY ZenonT(60) DEF GhostSet
    <3>2. /\ h.i = g.i /\ h.j = g.j /\ h.yl = g.yl /\ h.yv = z
          /\ h.U = g.U /\ h.y1 = g.y1 /\ h.y2 = g.y2 /\ h.y3 = g.y3 /\ h.yc = w
          /\ SameSteps(g, h) /\ SameFront(g, h) /\ SameSta(g, h) /\ SameStaLines(g, h)
          /\ SameOut(g, h)
      BY DEF GhostSet, SameSteps, SameFront, SameSta, SameStaLines, SameOut
    <3> QED
      BY <3>1, <3>2
  <2>8. SiLines(h)'
    <3>1. Holds(si_vd', SiVdOf(g.S), g.j, g.i, 0, StopVd)
      BY <1>10, <2>2, <2>5
    <3>2. g.U[g.y3] = [l |-> g.j, n |-> si_line]
      BY DEF Parts, SiLines
    <3> QED
      BY <1>2, <1>4, <2>3, <2>5, <2>6, <2>7, <3>1, <3>2 DEF SiLines, SameSteps, SameFront
  <2>9. SiStops(h)'
    BY <1>2, <1>10, <2>3, <2>7 DEF SiStops, SameSteps, SameFront
  <2>10. SeenPrev(h)'
    BY <1>2, <2>7 DEF Parts, SeenPrev, SameSteps, SameFront, SameOut
  <2>11. /\ Bounds(h)' /\ Numbering(h)' /\ Flags(h)' /\ Asked(h)' /\ Masked(h)' /\ Updated(h)'
        /\ StaLines(h)' /\ SeenCurr(h)' /\ Sampled(h)' /\ StaStops(h)'
    BY <1>2, <2>7, KeepBounds, KeepNumbering, KeepFlags, KeepAsked, KeepMasked, KeepUpdated,
       KeepStaLines, KeepSeen, KeepSampled, KeepStops DEF Parts, SameSteps, SameFront, SameSta,
       SameOut
  <2>12. Rest'
    BY <1>2 DEF Rest
  <2> QED
    BY <2>7, <2>8, <2>9, <2>10, <2>11, <2>12 DEF PairInv, Parts
<1> QED
  BY <1>3, <1>5, <1>9, <1>10

\* A line of the current list is read.
LEMMA StaLineOf ==
  ASSUME NEW g \in GhostSet, Parts(g), NEW x \in Nat, g.x1 <= x, x < g.x3
  PROVE  LET c == StaCmdOf(g.S, g.F)[x]
         IN  /\ c = StaCmd(g.S[g.F[x].l], g.F[x].n)
             /\ c.id # StopId
             /\ StaOutOf(g.S, g.F)[x] = [words |-> Unmasked(c), id |-> c.id,
                                        end_of_burst |-> c.end_of_burst, last |-> c.last]
<1>1. g.F \in [Nat -> PlaceSet] /\ g.S \in [Nat -> ListSet] /\ g.x1 \in Nat /\ g.x3 \in Nat
  BY GhostFields
<1>2. g.F[x] \in PlaceSet
  BY <1>1
<1> PICK l \in Nat : l = g.F[x].l
  BY <1>2 DEF PlaceSet
<1> PICK n \in Nat : n = g.F[x].n
  BY <1>2 DEF PlaceSet
<1>3. g.B[g.s] <= g.B[g.e] /\ g.B[g.s] \in Nat /\ g.B[g.e] \in Nat
  BY StaPlaces
<1>4. l < g.B[g.s]
  <2>1. x \in g.x1 .. g.x3 - 1
    BY <1>1
  <2> QED
    BY <2>1 DEF Parts, StaLines
<1>5. DescOf(g.S[l].step.curr) \in DescSet
  BY <1>3, <1>4, HistoryList
<1> DEFINE c == StaCmd(g.S[l], n)
<1>6. StaVd(g.S[l]).d \in DescSet /\ StaVd(g.S[l]).id = g.S[l].a % IdMod /\ StaVd(g.S[l]).last = FALSE
  BY <1>5, Zenon DEF StaVd
<1>7. /\ c.id = g.S[l].a % IdMod
      /\ c.last = (c.end_of_burst /\ StaVd(g.S[l]).last)
      /\ c.end_of_burst \in BOOLEAN
  BY <1>6, LineOfList DEF StaCmd
<1>8. g.S[l].a \in Nat
  BY <1>1 DEF ListSet
<1>9. c.id # StopId
  BY <1>7, <1>8, NextNumber
<1>10. c.last = FALSE
  BY <1>6, <1>7
<1>11. StaCmdOf(g.S, g.F)[x] = c
  BY DEF StaCmdOf
<1>12. StaOutOf(g.S, g.F)[x] = [words |-> Unmasked(c), id |-> g.S[l].a % IdMod,
                               end_of_burst |-> c.end_of_burst, last |-> FALSE]
  BY Zenon DEF StaOutOf, StaLine
<1> HIDE DEF c
<1>13. StaOutOf(g.S, g.F)[x] = [words |-> Unmasked(c), id |-> c.id,
                               end_of_burst |-> c.end_of_burst, last |-> c.last]
  BY <1>7, <1>10, <1>12, Zenon
<1>14. c = StaCmd(g.S[g.F[x].l], g.F[x].n)
  BY DEF c
<1> QED
  BY <1>9, <1>11, <1>13, <1>14, Zenon

\* A line of the previous list is read.
LEMMA SiLineOf ==
  ASSUME NEW g \in GhostSet, Parts(g), NEW y \in Nat, g.y1 <= y, y < g.y3
  PROVE  LET c == SiCmdOf(g.S, g.U)[y]
         IN  /\ c = SiCmd(g.S[g.U[y].l], g.U[y].n)
             /\ c.id # StopId
             /\ SiOutOf(g.S, g.U)[y] = [words |-> IF c.size = 0 THEN {} ELSE Unmasked(c),
                                       last |-> c.size = 0 \/ c.end_of_burst]
<1>1. g.U \in [Nat -> PlaceSet] /\ g.S \in [Nat -> ListSet] /\ g.y1 \in Nat /\ g.y3 \in Nat
  BY GhostFields
<1>2. g.U[y] \in PlaceSet
  BY <1>1
<1> PICK l \in Nat : l = g.U[y].l
  BY <1>2 DEF PlaceSet
<1> PICK n \in Nat : n = g.U[y].n
  BY <1>2 DEF PlaceSet
<1>3. g.B[g.d] <= g.B[g.e] /\ g.B[g.d] \in Nat /\ g.B[g.e] \in Nat
  BY SiPlaces
<1>4. l < g.B[g.d]
  <2>1. y \in g.y1 .. g.y3 - 1
    BY <1>1
  <2> QED
    BY <2>1 DEF Parts, SiLines
<1>5. DescOf(g.S[l].step.prev) \in DescSet
  BY <1>3, <1>4, HistoryList
<1> DEFINE vd == SiVd(g.S[l])
           c == SiCmd(g.S[l], n)
<1>6. vd.d \in DescSet /\ vd.id = 0
  BY <1>5 DEF SiVd
<1>7. /\ BurstCmd(vd, n).id = 0 /\ BurstCmd(vd, n).size = 1
      /\ BurstCmd(vd, n).end_of_burst \in BOOLEAN
  BY <1>6, LineOfList
<1>8. FillerCmd(vd).id = 0 /\ FillerCmd(vd).size = 0 /\ FillerCmd(vd).end_of_burst = TRUE
  BY <1>6, Zenon DEF FillerCmd
<1>9. c.id = 0 /\ c.end_of_burst \in BOOLEAN /\ (c.size = 0 => c.end_of_burst)
  <2>1. CASE vd.d.size = 0
    <3>1. c = FillerCmd(vd)
      BY <2>1 DEF SiCmd
    <3> QED
      BY <1>8, <3>1
  <2>2. CASE vd.d.size # 0
    <3>1. c = BurstCmd(vd, n)
      BY <2>2 DEF SiCmd
    <3> HIDE DEF c
    <3> QED
      BY <1>7, <3>1
  <2> QED
    BY <2>1, <2>2
<1>10. SiCmdOf(g.S, g.U)[y] = c
  BY DEF SiCmdOf
<1>11. SiOutOf(g.S, g.U)[y] = [words |-> IF c.size = 0 THEN {} ELSE Unmasked(c),
                              last |-> c.end_of_burst]
  BY Zenon DEF SiOutOf, SiLine
<1>12. c = SiCmd(g.S[g.U[y].l], g.U[y].n)
  OBVIOUS
<1> HIDE DEF c
<1>13. c.end_of_burst = (c.size = 0 \/ c.end_of_burst)
  BY <1>9
<1>14. SiOutOf(g.S, g.U)[y] = [words |-> IF c.size = 0 THEN {} ELSE Unmasked(c),
                              last |-> c.size = 0 \/ c.end_of_burst]
  BY <1>11, <1>13, Zenon
<1>15. c.id # StopId
  BY <1>9 DEF StopId
<1> QED
  BY <1>10, <1>12, <1>14, <1>15, Zenon

\* staburst_core takes a command.
LEMMA StaBurstStep ==
  ASSUME Rest, NEW g \in GhostSet, Parts(g), StaBurst
  PROVE  PairInv'
<1> DEFINE c == Head(sta_cmd)
<1>1. /\ sta_run /\ sta_cmd # <<>> /\ sta_cmd' = Tail(sta_cmd)
      /\ c.id = StopId => sta_run' = FALSE /\ sta_out' = sta_out
      /\ c.id # StopId =>
            /\ sta_out' = Append(sta_out, [words |-> Unmasked(c), id |-> c.id,
                                 end_of_burst |-> c.end_of_burst, last |-> c.last])
            /\ sta_run' = sta_run
  BY DEF StaBurst
<1> HIDE DEF c
<1>2. UNCHANGED <<asked, half, query, assert_in, vl_run, vds, last_pkg, current, last, sta_stop,
                  sync_id, update, assert_mask, sta_vd, filtered, sta_line, assert_out, si_vd,
                  si_line, si_cmd, si_run, si_out, seen, next_vertex, update_id, answer, pending>>
  BY DEF StaBurst, dupVars, loaderVars, staVars, siVars, outVars
<1>3. g.x1 \in Nat /\ g.x2 \in Nat /\ g.x3 \in Nat /\ g.zc \in Bit
  BY GhostFields
<1>4. /\ Holds(sta_out, StaOutOf(g.S, g.F), g.x1, g.x2, 0, None)
      /\ Holds(sta_cmd, StaCmdOf(g.S, g.F), g.x2, g.x3, g.zc, StopCmd)
      /\ Holds(assert_out, AssertsOf(g.S, g.F), g.x1, g.x3, 0, None)
      /\ g.F[g.x3] = [l |-> g.k, n |-> sta_line]
      /\ sta_line # 0 => g.k < g.B[g.s]
      /\ \A x \in g.x1 .. g.x3 - 1 :
         /\ g.F[x + 1] = Behind(g.F[x], StaCmd(g.S[g.F[x].l], g.F[x].n).end_of_burst)
         /\ g.F[x].l < g.B[g.s]
      /\ g.F[g.x1].l = IF seen.curr_end THEN g.t + 1 ELSE g.t
  BY DEF Parts, StaLines
<1>5. g.x1 <= g.x2 /\ g.x2 <= g.x3
  BY StaPlaces
<1>6. CASE g.x2 < g.x3
  <2>1. /\ c = StaCmdOf(g.S, g.F)[g.x2]
        /\ Holds(sta_cmd', StaCmdOf(g.S, g.F), g.x2 + 1, g.x3, g.zc, StopCmd)
    <3>1. sta_cmd # <<>> /\ Holds(sta_cmd, StaCmdOf(g.S, g.F), g.x2, g.x3, g.zc, StopCmd)
      BY <1>1, <1>4
    <3>2. /\ Head(sta_cmd) = StaCmdOf(g.S, g.F)[g.x2]
          /\ Holds(Tail(sta_cmd), StaCmdOf(g.S, g.F), g.x2 + 1, g.x3, g.zc, StopCmd)
      BY <1>3, <1>6, <3>1, HoldsPop
    <3> QED
      BY <1>1, <3>2 DEF c
  <2>2. /\ c.id # StopId
        /\ StaOutOf(g.S, g.F)[g.x2] = [words |-> Unmasked(c), id |-> c.id,
                                      end_of_burst |-> c.end_of_burst, last |-> c.last]
    BY <1>3, <1>5, <1>6, <2>1, StaLineOf
  <2>3. sta_out' = Append(sta_out, StaOutOf(g.S, g.F)[g.x2]) /\ sta_run' = sta_run
    BY <1>1, <2>2, Zenon
  <2>4. Holds(sta_out', StaOutOf(g.S, g.F), g.x1, g.x2 + 1, 0, None)
    BY <1>3, <1>4, <2>3, HoldsPush
  <2>5. PICK h \in GhostSet :
          /\ h.F = g.F /\ h.x1 = g.x1 /\ h.x2 = g.x2 + 1 /\ h.x3 = g.x3 /\ h.zc = g.zc
          /\ SameSteps(g, h) /\ SameFront(g, h) /\ SameSta(g, h)
          /\ SameSi(g, h) /\ SameSiLines(g, h) /\ SameOut(g, h)
    <3> PICK x \in Nat : x = g.x2 + 1
      BY <1>3
    <3> DEFINE h == [g EXCEPT !.x2 = x]
    <3>1. h \in GhostSet
      BY ZenonT(60) DEF GhostSet
    <3>2. /\ h.F = g.F /\ h.x1 = g.x1 /\ h.x2 = x /\ h.x3 = g.x3 /\ h.zc = g.zc
          /\ SameSteps(g, h) /\ SameFront(g, h) /\ SameSta(g, h)
          /\ SameSi(g, h) /\ SameSiLines(g, h) /\ SameOut(g, h)
      BY DEF GhostSet, SameSteps, SameFront, SameSta, SameSi, SameSiLines, SameOut
    <3> QED
      BY <3>1, <3>2
  <2>6. StaLines(h)'
    BY <1>2, <1>4, <2>1, <2>4, <2>5 DEF StaLines, SameSteps, SameSta, SameOut
  <2>7. StaStops(h)'
    BY <1>1, <1>2, <2>3, <2>5 DEF Parts, StaStops, SameSteps, SameSta
  <2>8. /\ Bounds(h)' /\ Numbering(h)' /\ Flags(h)' /\ Asked(h)' /\ Masked(h)' /\ Updated(h)'
        /\ SiLines(h)' /\ SeenPrev(h)' /\ SeenCurr(h)' /\ Sampled(h)' /\ SiStops(h)'
    BY <1>2, <2>5, KeepBounds, KeepNumbering, KeepFlags, KeepAsked, KeepMasked, KeepUpdated,
       KeepSiLines, KeepSeen, KeepSampled, KeepStops DEF Parts, SameSteps, SameFront, SameSta,
       SameSiLines, SameOut
  <2>9. Rest'
    BY <1>2, <2>3 DEF Rest
  <2> QED
    BY <2>5, <2>6, <2>7, <2>8, <2>9 DEF PairInv, Parts
<1>7. CASE g.x2 = g.x3
  <2>1. Holds(sta_cmd, StaCmdOf(g.S, g.F), g.x2, g.x2, g.zc, StopCmd)
    BY <1>4, <1>7
  <2>2. g.zc = 1 /\ c = StopCmd /\ Holds(sta_cmd', StaCmdOf(g.S, g.F), g.x2, g.x2, 0, StopCmd)
    BY <1>1, <1>3, <2>1, StopPop DEF c
  <2>3. sta_run' = FALSE /\ sta_out' = sta_out
    BY <1>1, <2>2, StopCommand
  <2>4. PICK h \in GhostSet :
          /\ h.F = g.F /\ h.x1 = g.x1 /\ h.x2 = g.x2 /\ h.x3 = g.x3 /\ h.zc = 0
          /\ SameSteps(g, h) /\ SameFront(g, h) /\ SameSta(g, h)
          /\ SameSi(g, h) /\ SameSiLines(g, h) /\ SameOut(g, h)
    <3> PICK z \in Bit : z = 0
      BY DEF Bit
    <3> DEFINE h == [g EXCEPT !.zc = z]
    <3>1. h \in GhostSet
      BY ZenonT(60) DEF GhostSet
    <3>2. /\ h.F = g.F /\ h.x1 = g.x1 /\ h.x2 = g.x2 /\ h.x3 = g.x3 /\ h.zc = z
          /\ SameSteps(g, h) /\ SameFront(g, h) /\ SameSta(g, h)
          /\ SameSi(g, h) /\ SameSiLines(g, h) /\ SameOut(g, h)
      BY DEF GhostSet, SameSteps, SameFront, SameSta, SameSi, SameSiLines, SameOut
    <3> QED
      BY <3>1, <3>2
  <2>5. StaLines(h)'
    <3>1. Holds(sta_cmd', StaCmdOf(g.S, g.F), g.x2, g.x3, 0, StopCmd)
      BY <1>7, <2>2
    <3> QED
      BY <1>2, <1>4, <2>3, <2>4, <3>1 DEF StaLines, SameSteps, SameSta, SameOut
  <2>6. StaStops(h)'
    BY <1>2, <1>7, <2>2, <2>3, <2>4 DEF Parts, StaStops, SameSteps, SameSta
  <2>7. /\ Bounds(h)' /\ Numbering(h)' /\ Flags(h)' /\ Asked(h)' /\ Masked(h)' /\ Updated(h)'
        /\ SiLines(h)' /\ SeenPrev(h)' /\ SeenCurr(h)' /\ Sampled(h)' /\ SiStops(h)'
    BY <1>2, <2>4, KeepBounds, KeepNumbering, KeepFlags, KeepAsked, KeepMasked, KeepUpdated,
       KeepSiLines, KeepSeen, KeepSampled, KeepStops DEF Parts, SameSteps, SameFront, SameSta,
       SameSiLines, SameOut
  <2>8. Rest'
    BY <1>2, <2>3 DEF Rest
  <2> QED
    BY <2>4, <2>5, <2>6, <2>7, <2>8 DEF PairInv, Parts
<1> QED
  BY <1>3, <1>5, <1>6, <1>7

\* siburst_core takes a command.
LEMMA SiBurstStep ==
  ASSUME Rest, NEW g \in GhostSet, Parts(g), SiBurst
  PROVE  PairInv'
<1> DEFINE c == Head(si_cmd)
<1>1. /\ si_run /\ si_cmd # <<>> /\ si_cmd' = Tail(si_cmd)
      /\ c.id = StopId => si_run' = FALSE /\ si_out' = si_out
      /\ c.id # StopId =>
            /\ si_out' = Append(si_out, [words |-> IF c.size = 0 THEN {} ELSE Unmasked(c),
                                         last |-> c.size = 0 \/ c.end_of_burst])
            /\ si_run' = si_run
  BY DEF SiBurst
<1> HIDE DEF c
<1>2. UNCHANGED <<asked, half, query, assert_in, vl_run, vds, last_pkg, current, last, sta_stop,
                  sync_id, update, assert_mask, sta_vd, filtered, sta_line, sta_cmd, assert_out,
                  sta_run, sta_out, si_vd, si_line, seen, next_vertex, update_id, answer, pending>>
  BY DEF SiBurst, dupVars, loaderVars, staVars, staCmdVars, outVars
<1>3. g.y1 \in Nat /\ g.y2 \in Nat /\ g.y3 \in Nat /\ g.yc \in Bit
  BY GhostFields
<1>4. /\ Holds(last, LastOf(g.S), g.i, g.B[g.d], g.yl, VdsOf(g.H)[2 * g.e - 1])
      /\ Holds(si_vd, SiVdOf(g.S), g.j, g.i, g.yv, StopVd)
      /\ g.U[g.y3] = [l |-> g.j, n |-> si_line]
      /\ si_line # 0 => g.j < g.i
      /\ \A y \in g.y1 .. g.y3 - 1 :
           /\ g.U[y + 1] = Behind(g.U[y], SiCmd(g.S[g.U[y].l], g.U[y].n).end_of_burst)
           /\ g.U[y].l < g.B[g.d]
      /\ Holds(si_out, SiOutOf(g.S, g.U), g.y1, g.y2, 0, None)
      /\ Holds(si_cmd, SiCmdOf(g.S, g.U), g.y2, g.y3, g.yc, StopCmd)
  BY DEF Parts, SiLines
<1>5. g.y1 <= g.y2 /\ g.y2 <= g.y3
  BY SiPlaces
<1>6. CASE g.y2 < g.y3
  <2>1. /\ c = SiCmdOf(g.S, g.U)[g.y2]
        /\ Holds(si_cmd', SiCmdOf(g.S, g.U), g.y2 + 1, g.y3, g.yc, StopCmd)
    <3>1. Holds(si_cmd, SiCmdOf(g.S, g.U), g.y2, g.y3, g.yc, StopCmd) /\ si_cmd # <<>>
      BY <1>1, <1>4
    <3>2. /\ Head(si_cmd) = SiCmdOf(g.S, g.U)[g.y2]
          /\ Holds(Tail(si_cmd), SiCmdOf(g.S, g.U), g.y2 + 1, g.y3, g.yc, StopCmd)
      BY <1>3, <1>6, <3>1, HoldsPop
    <3> QED
      BY <1>1, <3>2 DEF c
  <2>2. /\ c.id # StopId
        /\ SiOutOf(g.S, g.U)[g.y2] = [words |-> IF c.size = 0 THEN {} ELSE Unmasked(c),
                                     last |-> c.size = 0 \/ c.end_of_burst]
    BY <1>3, <1>5, <1>6, <2>1, SiLineOf
  <2>3. si_out' = Append(si_out, SiOutOf(g.S, g.U)[g.y2]) /\ si_run' = si_run
    BY <1>1, <2>2, Zenon
  <2>4. Holds(si_out', SiOutOf(g.S, g.U), g.y1, g.y2 + 1, 0, None)
    BY <1>3, <1>4, <2>3, HoldsPush
  <2>5. PICK h \in GhostSet :
          /\ h.U = g.U /\ h.y1 = g.y1 /\ h.y2 = g.y2 + 1 /\ h.y3 = g.y3 /\ h.yc = g.yc
          /\ SameSteps(g, h) /\ SameFront(g, h) /\ SameSta(g, h)
          /\ SameSi(g, h) /\ SameStaLines(g, h) /\ SameOut(g, h)
    <3> PICK x \in Nat : x = g.y2 + 1
      BY <1>3
    <3> DEFINE h == [g EXCEPT !.y2 = x]
    <3>1. h \in GhostSet
      BY ZenonT(60) DEF GhostSet
    <3>2. /\ h.U = g.U /\ h.y1 = g.y1 /\ h.y2 = x /\ h.y3 = g.y3 /\ h.yc = g.yc
          /\ SameSteps(g, h) /\ SameFront(g, h) /\ SameSta(g, h)
          /\ SameSi(g, h) /\ SameStaLines(g, h) /\ SameOut(g, h)
      BY DEF GhostSet, SameSteps, SameFront, SameSta, SameSi, SameStaLines, SameOut
    <3> QED
      BY <3>1, <3>2
  <2>6. SiLines(h)'
    BY <1>2, <1>4, <2>1, <2>4, <2>5 DEF SiLines, SameSteps, SameFront, SameSi
  <2>7. SiStops(h)'
    BY <1>1, <1>2, <2>3, <2>5 DEF Parts, SiStops, SameSteps, SameFront, SameSi
  <2>8. /\ Bounds(h)' /\ Numbering(h)' /\ Flags(h)' /\ Asked(h)' /\ Masked(h)' /\ Updated(h)'
        /\ StaLines(h)' /\ SeenPrev(h)' /\ SeenCurr(h)' /\ Sampled(h)' /\ StaStops(h)'
    BY <1>2, <2>5, KeepBounds, KeepNumbering, KeepFlags, KeepAsked, KeepMasked, KeepUpdated,
       KeepStaLines, KeepSeen, KeepSampled, KeepStops DEF Parts, SameSteps, SameFront, SameSta,
       SameOut
  <2>9. Rest'
    BY <1>2, <2>3 DEF Rest
  <2> QED
    BY <2>5, <2>6, <2>7, <2>8, <2>9 DEF PairInv, Parts
<1>7. CASE g.y2 = g.y3
  <2>1. Holds(si_cmd, SiCmdOf(g.S, g.U), g.y2, g.y2, g.yc, StopCmd)
    BY <1>4, <1>7
  <2>2. g.yc = 1 /\ c = StopCmd /\ Holds(si_cmd', SiCmdOf(g.S, g.U), g.y2, g.y2, 0, StopCmd)
    BY <1>1, <1>3, <2>1, StopPop DEF c
  <2>3. si_run' = FALSE /\ si_out' = si_out
    BY <1>1, <2>2, StopCommand
  <2>4. PICK h \in GhostSet :
          /\ h.U = g.U /\ h.y1 = g.y1 /\ h.y2 = g.y2 /\ h.y3 = g.y3 /\ h.yc = 0
          /\ SameSteps(g, h) /\ SameFront(g, h) /\ SameSta(g, h)
          /\ SameSi(g, h) /\ SameStaLines(g, h) /\ SameOut(g, h)
    <3> PICK z \in Bit : z = 0
      BY DEF Bit
    <3> DEFINE h == [g EXCEPT !.yc = z]
    <3>1. h \in GhostSet
      BY ZenonT(60) DEF GhostSet
    <3>2. /\ h.U = g.U /\ h.y1 = g.y1 /\ h.y2 = g.y2 /\ h.y3 = g.y3 /\ h.yc = z
          /\ SameSteps(g, h) /\ SameFront(g, h) /\ SameSta(g, h)
          /\ SameSi(g, h) /\ SameStaLines(g, h) /\ SameOut(g, h)
      BY DEF GhostSet, SameSteps, SameFront, SameSta, SameSi, SameStaLines, SameOut
    <3> QED
      BY <3>1, <3>2
  <2>5. SiLines(h)'
    <3>1. Holds(si_cmd', SiCmdOf(g.S, g.U), g.y2, g.y3, 0, StopCmd)
      BY <1>7, <2>2
    <3> QED
      BY <1>2, <1>4, <2>3, <2>4, <3>1 DEF SiLines, SameSteps, SameFront, SameSi
  <2>6. SiStops(h)'
    BY <1>2, <1>7, <2>2, <2>3, <2>4 DEF Parts, SiStops, SameSteps, SameFront, SameSi
  <2>7. /\ Bounds(h)' /\ Numbering(h)' /\ Flags(h)' /\ Asked(h)' /\ Masked(h)' /\ Updated(h)'
        /\ StaLines(h)' /\ SeenPrev(h)' /\ SeenCurr(h)' /\ Sampled(h)' /\ StaStops(h)'
    BY <1>2, <2>4, KeepBounds, KeepNumbering, KeepFlags, KeepAsked, KeepMasked, KeepUpdated,
       KeepStaLines, KeepSeen, KeepSampled, KeepStops DEF Parts, SameSteps, SameFront, SameSta,
       SameOut
  <2>8. Rest'
    BY <1>2, <2>3 DEF Rest
  <2> QED
    BY <2>4, <2>5, <2>6, <2>7, <2>8 DEF PairInv, Parts
<1> QED
  BY <1>3, <1>5, <1>6, <1>7

\* A line of the current list is weighed.
LEMMA WeighCurrStep ==
  ASSUME Rest, NEW g \in GhostSet, Parts(g), WeighCurr
  PROVE  PairInv'
<1> DEFINE p == Head(sta_out)
           o == Head(assert_out)
<1>1. /\ ~seen.curr_end /\ sta_out # <<>> /\ assert_out # <<>>
      /\ sta_out' = Tail(sta_out) /\ assert_out' = Tail(assert_out)
  BY DEF WeighCurr
<1>2. PICK w \in p.words \union ({seen.selected} \ {Dead}) :
        seen' = [seen EXCEPT !.selected = w, !.id = p.id, !.flag = p.last,
                             !.previous = @ \union {o}, !.curr_end = p.end_of_burst]
  BY DEF WeighCurr
<1> HIDE DEF p, o
<1>3. UNCHANGED <<asked, half, query, assert_in, vl_run, vds, last_pkg, current, last, sta_stop,
                  sync_id, update, assert_mask, sta_vd, filtered, sta_line, sta_cmd,
                  sta_run, si_vd, si_line, si_cmd, si_run, si_out, next_vertex, update_id,
                  answer, pending>>
  BY DEF WeighCurr, dupVars, loaderVars, staVars, siVars
<1>4. /\ seen'.selected = w /\ seen'.id = p.id /\ seen'.flag = p.last
      /\ seen'.previous = seen.previous \union {o} /\ seen'.curr_end = p.end_of_burst
      /\ seen'.against = seen.against /\ seen'.prev_end = seen.prev_end
  BY <1>2 DEF Rest
<1>5. /\ g.x1 \in Nat /\ g.x2 \in Nat /\ g.x3 \in Nat /\ g.t \in Nat
      /\ g.F \in [Nat -> PlaceSet] /\ g.S \in [Nat -> ListSet]
  BY GhostFields
<1>6. /\ Holds(sta_out, StaOutOf(g.S, g.F), g.x1, g.x2, 0, None)
      /\ Holds(assert_out, AssertsOf(g.S, g.F), g.x1, g.x3, 0, None)
      /\ g.F[g.x1].l = g.t
      /\ g.F[g.x3] = [l |-> g.k, n |-> sta_line]
      /\ sta_line # 0 => g.k < g.B[g.s]
      /\ \A x \in g.x1 .. g.x3 - 1 :
           /\ g.F[x + 1] = Behind(g.F[x], StaCmd(g.S[g.F[x].l], g.F[x].n).end_of_burst)
           /\ g.F[x].l < g.B[g.s]
      /\ Holds(sta_cmd, StaCmdOf(g.S, g.F), g.x2, g.x3, g.zc, StopCmd)
  BY <1>1 DEF Parts, StaLines
<1>7. /\ g.x1 < g.x2 /\ p = StaOutOf(g.S, g.F)[g.x1]
      /\ Holds(sta_out', StaOutOf(g.S, g.F), g.x1 + 1, g.x2, 0, None)
  <2>1. Holds(sta_out, StaOutOf(g.S, g.F), g.x1, g.x2, 0, None) /\ sta_out # <<>>
    BY <1>1, <1>6
  <2>2. /\ g.x1 < g.x2 /\ Head(sta_out) = StaOutOf(g.S, g.F)[g.x1]
        /\ Holds(Tail(sta_out), StaOutOf(g.S, g.F), g.x1 + 1, g.x2, 0, None)
    BY <1>5, <2>1, StreamPop
  <2> QED
    BY <1>1, <2>2 DEF p
<1>8. /\ o = AssertsOf(g.S, g.F)[g.x1]
      /\ Holds(assert_out', AssertsOf(g.S, g.F), g.x1 + 1, g.x3, 0, None)
  <2>1. Holds(assert_out, AssertsOf(g.S, g.F), g.x1, g.x3, 0, None) /\ assert_out # <<>>
    BY <1>1, <1>6
  <2>2. /\ Head(assert_out) = AssertsOf(g.S, g.F)[g.x1]
        /\ Holds(Tail(assert_out), AssertsOf(g.S, g.F), g.x1 + 1, g.x3, 0, None)
    BY <1>5, <2>1, StreamPop
  <2> QED
    BY <1>1, <2>2 DEF o
<1>9. g.x2 <= g.x3
  BY StaPlaces
<1> PICK n \in Nat : n = g.F[g.x1].n
  BY <1>5 DEF PlaceSet
<1> DEFINE c == StaCmd(g.S[g.t], n)
           d == DescOf(g.S[g.t].step.curr)
<1>10. /\ g.t < g.B[g.s] /\ g.F[g.x1 + 1] = Behind(g.F[g.x1], c.end_of_burst)
  <2>1. g.x1 \in g.x1 .. g.x3 - 1
    BY <1>5, <1>7, <1>9
  <2> QED
    BY <1>6, <2>1
<1>11. p = StaLine(g.S[g.t], n) /\ o = g.S[g.t].step.prev
  BY <1>5, <1>6, <1>7, <1>8 DEF StaOutOf, AssertsOf
<1>12. /\ p.words = Unmasked(c) /\ p.id = g.S[g.t].a % IdMod
       /\ p.end_of_burst = c.end_of_burst /\ p.last = FALSE
  BY <1>11, Zenon DEF StaLine
<1>13. /\ d \in DescSet /\ g.S[g.t].a \in Nat
       /\ g.S[g.t].step.prev \in Vertices \union {Dead}
  <2>1. g.B[g.s] \in Nat /\ g.B[g.e] \in Nat /\ g.B[g.s] <= g.B[g.e]
    BY StaPlaces
  <2>2. g.t < g.B[g.e]
    BY <1>5, <1>10, <2>1
  <2> QED
    BY <1>5, <2>2, HistoryList
<1>14. Unmasked(c) \subseteq Words(d) /\ c.end_of_burst \in BOOLEAN
  <2>1. StaVd(g.S[g.t]).d = d
    BY DEF StaVd
  <2> HIDE DEF d
  <2> QED
    BY <1>13, <2>1, LineOfList DEF StaCmd
<1> HIDE DEF c, d
<1>15. /\ ~seen.flag
       /\ seen.previous = {} => seen.selected = Dead
       /\ seen.previous # {} => /\ seen.previous = {g.S[g.t].step.prev}
                                /\ seen.selected \in Words(d)
  BY DEF Parts, SeenCurr, d
<1>16. /\ seen'.previous = {g.S[g.t].step.prev} /\ seen'.selected \in Words(d)
       /\ seen'.id = g.S[g.t].a % IdMod /\ seen'.flag = FALSE
       /\ seen'.curr_end = c.end_of_burst
  <2>1. seen'.previous = {g.S[g.t].step.prev}
    BY <1>4, <1>11, <1>15
  <2>2. w \in Words(d)
    BY <1>2, <1>12, <1>14, <1>15
  <2> QED
    BY <1>4, <1>12, <2>1, <2>2
<1>17. g.F[g.x1 + 1].l = IF seen'.curr_end THEN g.t + 1 ELSE g.t
  <2>1. CASE c.end_of_burst
    BY <1>6, <1>10, <1>16, <2>1 DEF Behind
  <2>2. CASE ~c.end_of_burst
    BY <1>6, <1>10, <1>16, <2>2 DEF Behind
  <2> QED
    BY <2>1, <2>2
<1>18. PICK h \in GhostSet :
         /\ h.F = g.F /\ h.x1 = g.x1 + 1 /\ h.x2 = g.x2 /\ h.x3 = g.x3 /\ h.zc = g.zc
         /\ SameSteps(g, h) /\ SameFront(g, h) /\ SameSta(g, h)
         /\ SameSi(g, h) /\ SameSiLines(g, h) /\ SameOut(g, h)
  <2> PICK x \in Nat : x = g.x1 + 1
    BY <1>5
  <2> DEFINE h == [g EXCEPT !.x1 = x]
  <2>1. h \in GhostSet
    BY ZenonT(60) DEF GhostSet
  <2>2. /\ h.F = g.F /\ h.x1 = x /\ h.x2 = g.x2 /\ h.x3 = g.x3 /\ h.zc = g.zc
        /\ SameSteps(g, h) /\ SameFront(g, h) /\ SameSta(g, h)
        /\ SameSi(g, h) /\ SameSiLines(g, h) /\ SameOut(g, h)
    BY DEF GhostSet, SameSteps, SameFront, SameSta, SameSi, SameSiLines, SameOut
  <2> QED
    BY <2>1, <2>2
<1>19. StaLines(h)'
  <2>1. g.F[h.x1].l = IF seen'.curr_end THEN g.t + 1 ELSE g.t
    BY <1>17, <1>18
  <2>2. \A x \in h.x1 .. g.x3 - 1 : x \in g.x1 .. g.x3 - 1
    BY <1>5, <1>18
  <2>3. \A x \in h.x1 .. g.x3 - 1 :
           /\ g.F[x + 1] = Behind(g.F[x], StaCmd(g.S[g.F[x].l], g.F[x].n).end_of_burst)
           /\ g.F[x].l < g.B[g.s]
    BY <1>6, <2>2
  <2> QED
    BY <1>3, <1>6, <1>7, <1>8, <1>18, <2>1, <2>3 DEF StaLines, SameSteps, SameSta, SameOut
<1>20. SeenCurr(h)'
  <2>1. seen'.previous # {}
    BY <1>16
  <2> QED
    BY <1>10, <1>16, <1>18, <2>1 DEF SeenCurr, SameSteps, SameSta, SameOut, d
<1>21. SeenPrev(h)'
  BY <1>4, <1>18 DEF Parts, SeenPrev, SameSteps, SameFront, SameSiLines, SameOut
<1>22. StaStops(h)'
  BY <1>3, <1>18 DEF Parts, StaStops, SameSteps, SameSta
<1>23. /\ Bounds(h)' /\ Numbering(h)' /\ Flags(h)' /\ Asked(h)' /\ Masked(h)' /\ Updated(h)'
       /\ SiLines(h)' /\ Sampled(h)' /\ SiStops(h)'
  BY <1>3, <1>18, KeepBounds, KeepNumbering, KeepFlags, KeepAsked, KeepMasked, KeepUpdated,
     KeepSiLines, KeepSampled, KeepStops DEF Parts, SameSteps, SameFront, SameSta, SameOut
<1>24. Rest'
  <2>1. w \in Int
    <3>1. Words(d) \subseteq Int
      BY <1>13 DEF Words, DescSet
    <3> QED
      BY <1>4, <1>16, <3>1
  <2>2. p.id \in Ids
    BY <1>12, <1>13, NextNumber
  <2>3. p.last \in BOOLEAN /\ p.end_of_burst \in BOOLEAN
    BY <1>12, <1>14
  <2>4. o \in Vertices \union {Dead}
    BY <1>11, <1>13
  <2>5. seen.previous \union {o} \in SUBSET (Vertices \union {Dead})
    BY <2>4 DEF Rest
  <2>6. seen' \in [selected: Int, id: Ids, flag: BOOLEAN,
                     previous: SUBSET (Vertices \union {Dead}), against: SUBSET Nat,
                     curr_end: BOOLEAN, prev_end: BOOLEAN]
    BY <1>2, <2>1, <2>2, <2>3, <2>5 DEF Rest
  <2> QED
    BY <1>3, <2>6 DEF Rest
<1> QED
  BY <1>18, <1>19, <1>20, <1>21, <1>22, <1>23, <1>24 DEF PairInv, Parts

\* A line of the previous list is met.
LEMMA WeighPrevStep ==
  ASSUME Rest, NEW g \in GhostSet, Parts(g), WeighPrev
  PROVE  PairInv'
<1> DEFINE p == Head(si_out)
<1>1. /\ ~seen.prev_end /\ si_out # <<>> /\ si_out' = Tail(si_out)
      /\ seen' = [seen EXCEPT !.against = @ \union p.words, !.prev_end = p.last]
  BY DEF WeighPrev
<1> HIDE DEF p
<1>2. UNCHANGED <<asked, half, query, assert_in, vl_run, vds, last_pkg, current, last, sta_stop,
                  sync_id, update, assert_mask, sta_vd, filtered, sta_line, sta_cmd, assert_out,
                  sta_run, sta_out, si_vd, si_line, si_cmd, si_run, next_vertex, update_id,
                  answer, pending>>
  BY DEF WeighPrev, dupVars, loaderVars, staVars, staCmdVars
<1>3. /\ seen'.selected = seen.selected /\ seen'.id = seen.id /\ seen'.flag = seen.flag
      /\ seen'.previous = seen.previous /\ seen'.curr_end = seen.curr_end
      /\ seen'.against = seen.against \union p.words /\ seen'.prev_end = p.last
  BY <1>1 DEF Rest
<1>4. /\ g.y1 \in Nat /\ g.y2 \in Nat /\ g.y3 \in Nat /\ g.t \in Nat
      /\ g.U \in [Nat -> PlaceSet] /\ g.S \in [Nat -> ListSet]
  BY GhostFields
<1>5. /\ Holds(last, LastOf(g.S), g.i, g.B[g.d], g.yl, VdsOf(g.H)[2 * g.e - 1])
      /\ Holds(si_vd, SiVdOf(g.S), g.j, g.i, g.yv, StopVd)
      /\ g.U[g.y3] = [l |-> g.j, n |-> si_line]
      /\ si_line # 0 => g.j < g.i
      /\ \A y \in g.y1 .. g.y3 - 1 :
           /\ g.U[y + 1] = Behind(g.U[y], SiCmd(g.S[g.U[y].l], g.U[y].n).end_of_burst)
           /\ g.U[y].l < g.B[g.d]
      /\ Holds(si_out, SiOutOf(g.S, g.U), g.y1, g.y2, 0, None)
      /\ Holds(si_cmd, SiCmdOf(g.S, g.U), g.y2, g.y3, g.yc, StopCmd)
  BY DEF Parts, SiLines
<1>6. /\ g.y1 < g.y2 /\ p = SiOutOf(g.S, g.U)[g.y1]
      /\ Holds(si_out', SiOutOf(g.S, g.U), g.y1 + 1, g.y2, 0, None)
  <2>1. Holds(si_out, SiOutOf(g.S, g.U), g.y1, g.y2, 0, None) /\ si_out # <<>>
    BY <1>1, <1>5
  <2>2. /\ g.y1 < g.y2 /\ Head(si_out) = SiOutOf(g.S, g.U)[g.y1]
        /\ Holds(Tail(si_out), SiOutOf(g.S, g.U), g.y1 + 1, g.y2, 0, None)
    BY <1>4, <2>1, StreamPop
  <2> QED
    BY <1>1, <2>2 DEF p
<1>7. g.y2 <= g.y3
  BY SiPlaces
<1> PICK n \in Nat : n = g.U[g.y1].n
  BY <1>4 DEF PlaceSet
<1> DEFINE c == SiCmd(g.S[g.t], n)
           d == DescOf(g.S[g.t].step.prev)
<1>8. /\ g.U[g.y1].l = g.t
      /\ n = 0 => seen.against = {}
      /\ n # 0 => seen.against = Below(d, n)
  BY <1>1 DEF Parts, SeenPrev
<1>9. g.t < g.B[g.d] /\ g.U[g.y1 + 1] = Behind(g.U[g.y1], c.end_of_burst)
  <2>1. g.y1 \in g.y1 .. g.y3 - 1
    BY <1>4, <1>6, <1>7
  <2> QED
    BY <1>5, <1>8, <2>1
<1>10. p = SiLine(g.S[g.t], n)
  BY <1>4, <1>6, <1>8 DEF SiOutOf
<1>11. /\ p.words = IF c.size = 0 THEN {} ELSE Unmasked(c)
       /\ p.last = c.end_of_burst
  BY <1>10, Zenon DEF SiLine
<1>12. d \in DescSet
  <2>1. g.B[g.d] \in Nat /\ g.B[g.e] \in Nat /\ g.B[g.d] <= g.B[g.e]
    BY SiPlaces
  <2>2. g.t < g.B[g.e]
    BY <1>4, <1>9, <2>1
  <2> QED
    BY <1>4, <2>2, HistoryList
<1>13. SiVd(g.S[g.t]).d = d
  BY DEF SiVd
<1>14. seen.against = Below(d, n)
  <2> HIDE DEF d
  <2>1. n = 0 => Below(d, n) = {}
    BY <1>12, NoLineYet
  <2> QED
    BY <1>8, <2>1
<1>15. /\ p.words \subseteq Words(d) /\ p.last \in BOOLEAN
       /\ p.last => seen'.against = Words(d)
       /\ ~p.last => seen'.against = Below(d, n + 1)
  <2>1. CASE d.size = 0
    <3>1. c = FillerCmd(SiVd(g.S[g.t]))
      BY <1>13, <2>1 DEF SiCmd
    <3>2. c.size = 0 /\ c.end_of_burst = TRUE
      BY <3>1 DEF FillerCmd
    <3> HIDE DEF c, d
    <3>3. p.words = {} /\ p.last = TRUE
      BY <1>11, <3>2
    <3>4. Words(d) = {}
      BY <1>12, <2>1 DEF Words, DescSet
    <3>5. seen'.against = {}
      BY <1>3, <1>14, <3>3, <3>4 DEF Below
    <3> QED
      BY <3>3, <3>4, <3>5
  <2>2. CASE d.size # 0
    <3> DEFINE vd == SiVd(g.S[g.t])
    <3>1. c = BurstCmd(vd, n)
      BY <1>13, <2>2 DEF SiCmd
    <3>2. vd.d = d
      BY <1>13
    <3> HIDE DEF c, d, vd
    <3>3. /\ Unmasked(c) \subseteq Words(d)
          /\ Below(d, n + 1) = Below(d, n) \union Unmasked(c)
          /\ c.end_of_burst => Below(d, n + 1) = Words(d)
          /\ c.size = 1 /\ c.end_of_burst \in BOOLEAN
      BY <1>12, <3>1, <3>2, LineOfList
    <3>4. p.words = Unmasked(c)
      BY <1>11, <3>3
    <3>5. seen'.against = Below(d, n + 1)
      BY <1>3, <1>14, <3>3, <3>4
    <3> QED
      BY <1>11, <3>3, <3>4, <3>5
  <2> QED
    BY <2>1, <2>2
<1>16. PICK h \in GhostSet :
         /\ h.U = g.U /\ h.y1 = g.y1 + 1 /\ h.y2 = g.y2 /\ h.y3 = g.y3 /\ h.yc = g.yc
         /\ SameSteps(g, h) /\ SameFront(g, h) /\ SameSta(g, h)
         /\ SameSi(g, h) /\ SameStaLines(g, h) /\ SameOut(g, h)
  <2> PICK x \in Nat : x = g.y1 + 1
    BY <1>4
  <2> DEFINE h == [g EXCEPT !.y1 = x]
  <2>1. h \in GhostSet
    BY ZenonT(60) DEF GhostSet
  <2>2. /\ h.U = g.U /\ h.y1 = x /\ h.y2 = g.y2 /\ h.y3 = g.y3 /\ h.yc = g.yc
        /\ SameSteps(g, h) /\ SameFront(g, h) /\ SameSta(g, h)
        /\ SameSi(g, h) /\ SameStaLines(g, h) /\ SameOut(g, h)
    BY DEF GhostSet, SameSteps, SameFront, SameSta, SameSi, SameStaLines, SameOut
  <2> QED
    BY <2>1, <2>2
<1>17. SiLines(h)'
  <2>1. \A y \in h.y1 .. g.y3 - 1 : y \in g.y1 .. g.y3 - 1
    BY <1>4, <1>16
  <2>2. \A y \in h.y1 .. g.y3 - 1 :
           /\ g.U[y + 1] = Behind(g.U[y], SiCmd(g.S[g.U[y].l], g.U[y].n).end_of_burst)
           /\ g.U[y].l < g.B[g.d]
    BY <1>5, <2>1
  <2> QED
    BY <1>2, <1>5, <1>6, <1>16, <2>2 DEF SiLines, SameSteps, SameFront, SameSi
<1> HIDE DEF c
<1>18. SeenPrev(h)'
  <2>1. CASE p.last
    <3>1. g.U[g.y1 + 1] = [l |-> g.t + 1, n |-> 0]
      BY <1>8, <1>9, <1>11, <2>1 DEF Behind
    <3>2. seen'.prev_end /\ seen'.against = Words(d)
      BY <1>3, <1>15, <2>1
    <3> QED
      BY <1>9, <1>16, <3>1, <3>2 DEF SeenPrev, SameSteps, SameFront, SameOut
  <2>2. CASE ~p.last
    <3>1. g.U[g.y1 + 1] = [l |-> g.t, n |-> n + 1]
      BY <1>8, <1>9, <1>11, <2>2 DEF Behind
    <3>2. ~seen'.prev_end /\ seen'.against = Below(d, n + 1)
      BY <1>3, <1>15, <2>2
    <3>3. n + 1 # 0
      OBVIOUS
    <3> QED
      BY <1>9, <1>16, <3>1, <3>2, <3>3 DEF SeenPrev, SameSteps, SameFront, SameOut
  <2> QED
    BY <2>1, <2>2
<1>19. SeenCurr(h)'
  BY <1>3, <1>16 DEF Parts, SeenCurr, SameSteps, SameSta, SameOut
<1>20. SiStops(h)'
  BY <1>2, <1>16 DEF Parts, SiStops, SameSteps, SameFront, SameSi
<1>21. StaLines(h)'
  BY <1>2, <1>3, <1>16 DEF Parts, StaLines, SameSteps, SameSta, SameStaLines, SameOut
<1>22. /\ Bounds(h)' /\ Numbering(h)' /\ Flags(h)' /\ Asked(h)' /\ Masked(h)' /\ Updated(h)'
       /\ Sampled(h)' /\ StaStops(h)'
  BY <1>2, <1>16, KeepBounds, KeepNumbering, KeepFlags, KeepAsked, KeepMasked, KeepUpdated,
     KeepSampled, KeepStops DEF Parts, SameSteps, SameFront, SameSta, SameOut
<1>23. Rest'
  <2>1. Words(d) \subseteq Nat
    <3> HIDE DEF d
    <3> QED
      BY <1>12 DEF Words, DescSet
  <2>2. seen.against \union p.words \in SUBSET Nat
    BY <1>15, <2>1 DEF Rest
  <2>3. seen' \in [selected: Int, id: Ids, flag: BOOLEAN,
                     previous: SUBSET (Vertices \union {Dead}), against: SUBSET Nat,
                     curr_end: BOOLEAN, prev_end: BOOLEAN]
    BY <1>1, <1>15, <2>2 DEF Rest
  <2> QED
    BY <1>2, <2>3 DEF Rest
<1> QED
  BY <1>16, <1>17, <1>18, <1>19, <1>20, <1>21, <1>22, <1>23 DEF PairInv, Parts

\* The list that is sampled is of a step that waits for its answer.
LEMMA ListOfStep ==
  ASSUME NEW g \in GhostSet, Parts(g), NEW l \in Nat, g.B[g.b] <= l, l < g.B[g.s]
  PROVE  g.S[l].a \in g.b .. g.s - 1 /\ l < g.B[g.e]
<1>1. g.b \in Nat /\ g.s \in Nat /\ g.e \in Nat /\ g.B \in [Nat -> Nat]
  BY GhostFields
<1>2. FirstId \in Nat /\ FirstId <= g.b /\ g.b <= g.s /\ g.s <= g.e
  <2>1. /\ FirstId \in Nat /\ FirstId <= g.r /\ g.r <= g.b /\ g.b <= g.s /\ g.s <= g.d
        /\ g.d <= g.e /\ g.r \in Nat /\ g.d \in Nat
    BY Order, GhostFields
  <2> QED
    BY <1>1, <2>1
<1>3. g.B[g.s] \in Nat /\ g.B[g.e] \in Nat /\ g.B[g.s] <= g.B[g.e]
  BY <1>1, <1>2, ListsBefore
<1>4. l < g.B[g.e]
  BY <1>3
<1>5. /\ g.S[l].a \in Nat /\ FirstId <= g.S[l].a /\ g.S[l].a < g.e
      /\ g.B[g.S[l].a] = l /\ g.B[g.S[l].a + 1] = l + 1
  BY <1>4, HistoryList
<1> PICK a \in Nat : a = g.S[l].a
  BY <1>5
<1>6. a < g.s
  <2> SUFFICES ASSUME g.s <= a PROVE FALSE
    BY <1>1
  <2>1. g.B[g.s] <= g.B[a]
    BY <1>1, <1>2, <1>5, ListsBefore
  <2> QED
    BY <1>3, <1>5, <2>1
<1>7. g.b <= a
  <2> SUFFICES ASSUME a + 1 <= g.b PROVE FALSE
    BY <1>1
  <2> PICK c \in Nat : c = a + 1
    OBVIOUS
  <2>1. FirstId <= c /\ c <= g.b /\ g.b <= g.e
    BY <1>1, <1>2, <1>5
  <2>2. g.B[c] <= g.B[g.b] /\ g.B[g.b] \in Nat
    BY <1>1, <2>1, ListsBefore
  <2> QED
    BY <1>5, <2>2
<1> QED
  BY <1>1, <1>4, <1>6, <1>7

\* sample answers a step it has seen both lists of.
LEMMA SampleStep ==
  ASSUME Rest, NEW g \in GhostSet, Parts(g), Sample
  PROVE  PairInv'
<1> DEFINE p == [id |-> seen.id, last |-> seen.flag,
                 to |-> [word |-> seen.selected, previous |-> seen.previous,
                         against |-> seen.against]]
<1>1. /\ seen.curr_end /\ seen.prev_end
      /\ next_vertex' = Append(next_vertex, p) /\ seen' = NothingSeen
  BY DEF Sample
<1>2. UNCHANGED <<asked, half, query, assert_in, vl_run, vds, last_pkg, current, last, sta_stop,
                  sync_id, update, assert_mask, sta_vd, filtered, sta_line, sta_cmd, assert_out,
                  sta_run, sta_out, si_vd, si_line, si_cmd, si_run, si_out, update_id,
                  answer, pending>>
  BY DEF Sample, dupVars, loaderVars, staVars, staCmdVars, siVars
<1>3. /\ g.b \in Nat /\ g.s \in Nat /\ g.t \in Nat /\ g.x1 \in Nat /\ g.y1 \in Nat
      /\ g.B \in [Nat -> Nat] /\ g.S \in [Nat -> ListSet]
  BY GhostFields
<1> DEFINE x == g.S[g.t]
<1>4. /\ g.t < g.B[g.s] /\ seen.previous = {x.step.prev}
      /\ seen.selected \in Words(DescOf(x.step.curr))
      /\ seen.id = x.a % IdMod /\ seen.flag = FALSE
  BY <1>1 DEF Parts, SeenCurr, Rest
<1>5. /\ g.U[g.y1].l = g.t + 1 /\ g.U[g.y1].n = 0
      /\ seen.against = Words(DescOf(x.step.prev))
  BY <1>1 DEF Parts, SeenPrev
<1>6. g.B[g.b] <= g.t /\ g.B[g.b] \in Nat
  BY <1>3 DEF Parts, Bounds
<1>7. x.a \in g.b .. g.s - 1 /\ g.t < g.B[g.e]
  BY <1>3, <1>4, <1>6, ListOfStep
<1>8. DescOf(x.step.curr).size # 0
  BY <1>3, <1>7, HistoryList
<1> HIDE DEF x
<1>9. p \in SampledPkg(x)
  <2>1. p.to \in Answers(x.step)
    BY <1>4, <1>5, <1>8 DEF Answers
  <2>2. p.id = x.a % IdMod /\ p.last = FALSE
    BY <1>4
  <2>3. p = [id |-> p.id, last |-> p.last, to |-> p.to]
    OBVIOUS
  <2> PICK u \in Answers(x.step) : u = p.to
    BY <2>1
  <2> HIDE DEF p
  <2>4. p = [id |-> x.a % IdMod, last |-> FALSE, to |-> u]
    BY <2>2, <2>3, Zenon
  <2> QED
    BY <2>4 DEF SampledPkg
<1> HIDE DEF p
<1>10. PICK h \in GhostSet :
         /\ h.b = g.b /\ h.t = g.t + 1 /\ h.W = g.W
         /\ SameSteps(g, h) /\ SameFront(g, h) /\ SameSta(g, h)
         /\ SameSi(g, h) /\ SameStaLines(g, h) /\ SameSiLines(g, h)
  <2> PICK u \in Nat : u = g.t + 1
    BY <1>3
  <2> DEFINE h == [g EXCEPT !.t = u]
  <2>1. h \in GhostSet
    BY ZenonT(60) DEF GhostSet
  <2>2. /\ h.b = g.b /\ h.t = u /\ h.W = g.W
        /\ SameSteps(g, h) /\ SameFront(g, h) /\ SameSta(g, h)
        /\ SameSi(g, h) /\ SameStaLines(g, h) /\ SameSiLines(g, h)
    BY DEF GhostSet, SameSteps, SameFront, SameSta, SameSi, SameStaLines, SameSiLines
  <2> QED
    BY <2>1, <2>2
<1>11. /\ ~seen'.curr_end /\ ~seen'.prev_end /\ seen'.against = {} /\ ~seen'.flag
       /\ seen'.previous = {} /\ seen'.selected = Dead /\ seen'.id = 0
  BY <1>1 DEF NothingSeen
<1>12. StaLines(h)'
  <2>1. g.F[g.x1].l = g.t + 1
    BY <1>1 DEF Parts, StaLines
  <2> QED
    BY <1>2, <1>10, <1>11, <2>1 DEF Parts, StaLines, SameSteps, SameSta, SameStaLines
<1>13. SeenPrev(h)'
  BY <1>5, <1>10, <1>11 DEF SeenPrev, SameSteps, SameFront, SameSiLines
<1>14. SeenCurr(h)'
  BY <1>10, <1>11 DEF SeenCurr
<1>15. Sampled(h)'
  <2>1. /\ IsSeq(next_vertex) /\ Len(next_vertex) = g.t - g.B[g.b]
        /\ \A l \in g.B[g.b] .. g.t - 1 :
             /\ g.S[l].a \in g.b .. g.s - 1
             /\ next_vertex[l - g.B[g.b] + 1] \in SampledPkg(g.S[l])
    BY DEF Parts, Sampled
  <2>2. /\ IsSeq(next_vertex') /\ Len(next_vertex') = Len(next_vertex) + 1
        /\ next_vertex'[Len(next_vertex) + 1] = p
        /\ \A n \in 1 .. Len(next_vertex) : next_vertex'[n] = next_vertex[n]
    BY <1>1, <2>1, PushIsSeq
  <2> PICK u \in Nat : u = g.B[g.b]
    BY <1>6
  <2> PICK y \in Nat : y = g.t
    BY <1>3
  <2> PICK n \in Nat : n = Len(next_vertex)
    BY <2>2
  <2>3. n = y - u /\ u <= y
    BY <1>6, <2>1
  <2>4. ASSUME NEW l \in u .. y
        PROVE  /\ g.S[l].a \in g.b .. g.s - 1
               /\ next_vertex'[l - g.B[g.b] + 1] \in SampledPkg(g.S[l])
    <3>1. CASE l = g.t
      <4>1. l - u + 1 = n + 1
        BY <2>3, <3>1
      <4> QED
        BY <1>7, <1>9, <2>2, <3>1, <4>1 DEF x
    <3>2. CASE l # g.t
      <4>1. l \in u .. y - 1 /\ l - u + 1 \in 1 .. n
        BY <2>3, <3>2
      <4> QED
        BY <2>1, <2>2, <4>1
    <3> QED
      BY <3>1, <3>2
  <2>5. n + 1 = (y + 1) - u /\ u .. (y + 1) - 1 = u .. y
    <3>1. (y + 1) - 1 = y
      OBVIOUS
    <3>2. n + 1 = (y + 1) - u
      BY <2>3
    <3> QED
      BY <3>1, <3>2
  <2>6. Len(next_vertex') = (g.t + 1) - u /\ u .. (g.t + 1) - 1 = u .. g.t
    BY <2>2, <2>5
  <2> QED
    BY <1>10, <2>2, <2>4, <2>6 DEF Sampled, SameSteps, SameSta
<1>16. Bounds(h)'
  <2>1. g.B[g.b] <= g.t + 1
    BY <1>3, <1>6
  <2> QED
    BY <1>2, <1>10, <2>1 DEF Parts, Bounds, SameSteps, SameFront, SameSta
<1>17. /\ Numbering(h)' /\ Flags(h)' /\ Asked(h)' /\ Masked(h)' /\ Updated(h)'
       /\ SiLines(h)' /\ StaStops(h)' /\ SiStops(h)'
  BY <1>2, <1>10, KeepNumbering, KeepFlags, KeepAsked, KeepMasked, KeepUpdated,
     KeepSiLines, KeepStops DEF Parts, SameSteps, SameFront, SameSta
<1>18. Rest'
  <2>1. NothingSeen \in [selected: Int, id: Ids, flag: BOOLEAN,
                     previous: SUBSET (Vertices \union {Dead}), against: SUBSET Nat,
                     curr_end: BOOLEAN, prev_end: BOOLEAN]
    <3>1. Dead \in Int
      BY DEF Dead
    <3>2. 0 \in Ids
      BY PairIdAssumption DEF Ids
    <3> HIDE DEF Ids, Vertices
    <3> QED
      BY <3>1, <3>2 DEF NothingSeen
  <2> QED
    BY <1>1, <1>2, <2>1 DEF Rest
<1> QED
  BY <1>10, <1>12, <1>13, <1>14, <1>15, <1>16, <1>17, <1>18 DEF PairInv, Parts

\* No list is sampled before it has been asked for.
LEMMA SampledLists ==
  ASSUME NEW g \in GhostSet, Parts(g)
  PROVE  g.t \in Nat /\ g.B[g.s] \in Nat /\ g.t <= g.B[g.s]
<1>1. g.x1 \in Nat /\ g.x2 \in Nat /\ g.x3 \in Nat /\ g.t \in Nat
  BY GhostFields
<1>2. /\ g.F[g.x3].l = g.k /\ g.x1 <= g.x2 /\ g.x2 <= g.x3
      /\ g.k <= g.B[g.s] /\ g.B[g.s] \in Nat
  BY StaPlaces
<1>3. g.F[g.x1].l <= g.B[g.s]
  <2>1. CASE g.x1 = g.x3
    BY <1>2, <2>1
  <2>2. CASE g.x1 # g.x3
    <3>1. g.x1 \in g.x1 .. g.x3 - 1
      BY <1>1, <1>2, <2>2
    <3>2. g.F[g.x1].l < g.B[g.s]
      BY <3>1 DEF Parts, StaLines
    <3>3. g.F[g.x1].l \in Nat
      BY <1>1, GhostFields DEF PlaceSet
    <3> QED
      BY <1>2, <3>2, <3>3
  <2> QED
    BY <2>1, <2>2
<1>4. g.F[g.x1].l = g.t \/ g.F[g.x1].l = g.t + 1
  BY DEF Parts, StaLines
<1> QED
  BY <1>1, <1>2, <1>3, <1>4

\* The packet that is in its turn in update is the answer to the oldest step.
LEMMA UpdateAnswer ==
  ASSUME NEW g \in GhostSet, Parts(g), UpdateTurn(update)
  PROVE  /\ g.W # <<>> /\ g.W[1] = g.b /\ g.b < g.s /\ ~Sized(g.H[g.b])
         /\ IsSeq(update) /\ update # <<>>
         /\ Head(update) = [id |-> g.b % IdMod, to |-> NoVertex, last |-> g.H[g.b].last]
<1>1. g.b \in Nat /\ g.s \in Nat /\ g.d \in Nat /\ g.e \in Nat /\ g.W \in Seq(Nat)
  BY GhostFields
<1>2. /\ IsSeq(update) /\ update # <<>> /\ Len(update) = Len(g.W)
      /\ \A n \in 1 .. Len(g.W) :
           /\ g.W[n] \in g.b .. g.s - 1 /\ ~Sized(g.H[g.W[n]])
           /\ update[n] = [id |-> g.W[n] % IdMod, to |-> NoVertex, last |-> g.H[g.W[n]].last]
  BY DEF Parts, Updated, UpdateTurn
<1>3. Len(update) \in Nat /\ Len(update) >= 1 /\ Head(update) = update[1]
  BY <1>2, PopIsSeq
<1>4. 1 \in 1 .. Len(g.W)
  BY <1>2, <1>3
<1>5. /\ g.W[1] \in g.b .. g.s - 1 /\ ~Sized(g.H[g.W[1]])
      /\ Head(update) = [id |-> g.W[1] % IdMod, to |-> NoVertex, last |-> g.H[g.W[1]].last]
  BY <1>2, <1>3, <1>4
<1> PICK a \in Nat : a = g.W[1]
  BY <1>1, <1>5
<1>6. a % IdMod = g.b % IdMod
  <2>1. Head(update).id = update_id
    BY DEF UpdateTurn
  <2>2. update_id = g.b % IdMod
    BY DEF Parts, Bounds
  <2> QED
    BY <1>5, <2>1, <2>2
<1>7. g.b <= a /\ a < g.b + IdMod
  <2>1. g.s <= g.d /\ g.d <= g.e /\ g.e - g.b <= MaxInFlight
    BY DEF Parts, Bounds
  <2>2. g.b <= a /\ a < g.s
    BY <1>1, <1>5
  <2>3. MaxInFlight \in Nat /\ IdMod \in Nat /\ MaxInFlight <= IdMod
    BY PairIdAssumption
  <2>4. g.b \in Nat /\ g.s \in Nat /\ g.d \in Nat /\ g.e \in Nat
    BY GhostFields
  <2> QED
    BY <2>1, <2>2, <2>3, <2>4
<1>8. a = g.b
  BY <1>1, <1>6, <1>7, SameNumber
<1>9. g.W # <<>>
  BY <1>1, <1>2, <1>3
<1> QED
  BY <1>1, <1>2, <1>5, <1>8, <1>9

\* So is the packet that is in its turn in next_vertex.
LEMMA SampledAnswer ==
  ASSUME NEW g \in GhostSet, Parts(g), UpdateTurn(next_vertex)
  PROVE  /\ g.b < g.s /\ g.B[g.b] < g.t /\ Sized(g.H[g.b])
         /\ IsSeq(next_vertex) /\ next_vertex # <<>>
         /\ Head(next_vertex).to \in Answers(g.H[g.b].vertex)
         /\ Head(next_vertex).last = FALSE
<1>1. /\ g.b \in Nat /\ g.s \in Nat /\ g.d \in Nat /\ g.e \in Nat /\ g.t \in Nat
      /\ g.B \in [Nat -> Nat]
  BY GhostFields
<1> PICK u \in Nat : u = g.B[g.b]
  BY <1>1
<1>2. /\ IsSeq(next_vertex) /\ next_vertex # <<>> /\ Len(next_vertex) = g.t - u
      /\ \A l \in u .. g.t - 1 :
           /\ g.S[l].a \in g.b .. g.s - 1
           /\ next_vertex[l - u + 1] \in SampledPkg(g.S[l])
  BY DEF Parts, Sampled, UpdateTurn
<1>3. /\ Len(next_vertex) \in Nat /\ Len(next_vertex) >= 1
      /\ Head(next_vertex) = next_vertex[1]
  BY <1>2, PopIsSeq
<1>4. u < g.t
  <2> PICK n \in Nat : n = Len(next_vertex)
    BY <1>3
  <2>1. n = g.t - u /\ n >= 1
    BY <1>2, <1>3
  <2> QED
    BY <1>1, <2>1
<1>5. g.S[u].a \in g.b .. g.s - 1 /\ Head(next_vertex) \in SampledPkg(g.S[u])
  <2>1. u \in u .. g.t - 1 /\ u - u + 1 = 1
    BY <1>1, <1>4
  <2> QED
    BY <1>2, <1>3, <2>1
<1>6. u < g.B[g.e]
  <2>1. g.t <= g.B[g.s] /\ g.B[g.s] \in Nat
    BY SampledLists
  <2>2. u < g.B[g.s]
    BY <1>1, <1>4, <2>1
  <2> QED
    BY <2>2, ListOfStep
<1>7. Sized(g.H[g.S[u].a]) /\ g.S[u].step = g.H[g.S[u].a].vertex
  BY <1>6, HistoryList
<1> PICK a \in Nat : a = g.S[u].a
  BY <1>1, <1>5
<1>8. /\ Head(next_vertex).id = a % IdMod /\ Head(next_vertex).last = FALSE
      /\ Head(next_vertex).to \in Answers(g.S[u].step)
  BY <1>5 DEF SampledPkg
<1>9. a % IdMod = g.b % IdMod
  <2>1. Head(next_vertex).id = update_id
    BY DEF UpdateTurn
  <2>2. update_id = g.b % IdMod
    BY DEF Parts, Bounds
  <2> QED
    BY <1>8, <2>1, <2>2
<1>10. g.b <= a /\ a < g.b + IdMod
  <2>1. g.s <= g.d /\ g.d <= g.e /\ g.e - g.b <= MaxInFlight
    BY DEF Parts, Bounds
  <2>2. g.b <= a /\ a < g.s
    BY <1>1, <1>5
  <2>3. MaxInFlight \in Nat /\ IdMod \in Nat /\ MaxInFlight <= IdMod
    BY PairIdAssumption
  <2> QED
    BY <1>1, <2>1, <2>2, <2>3
<1>11. a = g.b
  BY <1>1, <1>9, <1>10, SameNumber
<1>12. g.b < g.s
  <2>1. a < g.s
    BY <1>1, <1>5
  <2> QED
    BY <1>11, <2>1
<1>13. g.S[u].a = g.b
  BY <1>11
<1>14. Sized(g.H[g.b]) /\ g.S[u].step = g.H[g.b].vertex
  BY <1>7, <1>13, Zenon
<1>15. Head(next_vertex).to \in Answers(g.H[g.b].vertex) /\ Head(next_vertex).last = FALSE
  BY <1>8, <1>14, Zenon
<1>16. g.B[g.b] < g.t
  BY <1>4
<1> QED
  BY <1>2, <1>12, <1>14, <1>15, <1>16, Zenon

\* A step that waits and is not the oldest one.
LEMMA NotOldest ==
  ASSUME NEW b \in Nat, NEW s \in Nat, NEW a \in b .. s - 1, a # b
  PROVE  a \in b + 1 .. s - 1
OBVIOUS

\* The two alternatives of sta_update_merge, and what they have in common.
AnswerUpdate  == Give(update) /\ update' = Tail(update) /\ UNCHANGED next_vertex
AnswerSampled == Give(next_vertex) /\ next_vertex' = Tail(next_vertex) /\ UNCHANGED update

Answered ==
    /\ update_id' = Succ(update_id) /\ pending' = Tail(pending)
    /\ UNCHANGED <<asked, half, query, assert_in, vl_run, vds, last_pkg, current, last, sta_stop,
                   sync_id, assert_mask, sta_vd, filtered, sta_line, sta_cmd, assert_out,
                   sta_run, sta_out, si_vd, si_line, si_cmd, si_run, si_out, seen>>

\* A step is answered: what sta_update_merge does whatever stream it reads.
LEMMA AnswerKeeps ==
  ASSUME Rest, NEW g \in GhostSet, Parts(g), NEW h \in GhostSet,
         h.b = g.b + 1, h.t = g.t, SameSteps(g, h), SameFront(g, h), SameSta(g, h),
         SameSi(g, h), SameStaLines(g, h), SameSiLines(g, h),
         g.b < g.s, g.B[g.b + 1] <= g.t,
         Answered
  PROVE  /\ Bounds(h)' /\ Numbering(h)' /\ Flags(h)' /\ Asked(h)' /\ Masked(h)'
         /\ StaLines(h)' /\ SiLines(h)' /\ SeenPrev(h)' /\ SeenCurr(h)'
         /\ StaStops(h)' /\ SiStops(h)' /\ Rest'
<1>1. /\ g.r \in Nat /\ g.b \in Nat /\ g.s \in Nat /\ g.d \in Nat /\ g.e \in Nat
      /\ g.t \in Nat /\ g.B \in [Nat -> Nat]
  BY GhostFields
<1>2. /\ g.r <= g.b /\ g.b <= g.s /\ g.s <= g.d /\ g.d <= g.e
      /\ g.e - g.b <= MaxInFlight
  BY DEF Parts, Bounds
<1>3. MaxInFlight \in Nat
  BY PairIdAssumption
<1>4. /\ g.r <= g.b + 1 /\ g.b + 1 <= g.s /\ g.e - (g.b + 1) <= MaxInFlight
  BY <1>1, <1>2, <1>3
<1>5. update_id' = (g.b + 1) % IdMod
  <2>1. update_id = g.b % IdMod
    BY DEF Parts, Bounds
  <2>2. Succ(g.b % IdMod) = (g.b + 1) % IdMod
    BY <1>1, NextNumber
  <2> QED
    BY <2>1, <2>2 DEF Answered
<1>6. Bounds(h)'
  BY <1>4, <1>5 DEF Answered, Parts, Bounds, SameSteps, SameFront, SameSta
<1>7. Holds(pending', g.H, g.b + 1, g.e, 0, None)
  <2>1. Holds(pending, g.H, g.b, g.e, 0, None)
    BY DEF Parts, Asked
  <2>2. pending # <<>>
    <3>1. g.b < g.e
      BY <1>1, <1>2
    <3>2. g.b # g.e
      BY <1>1, <3>1
    <3>3. g.b \in Nat /\ g.e \in Nat
      BY <1>1
    <3> QED
      BY <2>1, <3>2, <3>3, StreamEmpty
  <2>3. Holds(Tail(pending), g.H, g.b + 1, g.e, 0, None)
    BY <1>1, <2>1, <2>2, StreamPop
  <2> QED
    BY <2>3 DEF Answered
<1>8. Asked(h)'
  BY <1>7 DEF Answered, Parts, Asked, SameSteps, SameFront, SameSta
<1>9. /\ Numbering(h)' /\ Flags(h)' /\ Masked(h)' /\ StaLines(h)' /\ SiLines(h)'
      /\ SeenPrev(h)' /\ SeenCurr(h)' /\ StaStops(h)' /\ SiStops(h)'
  BY KeepNumbering, KeepFlags, KeepMasked, KeepStaLines, KeepSiLines, KeepSeen,
     KeepStops DEF Answered, Parts, SameSteps, SameFront, SameSta, SameSiLines
<1>10. Rest'
  BY DEF Answered, Rest
<1> QED
  BY <1>6, <1>8, <1>9, <1>10

\* The oldest step has no list: its answer is in update.
LEMMA AnswerUpdateStep ==
  ASSUME Rest, NEW g \in GhostSet, Parts(g), AnswerUpdate
  PROVE  PairInv'
<1>1. UpdateTurn(update) /\ Answered
  BY DEF AnswerUpdate, Answered, Give, dupVars, loaderVars, staCmdVars, siVars
<1>2. /\ g.b \in Nat /\ g.s \in Nat /\ g.d \in Nat /\ g.e \in Nat /\ g.t \in Nat
      /\ g.B \in [Nat -> Nat]
  BY GhostFields
<1>3. /\ g.W # <<>> /\ g.W[1] = g.b /\ g.b < g.s /\ ~Sized(g.H[g.b])
      /\ IsSeq(update) /\ update # <<>>
  BY <1>1, UpdateAnswer
<1>4. g.B[g.b + 1] = g.B[g.b] /\ g.B[g.b] <= g.t
  <2>1. FirstId <= g.b /\ g.b < g.e
    <3>1. FirstId \in Nat /\ FirstId <= g.r /\ g.r <= g.b /\ g.s <= g.d /\ g.d <= g.e /\ g.r \in Nat
      BY Order, GhostFields
    <3>2. g.b < g.s
      BY <1>3
    <3> QED
      BY <1>2, <3>1, <3>2
  <2>2. g.B[g.b + 1] = g.B[g.b]
    BY <1>2, <1>3, <2>1, HistoryStep
  <2> QED
    BY <2>2 DEF Parts, Bounds
<1> DEFINE V == Tail(g.W)
<1>5. /\ V \in Seq(Nat) /\ Len(g.W) \in Nat /\ Len(g.W) >= 1 /\ Len(V) = Len(g.W) - 1
      /\ \A n \in 1 .. Len(g.W) - 1 : V[n] = g.W[n + 1]
  <2>1. g.W \in Seq(Nat) /\ g.W # <<>>
    BY <1>3, GhostFields
  <2>2. Len(g.W) \in Nat
    BY <2>1
  <2> QED
    BY <2>1, <2>2, PopElements
<1> HIDE DEF V
<1>6. PICK h \in GhostSet :
        /\ h.b = g.b + 1 /\ h.t = g.t /\ h.W = V
        /\ SameSteps(g, h) /\ SameFront(g, h) /\ SameSta(g, h)
        /\ SameSi(g, h) /\ SameStaLines(g, h) /\ SameSiLines(g, h)
  <2> PICK u \in Nat : u = g.b + 1
    BY <1>2
  <2> DEFINE h == [g EXCEPT !.b = u, !.W = V]
  <2>1. h \in GhostSet
    <3>1. V \in Seq(Nat)
      BY <1>5
    <3> QED
      BY <3>1, ZenonT(60) DEF GhostSet
  <2>2. /\ h.b = u /\ h.t = g.t /\ h.W = V
        /\ SameSteps(g, h) /\ SameFront(g, h) /\ SameSta(g, h)
        /\ SameSi(g, h) /\ SameStaLines(g, h) /\ SameSiLines(g, h)
    BY DEF GhostSet, SameSteps, SameFront, SameSta, SameSi, SameStaLines, SameSiLines
  <2> QED
    BY <2>1, <2>2
<1>7. /\ Bounds(h)' /\ Numbering(h)' /\ Flags(h)' /\ Asked(h)' /\ Masked(h)'
      /\ StaLines(h)' /\ SiLines(h)' /\ SeenPrev(h)' /\ SeenCurr(h)'
      /\ StaStops(h)' /\ SiStops(h)' /\ Rest'
  <2>1. g.B[g.b + 1] <= g.t
    BY <1>4
  <2> QED
    BY <1>1, <1>3, <1>6, <2>1, AnswerKeeps
<1>8. Updated(h)'
  <2>1. /\ IsSeq(update) /\ Len(update) = Len(g.W)
        /\ \A n \in 1 .. Len(g.W) :
             /\ g.W[n] \in g.b .. g.s - 1 /\ ~Sized(g.H[g.W[n]])
             /\ update[n] = [id |-> g.W[n] % IdMod, to |-> NoVertex, last |-> g.H[g.W[n]].last]
        /\ \A n, p \in 1 .. Len(g.W) : n < p => g.W[n] < g.W[p]
    BY DEF Parts, Updated
  <2>2. /\ IsSeq(update') /\ Len(update') = Len(update) - 1
        /\ \A n \in 1 .. Len(update) - 1 : update'[n] = update[n + 1]
    BY <1>3, PopIsSeq DEF AnswerUpdate
  <2>3. ASSUME NEW n \in 1 .. Len(V)
        PROVE  /\ V[n] \in g.b + 1 .. g.s - 1 /\ ~Sized(g.H[V[n]])
               /\ update'[n] = [id |-> V[n] % IdMod, to |-> NoVertex, last |-> g.H[V[n]].last]
    <3>1. n + 1 \in 1 .. Len(g.W) /\ n \in 1 .. Len(g.W) - 1 /\ 1 \in 1 .. Len(g.W) /\ 1 < n + 1
      BY <1>5
    <3>2. V[n] = g.W[n + 1] /\ update'[n] = update[n + 1]
      BY <1>5, <2>1, <2>2, <3>1
    <3>3. g.b < g.W[n + 1]
      BY <1>3, <2>1, <3>1
    <3>4. /\ g.W[n + 1] \in g.b .. g.s - 1 /\ ~Sized(g.H[g.W[n + 1]])
          /\ update[n + 1] = [id |-> g.W[n + 1] % IdMod, to |-> NoVertex,
                              last |-> g.H[g.W[n + 1]].last]
      BY <2>1, <3>1
    <3>5. g.W[n + 1] \in g.b + 1 .. g.s - 1
      <4>1. g.W[n + 1] \in g.b .. g.s - 1 /\ g.W[n + 1] # g.b
        BY <1>2, <3>3, <3>4
      <4> QED
        BY <1>2, <4>1, NotOldest
    <3> QED
      BY <3>2, <3>4, <3>5
  <2>4. ASSUME NEW n \in 1 .. Len(V), NEW p \in 1 .. Len(V), n < p
        PROVE  V[n] < V[p]
    <3>1. /\ n \in 1 .. Len(g.W) - 1 /\ p \in 1 .. Len(g.W) - 1
          /\ n + 1 \in 1 .. Len(g.W) /\ p + 1 \in 1 .. Len(g.W) /\ n + 1 < p + 1
      BY <1>5, <2>4, SMTT(30)
    <3> QED
      BY <1>5, <2>1, <3>1
  <2>5. Len(update') = Len(V)
    BY <1>5, <2>1, <2>2
  <2> QED
    BY <1>6, <2>2, <2>3, <2>4, <2>5 DEF Updated, SameSteps, SameSta
<1>9. Sampled(h)'
  <2>1. /\ IsSeq(next_vertex) /\ Len(next_vertex) = g.t - g.B[g.b]
        /\ \A l \in g.B[g.b] .. g.t - 1 :
             /\ g.S[l].a \in g.b .. g.s - 1
             /\ next_vertex[l - g.B[g.b] + 1] \in SampledPkg(g.S[l])
    BY DEF Parts, Sampled
  <2>2. ASSUME NEW l \in g.B[g.b] .. g.t - 1
        PROVE  g.S[l].a \in g.b + 1 .. g.s - 1
    <3>1. g.S[l].a \in g.b .. g.s - 1
      BY <2>1
    <3>2. g.S[l].a # g.b
      <4>1. l \in Nat /\ g.B[g.b] <= l /\ l < g.B[g.s]
        BY <1>2, <2>2, SampledLists
      <4>2. l < g.B[g.e]
        BY <4>1, ListOfStep
      <4>3. Sized(g.H[g.S[l].a])
        BY <4>1, <4>2, HistoryList
      <4> QED
        BY <1>3, <4>3
    <3> QED
      BY <1>2, <3>1, <3>2
  <2> QED
    BY <1>4, <1>6, <2>1, <2>2 DEF AnswerUpdate, Sampled, SameSteps, SameSta
<1> QED
  BY <1>6, <1>7, <1>8, <1>9 DEF PairInv, Parts

\* The oldest step has been sampled.
LEMMA AnswerSampledStep ==
  ASSUME Rest, NEW g \in GhostSet, Parts(g), AnswerSampled
  PROVE  PairInv'
<1>1. UpdateTurn(next_vertex) /\ Answered
  BY DEF AnswerSampled, Answered, Give, dupVars, loaderVars, staCmdVars, siVars
<1>2. /\ g.b \in Nat /\ g.s \in Nat /\ g.d \in Nat /\ g.e \in Nat /\ g.t \in Nat
      /\ g.B \in [Nat -> Nat]
  BY GhostFields
<1>3. /\ g.b < g.s /\ g.B[g.b] < g.t /\ Sized(g.H[g.b])
      /\ IsSeq(next_vertex) /\ next_vertex # <<>>
  BY <1>1, SampledAnswer
<1>4. g.B[g.b + 1] = g.B[g.b] + 1
  <2>1. FirstId <= g.b /\ g.b < g.e
    <3>1. FirstId \in Nat /\ FirstId <= g.r /\ g.r <= g.b /\ g.s <= g.d /\ g.d <= g.e /\ g.r \in Nat
      BY Order, GhostFields
    <3>2. g.b < g.s
      BY <1>3
    <3> QED
      BY <1>2, <3>1, <3>2
  <2> QED
    BY <1>2, <1>3, <2>1, HistoryStep
<1>5. PICK h \in GhostSet :
        /\ h.b = g.b + 1 /\ h.t = g.t /\ h.W = g.W
        /\ SameSteps(g, h) /\ SameFront(g, h) /\ SameSta(g, h)
        /\ SameSi(g, h) /\ SameStaLines(g, h) /\ SameSiLines(g, h)
  <2> PICK u \in Nat : u = g.b + 1
    BY <1>2
  <2> DEFINE h == [g EXCEPT !.b = u]
  <2>1. h \in GhostSet
    BY ZenonT(60) DEF GhostSet
  <2>2. /\ h.b = u /\ h.t = g.t /\ h.W = g.W
        /\ SameSteps(g, h) /\ SameFront(g, h) /\ SameSta(g, h)
        /\ SameSi(g, h) /\ SameStaLines(g, h) /\ SameSiLines(g, h)
    BY DEF GhostSet, SameSteps, SameFront, SameSta, SameSi, SameStaLines, SameSiLines
  <2> QED
    BY <2>1, <2>2
<1>6. /\ Bounds(h)' /\ Numbering(h)' /\ Flags(h)' /\ Asked(h)' /\ Masked(h)'
      /\ StaLines(h)' /\ SiLines(h)' /\ SeenPrev(h)' /\ SeenCurr(h)'
      /\ StaStops(h)' /\ SiStops(h)' /\ Rest'
  <2>1. g.B[g.b + 1] <= g.t
    <3>1. g.B[g.b] < g.t
      BY <1>3
    <3> QED
      BY <1>2, <1>4, <3>1
  <2> QED
    BY <1>1, <1>3, <1>5, <2>1, AnswerKeeps
<1>7. Updated(h)'
  <2>1. /\ IsSeq(update) /\ Len(update) = Len(g.W)
        /\ \A n \in 1 .. Len(g.W) :
             /\ g.W[n] \in g.b .. g.s - 1 /\ ~Sized(g.H[g.W[n]])
             /\ update[n] = [id |-> g.W[n] % IdMod, to |-> NoVertex, last |-> g.H[g.W[n]].last]
        /\ \A n, p \in 1 .. Len(g.W) : n < p => g.W[n] < g.W[p]
    BY DEF Parts, Updated
  <2>2. ASSUME NEW n \in 1 .. Len(g.W) PROVE g.W[n] \in g.b + 1 .. g.s - 1
    <3>1. g.W[n] \in g.b .. g.s - 1 /\ g.W[n] # g.b
      BY <1>3, <2>1
    <3> QED
      BY <1>2, <3>1, NotOldest
  <2> QED
    BY <1>5, <2>1, <2>2 DEF AnswerSampled, Updated, SameSteps, SameSta
<1>8. Sampled(h)'
  <2> PICK u \in Nat : u = g.B[g.b]
    BY <1>2
  <2> PICK y \in Nat : y = g.t
    BY <1>2
  <2>1. /\ IsSeq(next_vertex) /\ Len(next_vertex) = y - u
        /\ \A l \in u .. y - 1 :
             /\ g.S[l].a \in g.b .. g.s - 1
             /\ next_vertex[l - u + 1] \in SampledPkg(g.S[l])
    BY DEF Parts, Sampled
  <2>2. /\ IsSeq(next_vertex') /\ Len(next_vertex') = Len(next_vertex) - 1
        /\ \A n \in 1 .. Len(next_vertex) - 1 : next_vertex'[n] = next_vertex[n + 1]
    BY <1>3, PopIsSeq DEF AnswerSampled
  <2>3. ASSUME NEW l \in u + 1 .. y - 1
        PROVE  /\ g.S[l].a \in g.b + 1 .. g.s - 1
               /\ next_vertex'[l - (u + 1) + 1] \in SampledPkg(g.S[l])
    <3>1. l \in u .. y - 1 /\ l # u
      BY <2>3
    <3>2. g.S[l].a \in g.b .. g.s - 1 /\ next_vertex[l - u + 1] \in SampledPkg(g.S[l])
      BY <2>1, <3>1
    <3>3. g.S[l].a # g.b
      <4>1. l \in Nat /\ g.B[g.b] <= l /\ l < g.B[g.s]
        BY <3>1, SampledLists
      <4>2. l < g.B[g.e]
        BY <4>1, ListOfStep
      <4>3. g.B[g.S[l].a] = l
        BY <4>1, <4>2, HistoryList
      <4> QED
        BY <3>1, <4>3
    <3>4. g.S[l].a \in g.b + 1 .. g.s - 1
      BY <1>2, <3>2, <3>3
    <3> PICK n \in Nat : n = l - (u + 1) + 1
      BY <2>3
    <3>5. n \in 1 .. (y - u) - 1 /\ n + 1 = l - u + 1
      BY <2>3
    <3>6. next_vertex'[n] = next_vertex[n + 1]
      BY <2>1, <2>2, <3>5
    <3> QED
      BY <3>2, <3>4, <3>5, <3>6
  <2>4. Len(next_vertex') = y - (u + 1)
    <3>1. Len(next_vertex') = (y - u) - 1
      BY <2>1, <2>2
    <3> QED
      BY <3>1
  <2> QED
    BY <1>4, <1>5, <2>2, <2>3, <2>4 DEF Sampled, SameSteps, SameSta
<1> QED
  BY <1>5, <1>6, <1>7, <1>8 DEF PairInv, Parts

\* What a run leaves behind: every step is answered and no stop packet is left.
LEMMA RunOverEnds ==
  ASSUME NEW g \in GhostSet, Parts(g), RunOver
  PROVE  /\ g.b = g.e /\ g.s = g.e /\ g.d = g.e /\ g.m = g.e
         /\ ~sta_stop /\ g.zm = 0 /\ g.zf = 0 /\ g.zv = 0 /\ g.zc = 0
         /\ g.yl = 0 /\ g.yv = 0 /\ g.yc = 0
<1>1. /\ g.r \in Nat /\ g.b \in Nat /\ g.m \in Nat /\ g.s \in Nat /\ g.d \in Nat /\ g.e \in Nat
      /\ g.zm \in Bit /\ g.zf \in Bit /\ g.zv \in Bit /\ g.zc \in Bit
      /\ g.yl \in Bit /\ g.yv \in Bit /\ g.yc \in Bit
  BY GhostFields
<1>2. ~vl_run /\ ~sta_run /\ ~si_run /\ pending = <<>>
  BY DEF RunOver
<1>3. g.b = g.e
  <2>1. Holds(pending, g.H, g.b, g.e, 0, None)
    BY DEF Parts, Asked
  <2> QED
    BY <1>1, <1>2, <2>1, StreamEmpty
<1>4. g.b <= g.s /\ g.s <= g.d /\ g.d <= g.e
  BY DEF Parts, Bounds
<1>5. g.s = g.e /\ g.d = g.e
  BY <1>1, <1>3, <1>4
<1>6. /\ g.m = g.s /\ ~sta_stop /\ g.zv # 1 /\ g.zc # 1 /\ g.zm + g.zf = g.zv
  BY <1>2 DEF Parts, StaStops
<1>7. g.zv = 0 /\ g.zc = 0 /\ g.zm = 0 /\ g.zf = 0
  BY <1>1, <1>6 DEF Bit
<1>8. g.yl # 1 /\ g.yv # 1 /\ g.yc # 1
  BY <1>2 DEF Parts, SiStops
<1>9. g.yl = 0 /\ g.yv = 0 /\ g.yc = 0
  BY <1>1, <1>8 DEF Bit
<1> QED
  BY <1>3, <1>5, <1>6, <1>7, <1>9

\* The host starts the next run.
LEMMA RestartStep ==
  ASSUME Rest, NEW g \in GhostSet, Parts(g), Restart
  PROVE  PairInv'
<1>1. /\ vl_run' = TRUE /\ sta_run' = TRUE /\ si_run' = TRUE
      /\ UNCHANGED <<asked, half, query, assert_in, vds, last_pkg, current, last, sta_stop,
                     sync_id, update, assert_mask, sta_vd, filtered, sta_line, sta_cmd, assert_out,
                     sta_out, si_vd, si_line, si_cmd, si_out, seen, next_vertex, update_id,
                     answer, pending>>
  BY DEF Restart, dupVars, staVars, outVars
<1>2. /\ g.b = g.e /\ g.s = g.e /\ g.d = g.e /\ g.m = g.e
      /\ ~sta_stop /\ g.zm = 0 /\ g.zf = 0 /\ g.zv = 0 /\ g.zc = 0
      /\ g.yl = 0 /\ g.yv = 0 /\ g.yc = 0
  BY RunOverEnds DEF Restart
<1>3. g.e \in Nat
  BY GhostFields
<1>4. PICK h \in GhostSet :
        /\ h.H = g.H /\ h.B = g.B /\ h.S = g.S /\ h.r = g.e /\ h.e = g.e
        /\ SameFront(g, h) /\ SameSta(g, h) /\ SameSi(g, h)
        /\ SameStaLines(g, h) /\ SameSiLines(g, h) /\ SameOut(g, h)
  <2> DEFINE h == [g EXCEPT !.r = g.e]
  <2>1. h \in GhostSet
    BY <1>3 DEF GhostSet
  <2>2. /\ h.H = g.H /\ h.B = g.B /\ h.S = g.S /\ h.r = g.e /\ h.e = g.e
        /\ SameFront(g, h) /\ SameSta(g, h) /\ SameSi(g, h)
        /\ SameStaLines(g, h) /\ SameSiLines(g, h) /\ SameOut(g, h)
    BY DEF GhostSet, SameFront, SameSta, SameSi, SameStaLines, SameSiLines, SameOut
  <2> QED
    BY <2>1, <2>2
<1>5. Bounds(h)'
  <2>1. FirstId <= g.e
    <3>1. FirstId \in Nat /\ FirstId <= g.r /\ g.r <= g.b /\ g.r \in Nat
      BY Order, GhostFields
    <3> QED
      BY <1>2, <1>3, <3>1
  <2>2. g.e <= g.e
    BY <1>3
  <2> QED
    BY <1>1, <1>2, <1>4, <2>1, <2>2 DEF Parts, Bounds, SameFront, SameSta, SameOut
<1>6. Flags(h)'
  <2>1. ~(g.e < g.e) /\ g.e .. g.e - 1 = {}
    BY <1>3
  <2> QED
    BY <1>1, <1>4, <2>1 DEF Flags
<1>7. Numbering(h)'
  BY <1>4 DEF Parts, Numbering
<1>8. Asked(h)'
  BY <1>1, <1>4 DEF Parts, Asked, SameFront, SameSta, SameOut
<1>9. Masked(h)' /\ Updated(h)'
  BY <1>1, <1>4 DEF Parts, Masked, Updated, SameSta, SameOut
<1>10. StaLines(h)'
  BY <1>1, <1>4 DEF Parts, StaLines, SameSta, SameStaLines, SameOut
<1>11. SiLines(h)'
  BY <1>1, <1>4 DEF Parts, SiLines, SameFront, SameSi, SameSiLines
<1>12. SeenPrev(h)' /\ SeenCurr(h)'
  BY <1>1, <1>4 DEF Parts, SeenPrev, SeenCurr, SameFront, SameSta, SameSiLines, SameOut
<1>13. Sampled(h)'
  BY <1>1, <1>4 DEF Parts, Sampled, SameSta, SameOut
<1>14. StaStops(h)'
  BY <1>1, <1>2, <1>4 DEF StaStops, SameSta, SameStaLines
<1>15. SiStops(h)'
  BY <1>1, <1>2, <1>4 DEF SiStops, SameSi, SameSiLines
<1>16. Rest'
  BY <1>1 DEF Rest
<1> QED
  BY <1>4, <1>5, <1>6, <1>7, <1>8, <1>9, <1>10, <1>11, <1>12, <1>13, <1>14, <1>15, <1>16
     DEF PairInv, Parts

\* At first nothing has been asked for.
LEMMA PairInitially ==
  ASSUME Init
  PROVE  PairInv
<1>1. FirstId \in Nat /\ MaxInFlight \in Nat /\ FirstId \in Ids
  BY PairIdAssumption DEF Ids
<1>2. FirstId % IdMod = FirstId
  BY PairIdAssumption
<1> PICK n \in Nat : n = 2 * FirstId
  BY <1>1
<1> PICK z \in Bit : z = 0
  BY DEF Bit
<1> DEFINE pkg == [vertex |-> [curr |-> Dead, prev |-> Dead], last |-> FALSE]
           H == [a \in Nat |-> pkg]
           B == [a \in Nat |-> 0]
           S == [l \in Nat |-> [a |-> 0, step |-> pkg.vertex]]
           F == [x \in Nat |-> [l |-> 0, n |-> 0]]
<1>3. /\ H \in [Nat -> PendingPkg] /\ B \in [Nat -> Nat] /\ S \in [Nat -> ListSet]
      /\ F \in [Nat -> PlaceSet]
  <2>1. pkg.vertex \in StepSet /\ pkg \in PendingPkg
    BY DEF PendingPkg, StepSet
  <2> HIDE DEF pkg
  <2> QED
    BY <2>1 DEF ListSet, PlaceSet
<1>4. /\ B[FirstId] = 0 /\ F[0].l = 0 /\ F[0].n = 0 /\ F[0] = [l |-> 0, n |-> 0]
      /\ \A a \in Nat : B[a] = 0
  BY <1>1
<1> HIDE DEF H, B, S, F
<1> DEFINE g == [H |-> H, B |-> B, S |-> S, r |-> FirstId, b |-> FirstId, e |-> FirstId,
                 m |-> FirstId, s |-> FirstId, d |-> FirstId, v |-> n, q |-> n, t |-> 0,
                 k |-> 0, j |-> 0, i |-> 0, zm |-> z, zf |-> z, zv |-> z, zc |-> z,
                 yl |-> z, yv |-> z, yc |-> z, F |-> F, U |-> F, x1 |-> 0, x2 |-> 0, x3 |-> 0,
                 y1 |-> 0, y2 |-> 0, y3 |-> 0, W |-> <<>>]
<1>5. g \in GhostSet
  <2>1. <<>> \in Seq(Nat)
    OBVIOUS
  <2> QED
    BY <1>1, <1>3, <2>1 DEF GhostSet
<1>6. /\ g.H = H /\ g.B = B /\ g.S = S /\ g.r = FirstId /\ g.b = FirstId /\ g.e = FirstId
      /\ g.m = FirstId /\ g.s = FirstId /\ g.d = FirstId /\ g.v = n /\ g.q = n /\ g.t = 0
      /\ g.k = 0 /\ g.j = 0 /\ g.i = 0 /\ g.zm = 0 /\ g.zf = 0 /\ g.zv = 0 /\ g.zc = 0
      /\ g.yl = 0 /\ g.yv = 0 /\ g.yc = 0 /\ g.F = F /\ g.U = F
      /\ g.x1 = 0 /\ g.x2 = 0 /\ g.x3 = 0 /\ g.y1 = 0 /\ g.y2 = 0 /\ g.y3 = 0 /\ g.W = <<>>
  OBVIOUS
<1> HIDE DEF g
<1>7. \A f, stop : \A x \in Nat : Holds(<<>>, f, x, x, 0, stop)
  BY NoneHeld
<1>8. /\ asked = 0 /\ half = <<>> /\ query = <<>> /\ assert_in = <<>>
      /\ vl_run = TRUE /\ vds = <<>> /\ last_pkg = <<>>
      /\ current = <<>> /\ last = <<>>
      /\ sta_stop = FALSE /\ sync_id = FirstId /\ update = <<>>
      /\ assert_mask = <<>> /\ sta_vd = <<>> /\ filtered = <<>>
      /\ sta_line = 0 /\ sta_cmd = <<>> /\ assert_out = <<>>
      /\ sta_run = TRUE /\ sta_out = <<>>
      /\ si_vd = <<>> /\ si_line = 0 /\ si_cmd = <<>> /\ si_run = TRUE /\ si_out = <<>>
      /\ seen = NothingSeen /\ next_vertex = <<>> /\ update_id = FirstId /\ pending = <<>>
  BY DEF Init
<1>9. Len(<<>>) = 0 /\ IsSeq(<<>>)
  BY EmptyIsSeq
<1>10. 0 .. 0 - 1 = {} /\ FirstId .. FirstId - 1 = {} /\ 1 .. 0 = {}
  BY <1>1
<1>11. Bounds(g)
  <2>1. FirstId <= FirstId /\ FirstId - FirstId <= MaxInFlight
    BY <1>1
  <2> QED
    BY <1>2, <1>4, <1>6, <1>8, <2>1 DEF Bounds
<1>12. Numbering(g)
  <2>1. \A a \in FirstId .. FirstId : B[a] = 0
    BY <1>1, <1>4
  <2>2. 0 <= 0
    OBVIOUS
  <2> QED
    BY <1>4, <1>6, <1>10, <2>1, <2>2 DEF Numbering
<1>13. Flags(g)
  <2>1. ~(FirstId < FirstId)
    BY <1>1
  <2> QED
    BY <1>6, <1>8, <1>10, <2>1 DEF Flags
<1>14. Asked(g)
  <2>1. 2 * g.e - Len(half) = n /\ 2 * g.e = n /\ 2 * g.d = n
    BY <1>1, <1>6, <1>8, <1>9
  <2>2. Len(half) <= 1
    BY <1>8, <1>9
  <2> QED
    BY <1>1, <1>6, <1>7, <1>8, <2>1, <2>2 DEF Asked
<1>15. Masked(g)
  BY <1>1, <1>4, <1>6, <1>7, <1>8 DEF Masked
<1>16. Updated(g)
  BY <1>6, <1>8, <1>9, <1>10 DEF Updated
<1>17. /\ ~seen.curr_end /\ ~seen.prev_end /\ seen.against = {} /\ ~seen.flag
       /\ seen.previous = {} /\ seen.selected = Dead /\ seen.id = 0
  BY <1>8 DEF NothingSeen
<1>18. StaLines(g)
  BY <1>4, <1>6, <1>7, <1>8, <1>10, <1>17 DEF StaLines
<1>19. SiLines(g)
  BY <1>4, <1>6, <1>7, <1>8, <1>10 DEF SiLines
<1>20. SeenPrev(g)
  BY <1>4, <1>6, <1>17 DEF SeenPrev
<1>21. SeenCurr(g)
  BY <1>17 DEF SeenCurr
<1>22. Sampled(g)
  <2>1. 0 - 0 = 0
    OBVIOUS
  <2> QED
    BY <1>4, <1>6, <1>8, <1>9, <1>10, <2>1 DEF Sampled
<1>23. StaStops(g) /\ SiStops(g)
  BY <1>6, <1>8 DEF StaStops, SiStops
<1>24. Rest
  <2>1. asked \in 0 .. MaxReq
    BY <1>8, PairDepthAssumption
  <2>2. NothingSeen \in [selected: Int, id: Ids, flag: BOOLEAN,
                     previous: SUBSET (Vertices \union {Dead}), against: SUBSET Nat,
                     curr_end: BOOLEAN, prev_end: BOOLEAN]
    <3>1. Dead \in Int
      BY DEF Dead
    <3>2. 0 \in Ids
      BY PairIdAssumption DEF Ids
    <3> HIDE DEF Ids, Vertices
    <3> QED
      BY <3>1, <3>2 DEF NothingSeen
  <2> QED
    BY <1>8, <2>1, <2>2 DEF Rest
<1> QED
  BY <1>5, <1>11, <1>12, <1>13, <1>14, <1>15, <1>16, <1>18, <1>19, <1>20, <1>21, <1>22,
     <1>23, <1>24 DEF PairInv, Parts

-----------------------------------------------------------------------------
(* A step is asked for: the history grows                                   *)

\* f and h are the same up to n
Agree(f, h, n) == \A a \in Nat : a < n => h[a] = f[a]

\* The packets of the steps before e stay what they are.
LEMMA StepsStay ==
  ASSUME NEW H, NEW K, NEW e \in Nat, Agree(H, K, e),
         NEW s, NEW x \in Nat, NEW y \in Nat, NEW z \in Bit, NEW stop
  PROVE  /\ y <= 2 * e /\ Holds(s, QueryOf(H), x, y, z, stop)
              => Holds(s, QueryOf(K), x, y, z, stop)
         /\ y <= 2 * e /\ Holds(s, VdsOf(H), x, y, z, stop) => Holds(s, VdsOf(K), x, y, z, stop)
         /\ y <= e /\ Holds(s, H, x, y, z, stop) => Holds(s, K, x, y, z, stop)
         /\ y <= e /\ Holds(s, CurrentOf(H), x, y, z, stop)
              => Holds(s, CurrentOf(K), x, y, z, stop)
         /\ y <= e /\ Holds(s, AssertOf(H), x, y, z, stop)
              => Holds(s, AssertOf(K), x, y, z, stop)
         /\ y <= e /\ Holds(s, MaskOf(H), x, y, z, stop)
              => Holds(s, MaskOf(K), x, y, z, stop)
<1>1. ASSUME NEW c \in Nat, c < 2 * e
      PROVE  QueryOf(K)[c] = QueryOf(H)[c] /\ VdsOf(K)[c] = VdsOf(H)[c]
  <2> PICK a \in Nat : c = 2 * a \/ c = 2 * a + 1
    BY EvenOrOdd
  <2>1. a < e
    BY <1>1
  <2>2. K[a] = H[a]
    BY <2>1 DEF Agree
  <2>3. /\ QueryOf(H)[2 * a] = [v |-> H[a].vertex.curr, last |-> FALSE]
        /\ QueryOf(H)[2 * a + 1] = [v |-> H[a].vertex.prev, last |-> H[a].last]
        /\ VdsOf(H)[2 * a] = [d |-> DescOf(H[a].vertex.curr), last |-> FALSE]
        /\ VdsOf(H)[2 * a + 1] = [d |-> DescOf(H[a].vertex.prev), last |-> H[a].last]
    BY QueryPair
  <2>4. /\ QueryOf(K)[2 * a] = [v |-> K[a].vertex.curr, last |-> FALSE]
        /\ QueryOf(K)[2 * a + 1] = [v |-> K[a].vertex.prev, last |-> K[a].last]
        /\ VdsOf(K)[2 * a] = [d |-> DescOf(K[a].vertex.curr), last |-> FALSE]
        /\ VdsOf(K)[2 * a + 1] = [d |-> DescOf(K[a].vertex.prev), last |-> K[a].last]
    BY QueryPair
  <2>5. /\ QueryOf(K)[2 * a] = QueryOf(H)[2 * a]
        /\ QueryOf(K)[2 * a + 1] = QueryOf(H)[2 * a + 1]
        /\ VdsOf(K)[2 * a] = VdsOf(H)[2 * a]
        /\ VdsOf(K)[2 * a + 1] = VdsOf(H)[2 * a + 1]
    BY <2>2, <2>3, <2>4, Zenon
  <2> QED
    BY <2>5, Zenon
<1>2. ASSUME NEW a \in Nat, a < e
      PROVE  /\ K[a] = H[a] /\ CurrentOf(K)[a] = CurrentOf(H)[a]
             /\ AssertOf(K)[a] = AssertOf(H)[a] /\ MaskOf(K)[a] = MaskOf(H)[a]
  <2>1. K[a] = H[a]
    BY <1>2 DEF Agree
  <2> QED
    BY <2>1 DEF CurrentOf, AssertOf, MaskOf, Sized
<1>3. ASSUME y <= 2 * e
      PROVE  \A c \in x .. y - 1 : c \in Nat /\ c < 2 * e
  BY <1>3
<1>4. ASSUME y <= e
      PROVE  \A c \in x .. y - 1 : c \in Nat /\ c < e
  BY <1>4
<1>5. ASSUME y <= 2 * e, Holds(s, QueryOf(H), x, y, z, stop)
      PROVE  Holds(s, QueryOf(K), x, y, z, stop)
  <2>1. \A c \in x .. y - 1 : QueryOf(K)[c] = QueryOf(H)[c]
    BY <1>1, <1>3, <1>5
  <2> QED
    BY <1>5, <2>1, HoldsSame
<1>6. ASSUME y <= 2 * e, Holds(s, VdsOf(H), x, y, z, stop)
      PROVE  Holds(s, VdsOf(K), x, y, z, stop)
  <2>1. \A c \in x .. y - 1 : VdsOf(K)[c] = VdsOf(H)[c]
    BY <1>1, <1>3, <1>6
  <2> QED
    BY <1>6, <2>1, HoldsSame
<1>7. ASSUME y <= e, Holds(s, H, x, y, z, stop)
      PROVE  Holds(s, K, x, y, z, stop)
  <2>1. \A c \in x .. y - 1 : K[c] = H[c]
    BY <1>2, <1>4, <1>7
  <2> QED
    BY <1>7, <2>1, HoldsSame
<1>8. ASSUME y <= e, Holds(s, CurrentOf(H), x, y, z, stop)
      PROVE  Holds(s, CurrentOf(K), x, y, z, stop)
  <2>1. \A c \in x .. y - 1 : CurrentOf(K)[c] = CurrentOf(H)[c]
    BY <1>2, <1>4, <1>8
  <2> QED
    BY <1>8, <2>1, HoldsSame
<1>9. ASSUME y <= e, Holds(s, AssertOf(H), x, y, z, stop)
      PROVE  Holds(s, AssertOf(K), x, y, z, stop)
  <2>1. \A c \in x .. y - 1 : AssertOf(K)[c] = AssertOf(H)[c]
    BY <1>2, <1>4, <1>9
  <2> QED
    BY <1>9, <2>1, HoldsSame
<1>10. ASSUME y <= e, Holds(s, MaskOf(H), x, y, z, stop)
       PROVE  Holds(s, MaskOf(K), x, y, z, stop)
  <2>1. \A c \in x .. y - 1 : MaskOf(K)[c] = MaskOf(H)[c]
    BY <1>2, <1>4, <1>10
  <2> QED
    BY <1>10, <2>1, HoldsSame
<1> QED
  BY <1>5, <1>6, <1>7, <1>8, <1>9, <1>10

\* So do the packets of the lists there were.
LEMMA ListsStay ==
  ASSUME NEW S, NEW T, NEW u \in Nat, Agree(S, T, u),
         NEW s, NEW x \in Nat, NEW y \in Nat, y <= u, NEW z \in Bit, NEW stop
  PROVE  /\ Holds(s, StaVdOf(S), x, y, z, stop) => Holds(s, StaVdOf(T), x, y, z, stop)
         /\ Holds(s, FilteredOf(S), x, y, z, stop) => Holds(s, FilteredOf(T), x, y, z, stop)
         /\ Holds(s, LastOf(S), x, y, z, stop) => Holds(s, LastOf(T), x, y, z, stop)
         /\ Holds(s, SiVdOf(S), x, y, z, stop) => Holds(s, SiVdOf(T), x, y, z, stop)
<1>1. ASSUME NEW l \in x .. y - 1
      PROVE  /\ StaVdOf(T)[l] = StaVdOf(S)[l] /\ FilteredOf(T)[l] = FilteredOf(S)[l]
             /\ LastOf(T)[l] = LastOf(S)[l] /\ SiVdOf(T)[l] = SiVdOf(S)[l]
  <2>1. l \in Nat /\ l < u
    OBVIOUS
  <2>2. T[l] = S[l]
    BY <2>1 DEF Agree
  <2> QED
    BY <2>1, <2>2 DEF StaVdOf, FilteredOf, LastOf, SiVdOf
<1>2. Holds(s, StaVdOf(S), x, y, z, stop) => Holds(s, StaVdOf(T), x, y, z, stop)
  BY <1>1, HoldsSame
<1>3. Holds(s, FilteredOf(S), x, y, z, stop) => Holds(s, FilteredOf(T), x, y, z, stop)
  BY <1>1, HoldsSame
<1>4. Holds(s, LastOf(S), x, y, z, stop) => Holds(s, LastOf(T), x, y, z, stop)
  BY <1>1, HoldsSame
<1>5. Holds(s, SiVdOf(S), x, y, z, stop) => Holds(s, SiVdOf(T), x, y, z, stop)
  BY <1>1, HoldsSame
<1> QED
  BY <1>2, <1>3, <1>4, <1>5

\* And so do their lines.
LEMMA ListLinesStay ==
  ASSUME NEW S, NEW T, NEW F, NEW s, NEW x \in Nat, NEW y \in Nat, NEW z \in Bit, NEW stop,
         \A c \in x .. y - 1 : T[F[c].l] = S[F[c].l]
  PROVE  /\ Holds(s, StaCmdOf(S, F), x, y, z, stop) => Holds(s, StaCmdOf(T, F), x, y, z, stop)
         /\ Holds(s, StaOutOf(S, F), x, y, z, stop) => Holds(s, StaOutOf(T, F), x, y, z, stop)
         /\ Holds(s, AssertsOf(S, F), x, y, z, stop) => Holds(s, AssertsOf(T, F), x, y, z, stop)
         /\ Holds(s, SiCmdOf(S, F), x, y, z, stop) => Holds(s, SiCmdOf(T, F), x, y, z, stop)
         /\ Holds(s, SiOutOf(S, F), x, y, z, stop) => Holds(s, SiOutOf(T, F), x, y, z, stop)
<1>1. ASSUME NEW c \in x .. y - 1
      PROVE  /\ StaCmdOf(T, F)[c] = StaCmdOf(S, F)[c] /\ StaOutOf(T, F)[c] = StaOutOf(S, F)[c]
             /\ AssertsOf(T, F)[c] = AssertsOf(S, F)[c] /\ SiCmdOf(T, F)[c] = SiCmdOf(S, F)[c]
             /\ SiOutOf(T, F)[c] = SiOutOf(S, F)[c]
  <2>1. c \in Nat
    OBVIOUS
  <2>2. T[F[c].l] = S[F[c].l]
    OBVIOUS
  <2> QED
    BY <2>1, <2>2 DEF StaCmdOf, StaOutOf, AssertsOf, SiCmdOf, SiOutOf
<1>2. Holds(s, StaCmdOf(S, F), x, y, z, stop) => Holds(s, StaCmdOf(T, F), x, y, z, stop)
  BY <1>1, HoldsSame
<1>3. Holds(s, StaOutOf(S, F), x, y, z, stop) => Holds(s, StaOutOf(T, F), x, y, z, stop)
  BY <1>1, HoldsSame
<1>4. Holds(s, AssertsOf(S, F), x, y, z, stop) => Holds(s, AssertsOf(T, F), x, y, z, stop)
  BY <1>1, HoldsSame
<1>5. Holds(s, SiCmdOf(S, F), x, y, z, stop) => Holds(s, SiCmdOf(T, F), x, y, z, stop)
  BY <1>1, HoldsSame
<1>6. Holds(s, SiOutOf(S, F), x, y, z, stop) => Holds(s, SiOutOf(T, F), x, y, z, stop)
  BY <1>1, HoldsSame
<1> QED
  BY <1>2, <1>3, <1>4, <1>5, <1>6

\* h is history g with the step p behind it.
Grown(g, h, p) ==
    /\ h.e = g.e + 1 /\ h.r = g.r
    /\ h.H[g.e] = p /\ \A a \in Nat : a < g.e => h.H[a] = g.H[a]
    /\ h.B[g.e + 1] = IF Sized(p) THEN g.B[g.e] + 1 ELSE g.B[g.e]
    /\ \A a \in Nat : a <= g.e => h.B[a] = g.B[a]
    /\ Sized(p) => h.S[g.B[g.e]] = [a |-> g.e, step |-> p.vertex]
    /\ \A l \in Nat : l < g.B[g.e] => h.S[l] = g.S[l]
    /\ SameFront(g, h) /\ SameSta(g, h) /\ SameSi(g, h) /\ SameStaLines(g, h)
    /\ SameSiLines(g, h) /\ SameOut(g, h)

\* There is such a history.
LEMMA HistoryGrows ==
  ASSUME NEW g \in GhostSet, NEW p \in PendingPkg
  PROVE  \E h \in GhostSet : Grown(g, h, p)
<1>1. /\ g.H \in [Nat -> PendingPkg] /\ g.B \in [Nat -> Nat] /\ g.S \in [Nat -> ListSet]
      /\ g.e \in Nat
  BY GhostFields
<1> PICK e \in Nat : e = g.e
  BY <1>1
<1> PICK x \in Nat : x = e + 1
  OBVIOUS
<1> PICK u \in Nat : u = g.B[e]
  BY <1>1
<1> PICK w \in Nat : w = IF Sized(p) THEN u + 1 ELSE u
  OBVIOUS
<1>2. p.vertex \in StepSet
  BY DEF PendingPkg
<1> PICK K \in [Nat -> PendingPkg] : K[e] = p /\ \A a \in Nat : a < e => K[a] = g.H[a]
  <2> DEFINE K == [g.H EXCEPT ![e] = p]
  <2>1. K \in [Nat -> PendingPkg] /\ K[e] = p /\ \A a \in Nat : a < e => K[a] = g.H[a]
    BY <1>1
  <2> QED
    BY <2>1
<1> PICK C \in [Nat -> Nat] : C[x] = w /\ \A a \in Nat : a <= e => C[a] = g.B[a]
  <2> DEFINE C == [g.B EXCEPT ![x] = w]
  <2>1. C \in [Nat -> Nat] /\ C[x] = w /\ \A a \in Nat : a <= e => C[a] = g.B[a]
    BY <1>1
  <2> QED
    BY <2>1
<1> PICK T \in [Nat -> ListSet] : /\ T[u] = [a |-> e, step |-> p.vertex]
                                  /\ \A l \in Nat : l < u => T[l] = g.S[l]
  <2> DEFINE T == [g.S EXCEPT ![u] = [a |-> e, step |-> p.vertex]]
  <2>1. [a |-> e, step |-> p.vertex] \in ListSet
    BY <1>2 DEF ListSet
  <2>2. /\ T \in [Nat -> ListSet] /\ T[u] = [a |-> e, step |-> p.vertex]
        /\ \A l \in Nat : l < u => T[l] = g.S[l]
    BY <1>1, <2>1
  <2> QED
    BY <2>2
<1> DEFINE h == [g EXCEPT !.H = K, !.B = C, !.S = T, !.e = x]
<1>3. h \in GhostSet
  BY ZenonT(60) DEF GhostSet
<1>4. h.H = K /\ h.B = C /\ h.S = T /\ h.e = x /\ h.r = g.r
  BY DEF GhostSet
<1>5. /\ SameFront(g, h) /\ SameSta(g, h) /\ SameSi(g, h) /\ SameStaLines(g, h)
      /\ SameSiLines(g, h) /\ SameOut(g, h)
  BY DEF GhostSet, SameFront, SameSta, SameSi, SameStaLines, SameSiLines, SameOut
<1> HIDE DEF h
<1>6. Grown(g, h, p)
  BY <1>4, <1>5 DEF Grown
<1> QED
  BY <1>3, <1>6

\* DuplicateCurr, for the step p.
Asks(p) ==
    /\ asked < MaxReq /\ half = <<>> /\ Len(pending) < MaxInFlight /\ vl_run
    /\ \A n \in 1 .. Len(pending) : ~pending[n].last
    /\ p.last => p.vertex.curr = Dead
    /\ pending' = Append(pending, p)
    /\ query' = Append(query, [v |-> p.vertex.curr, last |-> FALSE])
    /\ assert_in' = Append(assert_in, p.vertex.prev)
    /\ half' = <<[v |-> p.vertex.prev, last |-> p.last]>>
    /\ asked' = asked + 1
    /\ UNCHANGED <<vl_run, vds, last_pkg, current, last, sta_stop, sync_id, update, assert_mask,
                   sta_vd, filtered, sta_line, sta_cmd, assert_out, sta_run, sta_out, si_vd,
                   si_line, si_cmd, si_run, si_out, seen, next_vertex, update_id>>

\* Whatever step_duplicator takes is such a step.
LEMMA AsksStep ==
  ASSUME DuplicateCurr
  PROVE  \E p \in PendingPkg : p.vertex \in Steps /\ p.last \in BOOLEAN /\ Asks(p)
<1>1. PICK s \in Steps, l \in BOOLEAN :
         /\ l => s.curr = Dead
         /\ pending' = Append(pending, [vertex |-> s, last |-> l])
         /\ query' = Append(query, [v |-> s.curr, last |-> FALSE])
         /\ assert_in' = Append(assert_in, s.prev)
         /\ half' = <<[v |-> s.prev, last |-> l]>>
  BY DEF DuplicateCurr
<1> DEFINE p == [vertex |-> s, last |-> l]
<1>2. p.vertex = s /\ p.last = l
  BY Zenon
<1>3. p \in PendingPkg
  <2>1. s \in StepSet
    BY StepAssumption DEF StepSet
  <2> QED
    BY <2>1 DEF PendingPkg
<1>4. pending' = Append(pending, p)
  BY <1>1
<1> HIDE DEF p
<1>5. /\ p.last => p.vertex.curr = Dead
      /\ query' = Append(query, [v |-> p.vertex.curr, last |-> FALSE])
      /\ assert_in' = Append(assert_in, p.vertex.prev)
      /\ half' = <<[v |-> p.vertex.prev, last |-> p.last]>>
  BY <1>1, <1>2, Zenon
<1>6. /\ asked < MaxReq /\ half = <<>> /\ Len(pending) < MaxInFlight /\ vl_run
      /\ \A n \in 1 .. Len(pending) : ~pending[n].last
      /\ asked' = asked + 1
  BY DEF DuplicateCurr
<1>7. UNCHANGED <<vl_run, vds, last_pkg, current, last, sta_stop, sync_id, update, assert_mask,
                  sta_vd, filtered, sta_line, sta_cmd, assert_out, sta_run, sta_out, si_vd,
                  si_line, si_cmd, si_run, si_out, seen, next_vertex, update_id>>
  BY DEF DuplicateCurr, loaderVars, staVars, staCmdVars, siVars
<1>8. Asks(p)
  BY <1>4, <1>5, <1>6, <1>7, Zenon DEF Asks
<1> QED
  BY <1>2, <1>3, <1>8

\* The places the kernels have come to are in the old part of the history.
LEMMA OldPlaces ==
  ASSUME NEW g \in GhostSet, Parts(g), NEW p, NEW h, Grown(g, h, p)
  PROVE  /\ h.B[g.b] = g.B[g.b] /\ h.B[g.m] = g.B[g.m] /\ h.B[g.s] = g.B[g.s]
         /\ h.B[g.d] = g.B[g.d] /\ h.B[g.e] = g.B[g.e]
         /\ g.B[g.b] \in Nat /\ g.B[g.m] \in Nat /\ g.B[g.s] \in Nat /\ g.B[g.d] \in Nat
         /\ g.B[g.e] \in Nat
         /\ g.B[g.m] <= g.B[g.s] /\ g.B[g.s] <= g.B[g.d] /\ g.B[g.d] <= g.B[g.e]
         /\ g.B[g.b] <= g.B[g.s]
         /\ g.s <= g.e /\ g.m <= g.e /\ g.b <= g.e /\ g.b <= g.s /\ g.m <= g.s /\ FirstId <= g.e
<1>1. /\ g.r \in Nat /\ g.b \in Nat /\ g.m \in Nat /\ g.s \in Nat /\ g.d \in Nat /\ g.e \in Nat
  BY GhostFields
<1>2. /\ FirstId \in Nat /\ FirstId <= g.r /\ g.r <= g.b /\ g.b <= g.s /\ g.s <= g.d
      /\ g.d <= g.e /\ g.r <= g.m /\ g.m <= g.s
  BY Order
<1>3. /\ FirstId <= g.b /\ FirstId <= g.m /\ FirstId <= g.s /\ FirstId <= g.d /\ FirstId <= g.e
      /\ g.b <= g.e /\ g.m <= g.e /\ g.s <= g.e
  BY <1>1, <1>2
<1>4. /\ h.B[g.b] = g.B[g.b] /\ h.B[g.m] = g.B[g.m] /\ h.B[g.s] = g.B[g.s]
      /\ h.B[g.d] = g.B[g.d] /\ h.B[g.e] = g.B[g.e]
  <2>1. g.e <= g.e
    BY <1>1
  <2> QED
    BY <1>1, <1>2, <1>3, <2>1 DEF Grown
<1>5. g.B[g.m] \in Nat /\ g.B[g.s] \in Nat /\ g.B[g.m] <= g.B[g.s]
  BY <1>1, <1>2, <1>3, ListsBefore
<1>6. g.B[g.d] \in Nat /\ g.B[g.s] <= g.B[g.d]
  BY <1>1, <1>2, <1>3, ListsBefore
<1>7. g.B[g.e] \in Nat /\ g.B[g.d] <= g.B[g.e]
  <2>1. g.e <= g.e
    BY <1>1
  <2> QED
    BY <1>1, <1>2, <1>3, <2>1, ListsBefore
<1>8. g.B[g.b] \in Nat /\ g.B[g.b] <= g.B[g.s]
  BY <1>1, <1>2, <1>3, ListsBefore
<1> QED
  BY <1>2, <1>3, <1>4, <1>5, <1>6, <1>7, <1>8

\* There is room for one more step in flight.
LEMMA GrowBounds ==
  ASSUME NEW g \in GhostSet, Parts(g), NEW p \in PendingPkg, Asks(p),
         NEW h \in GhostSet, Grown(g, h, p)
  PROVE  Bounds(h)'
<1>1. g.b \in Nat /\ g.d \in Nat /\ g.e \in Nat
  BY GhostFields
<1>2. g.d <= g.e /\ g.e - g.b <= MaxInFlight
  BY DEF Parts, Bounds
<1>3. (g.e + 1) - g.b <= MaxInFlight
  <2>1. Holds(pending, g.H, g.b, g.e, 0, None)
    BY DEF Parts, Asked
  <2>2. Len(pending) = g.e - g.b
    BY <1>1, <2>1, StreamEmpty
  <2>3. Len(pending) < MaxInFlight
    BY DEF Asks
  <2>4. MaxInFlight \in Nat
    BY PairIdAssumption
  <2>5. g.e - g.b < MaxInFlight
    BY <2>2, <2>3
  <2> QED
    BY <1>1, <2>4, <2>5
<1>4. g.d <= g.e + 1
  BY <1>1, <1>2
<1>5. h.B[g.b] = g.B[g.b] /\ h.B[g.m] = g.B[g.m]
  BY OldPlaces
<1>6. UNCHANGED <<sync_id, update_id>>
  BY DEF Asks
<1>7. h.r = g.r /\ h.e = g.e + 1
  BY DEF Grown
<1>8. /\ h.b = g.b /\ h.s = g.s /\ h.d = g.d /\ h.m = g.m /\ h.t = g.t /\ h.k = g.k
  BY DEF Grown, SameFront, SameSta, SameOut
<1> QED
  BY <1>3, <1>4, <1>5, <1>6, <1>7, <1>8 DEF Parts, Bounds

\* A new step is numbered, and its list if it has one.
LEMMA GrowNumbering ==
  ASSUME NEW g \in GhostSet, Parts(g), NEW p \in PendingPkg, Asks(p),
         NEW h \in GhostSet, Grown(g, h, p)
  PROVE  Numbering(h)'
<1> PICK e \in Nat : e = g.e
  BY GhostFields
<1> PICK u \in Nat : u = g.B[e]
  BY GhostFields
<1>1. FirstId \in Nat /\ FirstId <= e
  BY OldPlaces, PairIdAssumption
<1>2. /\ h.e = e + 1 /\ h.H[e] = p /\ \A a \in Nat : a < e => h.H[a] = g.H[a]
      /\ h.B[e + 1] = IF Sized(p) THEN u + 1 ELSE u
      /\ \A a \in Nat : a <= e => h.B[a] = g.B[a]
      /\ Sized(p) => h.S[u] = [a |-> e, step |-> p.vertex]
      /\ \A l \in Nat : l < u => h.S[l] = g.S[l]
  BY DEF Grown
<1>3. h.B[e] = u /\ e <= e
  BY <1>2
<1>4. \A a \in Nat : FirstId <= a /\ a <= e => g.B[a] \in Nat /\ g.B[a] <= u
  BY <1>1, <1>3, ListsBefore
<1>5. p.last => ~Sized(p)
  <2>1. p.last => p.vertex.curr = Dead
    BY DEF Asks
  <2> QED
    BY <2>1 DEF Sized, DescOf
<1>6. ASSUME NEW a \in FirstId .. e
      PROVE  /\ h.B[a + 1] = IF Sized(h.H[a]) THEN h.B[a] + 1 ELSE h.B[a]
             /\ Sized(h.H[a]) => h.S[h.B[a]] = [a |-> a, step |-> h.H[a].vertex]
             /\ h.H[a].last => ~Sized(h.H[a])
  <2>1. CASE a = e
    BY <1>2, <1>3, <1>5, <2>1
  <2>2. CASE a # e
    <3>1. a \in Nat /\ FirstId <= a /\ a < e /\ a + 1 <= e /\ a + 1 \in Nat /\ FirstId <= a + 1
          /\ a \in FirstId .. e - 1 /\ a <= e
      BY <1>1, <2>2
    <3>2. h.H[a] = g.H[a] /\ h.B[a] = g.B[a] /\ h.B[a + 1] = g.B[a + 1]
      BY <1>2, <3>1
    <3>3. /\ g.B[a + 1] = IF Sized(g.H[a]) THEN g.B[a] + 1 ELSE g.B[a]
          /\ Sized(g.H[a]) => g.S[g.B[a]] = [a |-> a, step |-> g.H[a].vertex]
          /\ g.H[a].last => ~Sized(g.H[a])
      BY <3>1 DEF Parts, Numbering
    <3>4. ASSUME Sized(g.H[a]) PROVE h.S[g.B[a]] = g.S[g.B[a]]
      <4>1. g.B[a] \in Nat /\ g.B[a + 1] = g.B[a] + 1 /\ g.B[a + 1] <= u
        BY <1>4, <3>1, <3>3, <3>4
      <4>2. g.B[a] < u
        BY <4>1
      <4> QED
        BY <1>2, <4>1, <4>2
    <3> QED
      BY <3>2, <3>3, <3>4
  <2> QED
    BY <2>1, <2>2
<1> PICK w \in Nat : w = h.B[e + 1] /\ u <= w /\ (w = u \/ (Sized(p) /\ w = u + 1))
  <2>1. CASE Sized(p)
    BY <1>2, <2>1
  <2>2. CASE ~Sized(p)
    BY <1>2, <2>2
  <2> QED
    BY <2>1, <2>2
<1>7. ASSUME NEW a \in FirstId .. e + 1, NEW c \in FirstId .. e + 1, a <= c
      PROVE  h.B[a] <= h.B[c]
  <2>1. CASE c <= e
    <3>1. a \in Nat /\ c \in Nat /\ FirstId <= a /\ a <= e
      BY <1>1, <1>7, <2>1
    <3>2. g.B[a] <= g.B[c]
      BY <1>1, <1>7, <2>1, <3>1, ListsBefore
    <3> QED
      BY <1>2, <2>1, <3>1, <3>2
  <2>2. CASE c > e /\ a <= e
    <3>1. c = e + 1 /\ a \in Nat /\ FirstId <= a
      BY <1>1, <2>2
    <3>2. h.B[a] = g.B[a] /\ g.B[a] \in Nat /\ g.B[a] <= u
      BY <1>2, <1>4, <2>2, <3>1
    <3>3. h.B[c] = w
      BY <3>1
    <3>4. g.B[a] <= w
      BY <3>2
    <3> QED
      BY <3>2, <3>3, <3>4
  <2>3. CASE c > e /\ a > e
    <3>1. c = e + 1 /\ a = e + 1
      BY <1>1, <2>3
    <3>2. h.B[a] = w /\ h.B[c] = w
      BY <3>1
    <3> QED
      BY <3>2
  <2> QED
    BY <1>1, <2>1, <2>2, <2>3
<1>8. ASSUME NEW l \in 0 .. w - 1
      PROVE  /\ h.S[l].a \in FirstId .. e
             /\ Sized(h.H[h.S[l].a]) /\ h.B[h.S[l].a] = l
  <2>1. CASE l < u
    <3>1. l \in Nat /\ l < g.B[g.e]
      BY <2>1
    <3>2. /\ g.S[l].a \in Nat /\ FirstId <= g.S[l].a /\ g.S[l].a < g.e
          /\ Sized(g.H[g.S[l].a]) /\ g.B[g.S[l].a] = l
      BY <3>1, HistoryList
    <3>3. h.S[l] = g.S[l]
      BY <1>2, <2>1, <3>1
    <3> PICK a \in Nat : a = g.S[l].a
      BY <3>2
    <3>4. a \in FirstId .. e /\ a < e /\ a <= e
      BY <1>1, <3>2
    <3> QED
      BY <1>2, <3>2, <3>3, <3>4
  <2>2. CASE l >= u
    <3>1. l = u /\ Sized(p)
      BY <2>2
    <3>2. h.S[l].a = e
      BY <1>2, <3>1
    <3>3. e \in FirstId .. e
      BY <1>1
    <3> QED
      BY <1>2, <1>3, <3>1, <3>2, <3>3
  <2> QED
    BY <2>1, <2>2
<1>9. h.e - 1 = e
  BY <1>2
<1> QED
  BY <1>2, <1>6, <1>7, <1>8, <1>9 DEF Numbering

\* While the last step of a run waits no step is asked for, and when it has been
\* answered vertex_loader has returned: no step comes behind it.
LEMMA GrowFlags ==
  ASSUME NEW g \in GhostSet, Parts(g), NEW p \in PendingPkg, Asks(p),
         NEW h \in GhostSet, Grown(g, h, p)
  PROVE  Flags(h)'
<1>1. /\ g.r \in Nat /\ g.b \in Nat /\ g.s \in Nat /\ g.d \in Nat /\ g.e \in Nat /\ g.q \in Nat
  BY GhostFields
<1>2. /\ FirstId \in Nat /\ FirstId <= g.r /\ g.r <= g.b /\ g.b <= g.s /\ g.s <= g.d
      /\ g.d <= g.e /\ g.q <= 2 * g.e
  <2>1. Len(half) = 0
    BY EmptyIsSeq DEF Asks
  <2> QED
    BY <1>1, <2>1, Order
<1>3. vl_run /\ vl_run'
  BY DEF Asks
<1>4. ASSUME NEW a \in Nat, g.r <= a, a < g.e, g.H[a].last
      PROVE  FALSE
  <2>1. a = g.e - 1
    <3>1. a \in g.r .. g.e - 1
      BY <1>1, <1>4
    <3> QED
      BY <1>4, <3>1 DEF Parts, Flags
  <2>2. g.r < g.e
    BY <1>1, <1>4
  <2>3. CASE g.b = g.e
    <3>1. g.d = g.e
      BY <1>1, <1>2, <2>3
    <3> QED
      BY <1>3, <1>4, <2>1, <2>2, <3>1, RunEnd
  <2>4. CASE g.b # g.e
    <3> PICK n \in Nat : n = g.e - g.b
      BY <1>1, <1>2
    <3>1. n \in 1 .. n /\ a \in g.b .. g.e - 1 /\ a - g.b + 1 = n
      BY <1>1, <1>2, <2>1, <2>4
    <3>2. Holds(pending, g.H, g.b, g.e, 0, None)
      BY DEF Parts, Asked
    <3>3. Len(pending) = n
      BY <1>1, <3>2, StreamEmpty
    <3>4. pending[n] = g.H[a]
      BY <3>1, <3>2 DEF Holds
    <3>5. ~pending[n].last
      BY <3>1, <3>3 DEF Asks
    <3> QED
      BY <1>4, <3>4, <3>5
  <2> QED
    BY <2>3, <2>4
<1>5. /\ h.r = g.r /\ h.e = g.e + 1 /\ \A a \in Nat : a < g.e => h.H[a] = g.H[a]
      /\ h.q = g.q
  BY DEF Grown, SameFront
<1>6. ASSUME NEW a \in g.r .. g.e, h.H[a].last
      PROVE  a = g.e
  <2> SUFFICES ASSUME a # g.e PROVE FALSE
    OBVIOUS
  <2>1. a \in Nat /\ g.r <= a /\ a < g.e
    BY <1>1
  <2>2. g.H[a].last
    BY <1>5, <1>6, <2>1
  <2> QED
    BY <1>4, <2>1, <2>2
<1>7. g.q # 2 * (g.e + 1) /\ (g.e + 1) - 1 = g.e
  BY <1>1, <1>2
<1> QED
  BY <1>3, <1>5, <1>6, <1>7 DEF Flags

\* What is asked of vertex_loader for a step.
LEMMA QueryPairOf ==
  ASSUME NEW K, NEW e \in Nat, NEW p, K[e] = p
  PROVE  /\ QueryOf(K)[2 * e] = [v |-> p.vertex.curr, last |-> FALSE]
         /\ QueryOf(K)[2 * e + 1] = [v |-> p.vertex.prev, last |-> p.last]
<1>1. /\ QueryOf(K)[2 * e] = [v |-> K[e].vertex.curr, last |-> FALSE]
      /\ QueryOf(K)[2 * e + 1] = [v |-> K[e].vertex.prev, last |-> K[e].last]
  BY QueryPair
<1> QED
  BY <1>1, Zenon

\* The step is added to everything that is written for it.
LEMMA GrowAsked ==
  ASSUME NEW g \in GhostSet, Parts(g), NEW p \in PendingPkg, Asks(p),
         NEW h \in GhostSet, Grown(g, h, p)
  PROVE  Asked(h)'
<1> PICK e \in Nat : e = g.e
  BY GhostFields
<1> PICK n \in Nat : n = 2 * e
  OBVIOUS
<1>1. /\ g.b \in Nat /\ g.s \in Nat /\ g.d \in Nat /\ g.v \in Nat /\ g.q \in Nat
  BY GhostFields
<1>2. /\ g.s <= g.d /\ g.d <= e /\ 2 * g.d <= g.v /\ g.v <= g.q /\ g.q <= n
  <2>1. Len(half) = 0
    BY EmptyIsSeq DEF Asks
  <2> QED
    BY <1>1, <2>1, Order
<1>3. /\ half = <<>> /\ pending' = Append(pending, p)
      /\ query' = Append(query, [v |-> p.vertex.curr, last |-> FALSE])
      /\ half' = <<[v |-> p.vertex.prev, last |-> p.last]>>
      /\ UNCHANGED <<vds, last_pkg, current>>
  BY DEF Asks
<1>4. /\ h.e = e + 1 /\ h.H[e] = p /\ \A a \in Nat : a < e => h.H[a] = g.H[a]
      /\ h.b = g.b /\ h.s = g.s /\ h.d = g.d /\ h.v = g.v /\ h.q = g.q
  BY DEF Grown, SameFront, SameSta, SameOut
<1> PICK K : K = h.H
  OBVIOUS
<1> PICK J : J = g.H
  OBVIOUS
<1>5. 0 \in Bit /\ Len(half) = 0 /\ Agree(J, K, e) /\ K[e] = p
  BY <1>3, <1>4, EmptyIsSeq DEF Bit, Agree
<1>6. Holds(pending', K, g.b, e + 1, 0, None)
  <2>1. Holds(pending, J, g.b, e, 0, None)
    BY DEF Parts, Asked
  <2>2. e <= e
    OBVIOUS
  <2>3. Holds(pending, K, g.b, e, 0, None)
    BY <1>1, <1>5, <2>1, <2>2, StepsStay
  <2>4. Holds(Append(pending, K[e]), K, g.b, e + 1, 0, None)
    BY <1>1, <2>3, HoldsPush
  <2> QED
    BY <1>3, <1>4, <2>4
<1>7. /\ QueryOf(K)[2 * e] = [v |-> p.vertex.curr, last |-> FALSE]
      /\ QueryOf(K)[2 * e + 1] = [v |-> p.vertex.prev, last |-> p.last]
  <2>1. K[e] = p /\ e \in Nat
    BY <1>5
  <2> QED
    BY <2>1, QueryPairOf
<1>8. Holds(query', QueryOf(K), g.q, n + 1, 0, None)
  <2>1. Holds(query, QueryOf(J), g.q, n, 0, None)
    <3>1. Holds(query, QueryOf(J), g.q, 2 * g.e - Len(half), 0, None)
      BY DEF Parts, Asked
    <3>2. 2 * g.e - Len(half) = n
      BY <1>5
    <3> QED
      BY <3>1, <3>2
  <2>2. n <= 2 * e
    OBVIOUS
  <2>3. Holds(query, QueryOf(K), g.q, n, 0, None)
    BY <1>1, <1>5, <2>1, <2>2, StepsStay
  <2>4. Holds(Append(query, QueryOf(K)[n]), QueryOf(K), g.q, n + 1, 0, None)
    BY <1>1, <2>3, HoldsPush
  <2>5. QueryOf(K)[n] = [v |-> p.vertex.curr, last |-> FALSE]
    BY <1>7
  <2> QED
    BY <1>3, <2>4, <2>5
<1>9. Holds(half', QueryOf(K), n + 1, n + 2, 0, None) /\ Len(half') = 1
  <2> DEFINE o == [v |-> p.vertex.prev, last |-> p.last]
  <2>1. half' = Append(<<>>, o)
    BY <1>3
  <2> PICK w \in Nat : w = n + 1
    OBVIOUS
  <2>2. QueryOf(K)[w] = o
    BY <1>7
  <2> HIDE DEF o
  <2>3. Holds(<<>>, QueryOf(K), w, w, 0, None)
    BY NoneHeld
  <2>4. Holds(Append(<<>>, QueryOf(K)[w]), QueryOf(K), w, w + 1, 0, None)
    BY <2>3, HoldsPush
  <2>5. Holds(half', QueryOf(K), w, w + 1, 0, None)
    BY <2>1, <2>2, <2>4
  <2>6. Len(half') = 1
    BY <2>5, OneHeld
  <2>7. w + 1 = n + 2
    OBVIOUS
  <2> QED
    BY <2>5, <2>6, <2>7
<1>10. Holds(vds', VdsOf(K), g.v, g.q, 0, None)
  <2>1. Holds(vds, VdsOf(J), g.v, g.q, 0, None)
    BY DEF Parts, Asked
  <2>2. g.q <= 2 * e
    BY <1>2
  <2>3. Holds(vds, VdsOf(K), g.v, g.q, 0, None)
    BY <1>1, <1>5, <2>1, <2>2, StepsStay
  <2> QED
    BY <1>3, <2>3
<1>11. Holds(current', CurrentOf(K), g.s, g.d, 0, None)
  <2>1. Holds(current, CurrentOf(J), g.s, g.d, 0, None)
    BY DEF Parts, Asked
  <2>2. Holds(current, CurrentOf(K), g.s, g.d, 0, None)
    BY <1>1, <1>2, <1>5, <2>1, StepsStay
  <2> QED
    BY <1>3, <2>2
<1>12. IF last_pkg' = <<>> THEN g.v = 2 * g.d
       ELSE g.v = 2 * g.d + 1 /\ last_pkg' = <<DescOf(K[g.d].vertex.curr)>>
  <2>1. IF last_pkg = <<>> THEN g.v = 2 * g.d
        ELSE g.v = 2 * g.d + 1 /\ last_pkg = <<DescOf(g.H[g.d].vertex.curr)>>
    BY DEF Parts, Asked
  <2>2. CASE last_pkg = <<>>
    BY <1>3, <2>1, <2>2
  <2>3. CASE last_pkg # <<>>
    <3>1. g.v = 2 * g.d + 1 /\ last_pkg = <<DescOf(g.H[g.d].vertex.curr)>>
      BY <2>1, <2>3
    <3>2. g.d < e
      <4>1. g.v = 2 * g.d + 1
        BY <3>1
      <4> QED
        BY <1>1, <1>2, <4>1
    <3>3. K[g.d] = g.H[g.d]
      BY <1>1, <1>4, <3>2
    <3> QED
      BY <1>3, <2>3, <3>1, <3>3
  <2> QED
    BY <2>2, <2>3
<1>13. 2 * (e + 1) - 1 = n + 1 /\ 2 * (e + 1) = n + 2 /\ 1 <= 1
  OBVIOUS
<1>14. h.H = K /\ h.e = e + 1
  BY <1>4
<1> QED
  BY <1>4, <1>6, <1>8, <1>9, <1>10, <1>11, <1>12, <1>13, <1>14 DEF Asked

\* Its previous vertex is the last of the asserts.
LEMMA GrowMasked ==
  ASSUME NEW g \in GhostSet, Parts(g), NEW p \in PendingPkg, Asks(p),
         NEW h \in GhostSet, Grown(g, h, p)
  PROVE  Masked(h)'
<1> PICK e \in Nat : e = g.e
  BY GhostFields
<1> PICK u \in Nat : u = g.B[e]
  BY GhostFields
<1> PICK m \in Nat : m = g.B[g.m]
  BY OldPlaces
<1> PICK s \in Nat : s = g.B[g.s]
  BY OldPlaces
<1>1. /\ g.m \in Nat /\ g.s \in Nat /\ g.k \in Nat
      /\ g.zm \in Bit /\ g.zf \in Bit /\ g.zv \in Bit /\ 0 \in Bit
  BY GhostFields DEF Bit
<1>2. g.s <= e /\ m <= s /\ s <= u
  <2>1. /\ g.B[g.m] <= g.B[g.s] /\ g.B[g.s] <= g.B[g.d] /\ g.B[g.d] <= g.B[g.e]
        /\ g.B[g.d] \in Nat /\ g.s <= g.e
    BY OldPlaces
  <2> QED
    BY <2>1
<1>3. m <= u
  BY <1>2
<1>4. assert_in' = Append(assert_in, p.vertex.prev) /\ UNCHANGED <<assert_mask, sta_vd, filtered>>
  BY DEF Asks
<1>5. /\ h.e = e + 1 /\ h.H[e] = p /\ \A a \in Nat : a < e => h.H[a] = g.H[a]
      /\ \A l \in Nat : l < u => h.S[l] = g.S[l]
      /\ h.m = g.m /\ h.s = g.s /\ h.k = g.k /\ h.zm = g.zm /\ h.zf = g.zf /\ h.zv = g.zv
  BY DEF Grown, SameSta
<1>6. h.B[g.m] = m /\ h.B[g.s] = s
  BY OldPlaces
<1> PICK K : K = h.H
  OBVIOUS
<1> PICK T : T = h.S
  OBVIOUS
<1> PICK J : J = g.H
  OBVIOUS
<1> PICK R : R = g.S
  OBVIOUS
<1>12. Agree(J, K, e) /\ Agree(R, T, u)
  BY <1>5 DEF Agree
<1>7. Holds(assert_in', AssertOf(K), g.m, e + 1, 0, None)
  <2>1. Holds(assert_in, AssertOf(J), g.m, e, 0, None)
    BY DEF Parts, Masked
  <2>2. e <= e
    OBVIOUS
  <2>3. Holds(assert_in, AssertOf(K), g.m, e, 0, None)
    BY <1>1, <1>12, <2>1, <2>2, StepsStay
  <2>4. Holds(Append(assert_in, AssertOf(K)[e]), AssertOf(K), g.m, e + 1, 0, None)
    BY <1>1, <2>3, HoldsPush
  <2>5. AssertOf(K)[e] = p.vertex.prev
    BY <1>5 DEF AssertOf
  <2> QED
    BY <1>4, <2>4, <2>5
<1>8. Holds(assert_mask', MaskOf(K), g.m, g.s, g.zm, StopMask)
  <2>1. Holds(assert_mask, MaskOf(J), g.m, g.s, g.zm, StopMask)
    BY DEF Parts, Masked
  <2>2. Holds(assert_mask, MaskOf(K), g.m, g.s, g.zm, StopMask)
    BY <1>1, <1>2, <1>12, <2>1, StepsStay
  <2> QED
    BY <1>4, <2>2
<1>9. Holds(sta_vd', StaVdOf(T), g.k, s, g.zv, StopVd)
  <2>1. Holds(sta_vd, StaVdOf(R), g.k, s, g.zv, StopVd)
    BY DEF Parts, Masked
  <2>2. Holds(sta_vd, StaVdOf(T), g.k, s, g.zv, StopVd)
    BY <1>1, <1>2, <1>12, <2>1, ListsStay
  <2> QED
    BY <1>4, <2>2
<1>10. Holds(filtered', FilteredOf(T), g.k, m, g.zf, StopAssert)
  <2>1. Holds(filtered, FilteredOf(R), g.k, m, g.zf, StopAssert)
    BY DEF Parts, Masked
  <2>2. Holds(filtered, FilteredOf(T), g.k, m, g.zf, StopAssert)
    BY <1>1, <1>3, <1>12, <2>1, ListsStay
  <2> QED
    BY <1>4, <2>2
<1>11. h.H = K /\ h.S = T
  OBVIOUS
<1> QED
  BY <1>5, <1>6, <1>7, <1>8, <1>9, <1>10, <1>11 DEF Masked

\* The steps without a list that wait are old ones.
LEMMA GrowUpdated ==
  ASSUME NEW g \in GhostSet, Parts(g), NEW p \in PendingPkg, Asks(p),
         NEW h \in GhostSet, Grown(g, h, p)
  PROVE  Updated(h)'
<1>1. g.b \in Nat /\ g.s \in Nat /\ g.e \in Nat
  BY GhostFields
<1>2. g.s <= g.e
  BY OldPlaces
<1>3. \A a \in g.b .. g.s - 1 : a \in Nat /\ a < g.e
  BY <1>1, <1>2
<1>4. /\ \A a \in Nat : a < g.e => h.H[a] = g.H[a]
      /\ h.b = g.b /\ h.s = g.s /\ h.W = g.W
  BY DEF Grown, SameSta, SameOut
<1>5. \A a \in g.b .. g.s - 1 : h.H[a] = g.H[a]
  BY <1>3, <1>4
<1>6. UNCHANGED update
  BY DEF Asks
<1>7. /\ IsSeq(update) /\ Len(update) = Len(g.W)
      /\ \A n \in 1 .. Len(g.W) :
           /\ g.W[n] \in g.b .. g.s - 1 /\ ~Sized(g.H[g.W[n]])
           /\ update[n] = [id |-> g.W[n] % IdMod, to |-> NoVertex, last |-> g.H[g.W[n]].last]
      /\ \A n, o \in 1 .. Len(g.W) : n < o => g.W[n] < g.W[o]
  BY DEF Parts, Updated
<1>8. ASSUME NEW n \in 1 .. Len(g.W)
      PROVE  /\ g.W[n] \in g.b .. g.s - 1 /\ ~Sized(h.H[g.W[n]])
             /\ update[n] = [id |-> g.W[n] % IdMod, to |-> NoVertex, last |-> h.H[g.W[n]].last]
  <2>1. h.H[g.W[n]] = g.H[g.W[n]]
    BY <1>5, <1>7
  <2> QED
    BY <1>7, <2>1
<1> QED
  BY <1>4, <1>6, <1>7, <1>8 DEF Updated

\* The lines of the lists there were are where they were.
LEMMA GrowStaLines ==
  ASSUME NEW g \in GhostSet, Parts(g), NEW p \in PendingPkg, Asks(p),
         NEW h \in GhostSet, Grown(g, h, p)
  PROVE  StaLines(h)'
<1> PICK u \in Nat : u = g.B[g.e]
  BY OldPlaces
<1> PICK s \in Nat : s = g.B[g.s]
  BY OldPlaces
<1>1. s <= u
  <2>1. /\ g.B[g.s] <= g.B[g.d] /\ g.B[g.d] <= g.B[g.e] /\ g.B[g.d] \in Nat
    BY OldPlaces
  <2> QED
    BY <2>1
<1>2. /\ g.x1 \in Nat /\ g.x2 \in Nat /\ g.x3 \in Nat /\ g.zc \in Bit /\ 0 \in Bit
      /\ g.F \in [Nat -> PlaceSet] /\ g.k \in Nat /\ g.t \in Nat
  BY GhostFields DEF Bit
<1>3. g.x1 <= g.x2 /\ g.x2 <= g.x3
  BY StaPlaces
<1> PICK F : F = g.F
  OBVIOUS
<1> PICK S : S = g.S
  OBVIOUS
<1> PICK T : T = h.S
  OBVIOUS
<1>4. h.B[g.s] = s
  BY OldPlaces
<1>5. /\ \A l \in Nat : l < u => T[l] = S[l]
      /\ h.F = F /\ h.x1 = g.x1 /\ h.x2 = g.x2 /\ h.x3 = g.x3 /\ h.zc = g.zc
      /\ h.k = g.k /\ h.t = g.t /\ h.s = g.s
  BY DEF Grown, SameSta, SameStaLines, SameOut
<1>6. /\ F[g.x3] = [l |-> g.k, n |-> sta_line]
      /\ sta_line # 0 => g.k < s
      /\ \A x \in g.x1 .. g.x3 - 1 :
           /\ F[x + 1] = Behind(F[x], StaCmd(S[F[x].l], F[x].n).end_of_burst)
           /\ F[x].l < s
      /\ F[g.x1].l = IF seen.curr_end THEN g.t + 1 ELSE g.t
      /\ Holds(sta_out, StaOutOf(S, F), g.x1, g.x2, 0, None)
      /\ Holds(sta_cmd, StaCmdOf(S, F), g.x2, g.x3, g.zc, StopCmd)
      /\ Holds(assert_out, AssertsOf(S, F), g.x1, g.x3, 0, None)
  BY DEF Parts, StaLines
<1>7. ASSUME NEW x \in g.x1 .. g.x3 - 1
      PROVE  T[F[x].l] = S[F[x].l]
  <2>1. x \in Nat
    BY <1>2
  <2>2. F[x].l \in Nat
    BY <1>2, <2>1 DEF PlaceSet
  <2>3. F[x].l < s
    BY <1>6
  <2>4. F[x].l < u
    BY <1>1, <2>2, <2>3
  <2> QED
    BY <1>5, <2>2, <2>4
<1>8. ASSUME NEW x \in g.x1 .. g.x3 - 1
      PROVE  /\ F[x + 1] = Behind(F[x], StaCmd(T[F[x].l], F[x].n).end_of_burst)
             /\ F[x].l < s
  <2>1. T[F[x].l] = S[F[x].l]
    BY <1>7
  <2>2. /\ F[x + 1] = Behind(F[x], StaCmd(S[F[x].l], F[x].n).end_of_burst)
        /\ F[x].l < s
    BY <1>6
  <2> QED
    BY <2>1, <2>2, Zenon
<1>9. Holds(sta_out, StaOutOf(T, F), g.x1, g.x2, 0, None)
  <2>1. \A c \in g.x1 .. g.x2 - 1 : c \in g.x1 .. g.x3 - 1
    BY <1>2, <1>3
  <2>2. \A c \in g.x1 .. g.x2 - 1 : T[F[c].l] = S[F[c].l]
    BY <1>7, <2>1
  <2>3. Holds(sta_out, StaOutOf(S, F), g.x1, g.x2, 0, None)
    BY <1>6
  <2> QED
    BY <1>2, <2>2, <2>3, ListLinesStay
<1>10. Holds(sta_cmd, StaCmdOf(T, F), g.x2, g.x3, g.zc, StopCmd)
  <2>1. \A c \in g.x2 .. g.x3 - 1 : c \in g.x1 .. g.x3 - 1
    BY <1>2, <1>3
  <2>2. \A c \in g.x2 .. g.x3 - 1 : T[F[c].l] = S[F[c].l]
    BY <1>7, <2>1
  <2>3. Holds(sta_cmd, StaCmdOf(S, F), g.x2, g.x3, g.zc, StopCmd)
    BY <1>6
  <2> QED
    BY <1>2, <2>2, <2>3, ListLinesStay
<1>11. Holds(assert_out, AssertsOf(T, F), g.x1, g.x3, 0, None)
  <2>1. \A c \in g.x1 .. g.x3 - 1 : T[F[c].l] = S[F[c].l]
    BY <1>7
  <2>2. Holds(assert_out, AssertsOf(S, F), g.x1, g.x3, 0, None)
    BY <1>6
  <2> QED
    BY <1>2, <2>1, <2>2, ListLinesStay
<1>12. UNCHANGED <<sta_line, sta_out, sta_cmd, assert_out, seen>>
  BY DEF Asks
<1>13. h.S = T
  OBVIOUS
<1> QED
  BY <1>4, <1>5, <1>6, <1>8, <1>9, <1>10, <1>11, <1>12, <1>13 DEF StaLines

\* No stop packet has been asked for, so si_vd_scheduler waits for another one.
LEMMA GrowSiLines ==
  ASSUME NEW g \in GhostSet, Parts(g), NEW p \in PendingPkg, Asks(p),
         NEW h \in GhostSet, Grown(g, h, p)
  PROVE  SiLines(h)'
<1> PICK u \in Nat : u = g.B[g.e]
  BY OldPlaces
<1> PICK d \in Nat : d = g.B[g.d]
  BY OldPlaces
<1>1. d <= u /\ g.i <= d
  BY SiPlaces
<1>2. /\ g.y1 \in Nat /\ g.y2 \in Nat /\ g.y3 \in Nat /\ g.yc \in Bit /\ g.yl \in Bit
      /\ g.yv \in Bit /\ 0 \in Bit
      /\ g.U \in [Nat -> PlaceSet] /\ g.j \in Nat /\ g.i \in Nat
  BY GhostFields DEF Bit
<1>3. g.y1 <= g.y2 /\ g.y2 <= g.y3
  BY SiPlaces
<1> PICK F : F = g.U
  OBVIOUS
<1> PICK S : S = g.S
  OBVIOUS
<1> PICK T : T = h.S
  OBVIOUS
<1>4. h.B[g.d] = d
  BY OldPlaces
<1>5. /\ \A l \in Nat : l < u => T[l] = S[l]
      /\ h.U = F /\ h.y1 = g.y1 /\ h.y2 = g.y2 /\ h.y3 = g.y3 /\ h.yc = g.yc
      /\ h.i = g.i /\ h.j = g.j /\ h.yl = g.yl /\ h.yv = g.yv /\ h.d = g.d
  BY DEF Grown, SameFront, SameSi, SameSiLines
<1>6. /\ Holds(si_vd, SiVdOf(S), g.j, g.i, g.yv, StopVd)
      /\ F[g.y3] = [l |-> g.j, n |-> si_line]
      /\ si_line # 0 => g.j < g.i
      /\ \A y \in g.y1 .. g.y3 - 1 :
           /\ F[y + 1] = Behind(F[y], SiCmd(S[F[y].l], F[y].n).end_of_burst)
           /\ F[y].l < d
      /\ Holds(si_out, SiOutOf(S, F), g.y1, g.y2, 0, None)
      /\ Holds(si_cmd, SiCmdOf(S, F), g.y2, g.y3, g.yc, StopCmd)
  BY DEF Parts, SiLines
<1>7. ASSUME NEW x \in g.y1 .. g.y3 - 1
      PROVE  T[F[x].l] = S[F[x].l]
  <2>1. x \in Nat
    BY <1>2
  <2>2. F[x].l \in Nat
    BY <1>2, <2>1 DEF PlaceSet
  <2>3. F[x].l < d
    BY <1>6
  <2>4. F[x].l < u
    BY <1>1, <2>2, <2>3
  <2> QED
    BY <1>5, <2>2, <2>4
<1>8. ASSUME NEW x \in g.y1 .. g.y3 - 1
      PROVE  /\ F[x + 1] = Behind(F[x], SiCmd(T[F[x].l], F[x].n).end_of_burst)
             /\ F[x].l < d
  <2>1. T[F[x].l] = S[F[x].l]
    BY <1>7
  <2>2. /\ F[x + 1] = Behind(F[x], SiCmd(S[F[x].l], F[x].n).end_of_burst)
        /\ F[x].l < d
    BY <1>6
  <2> QED
    BY <2>1, <2>2, Zenon
<1>9. Holds(si_out, SiOutOf(T, F), g.y1, g.y2, 0, None)
  <2>1. \A c \in g.y1 .. g.y2 - 1 : c \in g.y1 .. g.y3 - 1
    BY <1>2, <1>3
  <2>2. \A c \in g.y1 .. g.y2 - 1 : T[F[c].l] = S[F[c].l]
    BY <1>7, <2>1
  <2>3. Holds(si_out, SiOutOf(S, F), g.y1, g.y2, 0, None)
    BY <1>6
  <2> QED
    BY <1>2, <2>2, <2>3, ListLinesStay
<1>10. Holds(si_cmd, SiCmdOf(T, F), g.y2, g.y3, g.yc, StopCmd)
  <2>1. \A c \in g.y2 .. g.y3 - 1 : c \in g.y1 .. g.y3 - 1
    BY <1>2, <1>3
  <2>2. \A c \in g.y2 .. g.y3 - 1 : T[F[c].l] = S[F[c].l]
    BY <1>7, <2>1
  <2>3. Holds(si_cmd, SiCmdOf(S, F), g.y2, g.y3, g.yc, StopCmd)
    BY <1>6
  <2> QED
    BY <1>2, <2>2, <2>3, ListLinesStay
<1>11. Agree(S, T, u)
  BY <1>5 DEF Agree
<1>12. Holds(si_vd, SiVdOf(T), g.j, g.i, g.yv, StopVd)
  <2>1. g.i <= u
    BY <1>1, <1>2
  <2> QED
    BY <1>2, <1>6, <1>11, <2>1, ListsStay
<1>13. g.yl = 0
  <2>1. vl_run
    BY DEF Asks
  <2>2. g.yl # 1
    BY <2>1 DEF Parts, SiStops
  <2> QED
    BY <1>2, <2>2 DEF Bit
<1> PICK stop : stop = VdsOf(h.H)[2 * h.e - 1]
  OBVIOUS
<1>14. Holds(last, LastOf(T), g.i, d, g.yl, stop)
  <2> PICK old : old = VdsOf(g.H)[2 * g.e - 1]
    OBVIOUS
  <2>1. Holds(last, LastOf(S), g.i, d, 0, old)
    BY <1>13 DEF Parts, SiLines
  <2>2. Holds(last, LastOf(S), g.i, d, 0, stop)
    BY <1>2, <2>1, NoStopHeld
  <2>3. Holds(last, LastOf(T), g.i, d, 0, stop)
    BY <1>1, <1>2, <1>11, <2>2, ListsStay
  <2> QED
    BY <1>13, <2>3
<1>15. UNCHANGED <<last, si_vd, si_line, si_out, si_cmd>>
  BY DEF Asks
<1>16. h.S = T
  OBVIOUS
<1> QED
  BY <1>4, <1>5, <1>6, <1>8, <1>9, <1>10, <1>12, <1>14, <1>15, <1>16 DEF SiLines

\* What the weight kernels have seen is of a list there was.
LEMMA GrowSeen ==
  ASSUME NEW g \in GhostSet, Parts(g), NEW p \in PendingPkg, Asks(p),
         NEW h \in GhostSet, Grown(g, h, p)
  PROVE  SeenPrev(h)' /\ SeenCurr(h)'
<1> PICK u \in Nat : u = g.B[g.e]
  BY OldPlaces
<1> PICK d \in Nat : d = g.B[g.d]
  BY OldPlaces
<1> PICK s \in Nat : s = g.B[g.s]
  BY OldPlaces
<1> PICK t \in Nat : t = g.t
  BY GhostFields
<1>1. s <= d /\ d <= u
  BY OldPlaces
<1>2. h.B[g.d] = d /\ h.B[g.s] = s
  BY OldPlaces
<1>3. /\ \A l \in Nat : l < u => h.S[l] = g.S[l]
      /\ h.U = g.U /\ h.y1 = g.y1 /\ h.t = t /\ h.d = g.d /\ h.s = g.s
  BY DEF Grown, SameFront, SameSta, SameSiLines, SameOut
<1>4. UNCHANGED seen
  BY DEF Asks
<1>5. t < d \/ t < s => h.S[t] = g.S[t]
  BY <1>1, <1>3
<1>6. SeenPrev(h)'
  <2>1. SeenPrev(g)
    BY DEF Parts
  <2>2. CASE t < d
    <3>1. h.S[t] = g.S[t]
      BY <1>5, <2>2
    <3> QED
      BY <1>2, <1>3, <1>4, <2>1, <3>1 DEF SeenPrev
  <2>3. CASE ~(t < d)
    <3>1. ~seen.prev_end
      BY <2>1, <2>3 DEF SeenPrev
    <3>2. g.U[g.y1].l = t /\ g.U[g.y1].n = 0 /\ seen.against = {}
      BY <2>1, <2>3, <3>1 DEF SeenPrev
    <3> QED
      BY <1>3, <1>4, <3>1, <3>2 DEF SeenPrev
  <2> QED
    BY <2>2, <2>3
<1>7. SeenCurr(h)'
  <2>1. SeenCurr(g)
    BY DEF Parts
  <2>2. CASE seen.previous = {}
    BY <1>4, <2>1, <2>2 DEF SeenCurr
  <2>3. CASE seen.previous # {}
    <3>1. t < s
      BY <2>1, <2>3 DEF SeenCurr
    <3>2. h.S[t] = g.S[t]
      BY <1>5, <3>1
    <3> QED
      BY <1>2, <1>3, <1>4, <2>1, <2>3, <3>1, <3>2 DEF SeenCurr
  <2> QED
    BY <2>2, <2>3
<1> QED
  BY <1>6, <1>7

\* So are the answers that are sampled.
LEMMA GrowSampled ==
  ASSUME NEW g \in GhostSet, Parts(g), NEW p \in PendingPkg, Asks(p),
         NEW h \in GhostSet, Grown(g, h, p)
  PROVE  Sampled(h)'
<1> PICK u \in Nat : u = g.B[g.e]
  BY OldPlaces
<1> PICK s \in Nat : s = g.B[g.s]
  BY OldPlaces
<1> PICK b \in Nat : b = g.B[g.b]
  BY OldPlaces
<1> PICK t \in Nat : t = g.t
  BY GhostFields
<1>1. t <= s /\ s <= u
  <2>1. t <= s
    BY SampledLists
  <2>2. /\ g.B[g.s] <= g.B[g.d] /\ g.B[g.d] <= g.B[g.e] /\ g.B[g.d] \in Nat
    BY OldPlaces
  <2> QED
    BY <2>1, <2>2
<1>2. h.B[g.b] = b
  BY OldPlaces
<1>3. /\ \A l \in Nat : l < u => h.S[l] = g.S[l]
      /\ h.t = t /\ h.b = g.b /\ h.s = g.s
  BY DEF Grown, SameSta, SameOut
<1>4. UNCHANGED next_vertex
  BY DEF Asks
<1>5. /\ IsSeq(next_vertex) /\ Len(next_vertex) = t - b
      /\ \A l \in b .. t - 1 :
           /\ g.S[l].a \in g.b .. g.s - 1
           /\ next_vertex[l - b + 1] \in SampledPkg(g.S[l])
  BY DEF Parts, Sampled
<1>6. ASSUME NEW l \in b .. t - 1
      PROVE  h.S[l] = g.S[l]
  <2>1. l \in Nat /\ l < u
    BY <1>1
  <2> QED
    BY <1>3, <2>1
<1>7. ASSUME NEW l \in b .. t - 1
      PROVE  /\ h.S[l].a \in g.b .. g.s - 1
             /\ next_vertex[l - b + 1] \in SampledPkg(h.S[l])
  <2>1. h.S[l] = g.S[l]
    BY <1>6
  <2>2. /\ g.S[l].a \in g.b .. g.s - 1
        /\ next_vertex[l - b + 1] \in SampledPkg(g.S[l])
    BY <1>5
  <2> QED
    BY <2>1, <2>2, Zenon
<1> QED
  BY <1>2, <1>3, <1>4, <1>5, <1>7 DEF Sampled

\* While steps are asked for there are no stop packets.
LEMMA GrowStops ==
  ASSUME NEW g \in GhostSet, Parts(g), NEW p \in PendingPkg, Asks(p),
         NEW h \in GhostSet, Grown(g, h, p)
  PROVE  StaStops(h)' /\ SiStops(h)'
<1>1. vl_run /\ UNCHANGED <<vl_run, sta_stop, sta_run, si_run>>
  BY DEF Asks
<1>2. /\ h.zm = g.zm /\ h.zf = g.zf /\ h.zv = g.zv /\ h.zc = g.zc /\ h.m = g.m /\ h.s = g.s
      /\ h.yl = g.yl /\ h.yv = g.yv /\ h.yc = g.yc
  BY DEF Grown, SameSta, SameStaLines, SameSi, SameSiLines
<1>3. StaStops(g) /\ SiStops(g)
  BY DEF Parts
<1>4. StaStops(h)'
  <2>1. ~sta_stop /\ g.zv # 1 /\ g.zc # 1 /\ sta_run
    BY <1>1, <1>3 DEF StaStops
  <2> QED
    BY <1>1, <1>2, <1>3, <2>1 DEF StaStops
<1>5. SiStops(h)'
  <2>1. g.yl # 1 /\ g.yv # 1 /\ g.yc # 1 /\ si_run
    BY <1>1, <1>3 DEF SiStops
  <2> QED
    BY <1>1, <1>2, <2>1 DEF SiStops
<1> QED
  BY <1>4, <1>5

\* step_duplicator takes the next step.
LEMMA DuplicateCurrStep ==
  ASSUME Rest, NEW g \in GhostSet, Parts(g), DuplicateCurr
  PROVE  PairInv'
<1>1. PICK p \in PendingPkg : Asks(p)
  BY AsksStep
<1>2. PICK h \in GhostSet : Grown(g, h, p)
  BY HistoryGrows
<1>3. /\ Bounds(h)' /\ Numbering(h)' /\ Flags(h)' /\ Asked(h)' /\ Masked(h)'
      /\ Updated(h)' /\ StaLines(h)' /\ SiLines(h)' /\ SeenPrev(h)' /\ SeenCurr(h)'
      /\ Sampled(h)' /\ StaStops(h)' /\ SiStops(h)'
  BY <1>1, <1>2, GrowBounds, GrowNumbering, GrowFlags, GrowAsked, GrowMasked, GrowUpdated,
     GrowStaLines, GrowSiLines, GrowSeen, GrowSampled, GrowStops
<1>4. Rest'
  <2>1. asked < MaxReq /\ asked' = asked + 1
    BY <1>1 DEF Asks
  <2>2. UNCHANGED <<vl_run, sta_run, si_run, sta_stop, seen>>
    BY <1>1 DEF Asks
  <2>3. asked' \in 0 .. MaxReq
    <3>1. asked \in 0 .. MaxReq /\ MaxReq \in Nat
      BY PairDepthAssumption DEF Rest
    <3> QED
      BY <2>1, <3>1
  <2> QED
    BY <2>2, <2>3 DEF Rest
<1> QED
  BY <1>3, <1>4 DEF PairInv, Parts

\* Nothing changes.
LEMMA StutterStep ==
  ASSUME PairInv, UNCHANGED vars
  PROVE  PairInv'
<1>1. PICK g \in GhostSet : Parts(g)
  BY DEF PairInv
<1>2. UNCHANGED <<asked, half, query, assert_in, vl_run, vds, last_pkg, current, last, sta_stop,
                  sync_id, update, assert_mask, sta_vd, filtered, sta_line, sta_cmd, assert_out,
                  sta_run, sta_out, si_vd, si_line, si_cmd, si_run, si_out, seen, next_vertex,
                  update_id, answer, pending>>
  BY DEF vars, dupVars, loaderVars, staVars, staCmdVars, siVars, outVars
<1>3. Rest'
  BY <1>2 DEF Rest, PairInv
<1>4. Asked(g)'
  BY <1>1, <1>2 DEF Parts, Asked
<1>5. /\ Bounds(g)' /\ Numbering(g)' /\ Flags(g)' /\ Masked(g)' /\ Updated(g)' /\ StaLines(g)'
      /\ SiLines(g)' /\ SeenPrev(g)' /\ SeenCurr(g)' /\ Sampled(g)' /\ StaStops(g)' /\ SiStops(g)'
  BY <1>1, <1>2, SameGhost, KeepBounds, KeepNumbering, KeepFlags, KeepMasked, KeepUpdated,
     KeepStaLines, KeepSiLines, KeepSeen, KeepSampled, KeepStops DEF Parts, SameSteps, SameFront,
     SameSta, SameOut, SameStaLines, SameSi, SameSiLines
<1> QED
  BY <1>3, <1>4, <1>5 DEF PairInv, Parts

\* Every step preserves the inductive invariant.
LEMMA PairStep == PairInv /\ [Next]_vars => PairInv'
<1> SUFFICES ASSUME PairInv, [Next]_vars PROVE PairInv'
  OBVIOUS
<1>1. PICK g \in GhostSet : Parts(g)
  BY DEF PairInv
<1>2. Rest
  BY DEF PairInv
<1>3. CASE DuplicateCurr
  BY <1>1, <1>2, <1>3, DuplicateCurrStep
<1>4. CASE DuplicatePrev
  BY <1>1, <1>2, <1>4, DuplicatePrevStep
<1>5. CASE VertexLoader
  BY <1>1, <1>2, <1>5, VertexLoaderStep
<1>6. CASE DispatchCurr
  BY <1>1, <1>2, <1>6, DispatchCurrStep
<1>7. CASE DispatchPrev
  BY <1>1, <1>2, <1>7, DispatchPrevStep
<1>8. CASE StaSchedule
  BY <1>1, <1>2, <1>8, StaScheduleStep
<1>9. CASE StaScheduleStop
  BY <1>1, <1>2, <1>9, StaScheduleStopStep
<1>10. CASE AssertFilter
  BY <1>1, <1>2, <1>10, AssertFilterStep
<1>11. CASE StaCmdGenerator
  BY <1>1, <1>2, <1>11, StaCmdGeneratorStep
<1>12. CASE SiSchedule
  BY <1>1, <1>2, <1>12, SiScheduleStep
<1>13. CASE SiCmdGenerator
  BY <1>1, <1>2, <1>13, SiCmdGeneratorStep
<1>14. CASE StaBurst
  BY <1>1, <1>2, <1>14, StaBurstStep
<1>15. CASE SiBurst
  BY <1>1, <1>2, <1>15, SiBurstStep
<1>16. CASE WeighCurr
  BY <1>1, <1>2, <1>16, WeighCurrStep
<1>17. CASE WeighPrev
  BY <1>1, <1>2, <1>17, WeighPrevStep
<1>18. CASE Sample
  BY <1>1, <1>2, <1>18, SampleStep
<1>19. CASE StaUpdateMerge
  <2>1. AnswerUpdate \/ AnswerSampled
    BY <1>19 DEF StaUpdateMerge, AnswerUpdate, AnswerSampled
  <2> QED
    BY <1>1, <1>2, <2>1, AnswerUpdateStep, AnswerSampledStep
<1>20. CASE Restart
  BY <1>1, <1>2, <1>20, RestartStep
<1>21. CASE Idle \/ UNCHANGED vars
  <2>1. UNCHANGED vars
    BY <1>21 DEF Idle
  <2> QED
    BY <2>1, StutterStep
<1> QED
  BY <1>3, <1>4, <1>5, <1>6, <1>7, <1>8, <1>9, <1>10, <1>11, <1>12, <1>13, <1>14, <1>15,
     <1>16, <1>17, <1>18, <1>19, <1>20, <1>21
     DEF Next, StepDuplicator, VdDispatch, StaVdScheduler, Weigh

\* An answer in update or next_vertex whose turn it is is one of the oldest
\* step.
LEMMA AnswerIsService ==
  ASSUME PairInv, StaUpdateMerge
  PROVE  Service!Answer
<1>1. PICK g \in GhostSet : Parts(g)
  BY DEF PairInv
<1>2. g.b \in Nat /\ g.s \in Nat /\ g.d \in Nat /\ g.e \in Nat
  BY <1>1, GhostFields
<1>3. g.s <= g.d /\ g.d <= g.e
  BY <1>1 DEF Parts, Bounds
<1>4. ASSUME g.b < g.s
      PROVE  pending # <<>> /\ Head(pending) = g.H[g.b]
  <2>1. Holds(pending, g.H, g.b, g.e, 0, None)
    BY <1>1 DEF Parts, Asked
  <2>2. g.b # g.e
    BY <1>2, <1>3, <1>4
  <2>3. pending # <<>>
    BY <1>2, <2>1, <2>2, StreamEmpty
  <2> QED
    BY <1>2, <2>1, <2>3, StreamPop
<1>5. CASE AnswerUpdate
  <2>1. UpdateTurn(update) /\ pending' = Tail(pending)
        /\ answer' = [to |-> Head(update).to, last |-> Head(update).last]
    BY <1>5 DEF AnswerUpdate, Give
  <2>2. /\ g.b < g.s /\ ~Sized(g.H[g.b])
        /\ Head(update) = [id |-> g.b % IdMod, to |-> NoVertex, last |-> g.H[g.b].last]
    BY <1>1, <2>1, UpdateAnswer
  <2>3. Head(update).to = NoVertex /\ Head(update).last = g.H[g.b].last
    BY <2>2
  <2>4. NoVertex \in Answers(g.H[g.b].vertex)
    BY <2>2 DEF Answers, Sized
  <2>5. pending # <<>> /\ Head(pending) = g.H[g.b]
    BY <1>4, <2>2
  <2> QED
    BY <2>1, <2>3, <2>4, <2>5, Zenon DEF Service!Answer
<1>6. CASE AnswerSampled
  <2>1. UpdateTurn(next_vertex) /\ pending' = Tail(pending)
        /\ answer' = [to |-> Head(next_vertex).to, last |-> Head(next_vertex).last]
    BY <1>6 DEF AnswerSampled, Give
  <2>2. /\ g.b < g.s /\ Sized(g.H[g.b])
        /\ Head(next_vertex).to \in Answers(g.H[g.b].vertex)
        /\ Head(next_vertex).last = FALSE
    BY <1>1, <2>1, SampledAnswer
  <2>3. g.H[g.b].last = FALSE
    <3>1. FirstId \in Nat /\ FirstId <= g.r /\ g.r <= g.b /\ g.r \in Nat
      BY <1>1, Order, GhostFields
    <3>2. FirstId <= g.b /\ g.b < g.e
      BY <1>2, <1>3, <2>2, <3>1
    <3>3. g.b \in FirstId .. g.e - 1 /\ g.H[g.b].last \in BOOLEAN
      BY <1>1, <1>2, <3>1, <3>2, HistoryStep
    <3>4. g.H[g.b].last => ~Sized(g.H[g.b])
      BY <1>1, <3>3 DEF Parts, Numbering
    <3> QED
      BY <2>2, <3>3, <3>4
  <2>4. pending # <<>> /\ Head(pending) = g.H[g.b]
    BY <1>4, <2>2
  <2> QED
    BY <2>1, <2>2, <2>3, <2>4, Zenon DEF Service!Answer
<1> QED
  BY <1>5, <1>6 DEF StaUpdateMerge, AnswerUpdate, AnswerSampled

\* packet o is one of those stream s holds for the places x up to y
Among(o, s, x, y) == \E c \in x .. y - 1 : o = s[c - x + 1]

\* Each packet of a stream has its place in the history.
LEMMA PlaceInStream ==
  ASSUME NEW x, NEW y, NEW s, NEW o,
         x \in Nat /\ y \in Nat /\ Len(s) = y - x /\ o \in Packets(s)
  PROVE  Among(o, s, x, y)
<1> PICK n \in 1 .. Len(s) : o = s[n]
  BY DEF Packets
<1> PICK k : k = y - x /\ n \in 1 .. k
  OBVIOUS
<1> PICK c \in Nat : c = x + (n - 1)
  OBVIOUS
<1>1. c \in x .. y - 1 /\ c - x + 1 = n
  OBVIOUS
<1> QED
  BY <1>1 DEF Among

\* Every number of a step is in the range sta_update_merge counts in.
LEMMA TypesHold ==
  ASSUME Rest, NEW g \in GhostSet, Parts(g)
  PROVE  TypeOK
<1>1. /\ g.b \in Nat /\ g.s \in Nat /\ g.W \in Seq(Nat) /\ g.S \in [Nat -> ListSet]
      /\ g.x1 \in Nat /\ g.x2 \in Nat /\ g.F \in [Nat -> PlaceSet]
  BY GhostFields
<1>2. \A a \in Nat : a % IdMod \in Ids
  BY PairIdAssumption DEF Ids
<1>3. /\ asked \in 0 .. MaxReq /\ vl_run \in BOOLEAN /\ sta_run \in BOOLEAN
      /\ si_run \in BOOLEAN /\ sta_stop \in BOOLEAN /\ seen.id \in Ids
  BY DEF Rest
<1>4. sync_id \in Ids /\ update_id \in Ids
  BY <1>1, <1>2 DEF Parts, Bounds
<1>5. Len(half) <= 1
  BY DEF Parts, Asked
<1>6. Len(last_pkg) <= 1
  <2>1. IF last_pkg = <<>> THEN g.v = 2 * g.d
        ELSE g.v = 2 * g.d + 1 /\ last_pkg = <<DescOf(g.H[g.d].vertex.curr)>>
    BY DEF Parts, Asked
  <2>2. CASE last_pkg = <<>>
    BY <2>2, EmptyIsSeq
  <2>3. CASE last_pkg # <<>>
    <3>1. PICK o : last_pkg = <<o>>
      BY <2>1, <2>3
    <3>2. Len(<<o>>) = 1
      OBVIOUS
    <3> QED
      BY <3>1, <3>2
  <2> QED
    BY <2>2, <2>3
<1>7. ASSUME NEW o \in Packets(update) PROVE o.id \in Ids
  <2>1. /\ Len(update) = Len(g.W)
        /\ \A n \in 1 .. Len(g.W) :
             update[n] = [id |-> g.W[n] % IdMod, to |-> NoVertex, last |-> g.H[g.W[n]].last]
    BY DEF Parts, Updated
  <2>2. PICK n \in 1 .. Len(update) : o = update[n]
    BY <1>7 DEF Packets
  <2>3. n \in 1 .. Len(g.W)
    BY <2>1, <2>2
  <2>4. g.W[n] \in Nat
    BY <1>1, <2>3
  <2>5. o.id = g.W[n] % IdMod
    <3> PICK w : w = g.W[n] % IdMod
      OBVIOUS
    <3>1. o = [id |-> w, to |-> NoVertex, last |-> g.H[g.W[n]].last]
      BY <2>1, <2>2, <2>3
    <3>2. o.id = w
      BY <3>1
    <3> QED
      BY <3>2
  <2> QED
    BY <1>2, <2>4, <2>5
<1>8. ASSUME NEW o \in Packets(sta_out) PROVE o.id \in Ids
  <2>1. Holds(sta_out, StaOutOf(g.S, g.F), g.x1, g.x2, 0, None)
    BY DEF Parts, StaLines
  <2>2. Len(sta_out) = g.x2 - g.x1 /\ g.x1 <= g.x2
    BY <1>1, <2>1, StreamEmpty
  <2>3. /\ g.x1 \in Nat /\ g.x2 \in Nat /\ Len(sta_out) = g.x2 - g.x1
        /\ o \in Packets(sta_out)
    BY <1>1, <1>8, <2>2
  <2>4. PICK c \in g.x1 .. g.x2 - 1 : o = sta_out[c - g.x1 + 1]
    <3>1. Among(o, sta_out, g.x1, g.x2)
      BY <2>3, PlaceInStream
    <3> QED
      BY <3>1 DEF Among
  <2>5. c \in Nat /\ o = StaOutOf(g.S, g.F)[c]
    <3>1. sta_out[c - g.x1 + 1] = StaOutOf(g.S, g.F)[c]
      BY <2>1, <2>4 DEF Holds
    <3>2. c \in Nat
      BY <1>1, <2>4
    <3> QED
      BY <2>4, <3>1, <3>2
  <2>6. o.id = g.S[g.F[c].l].a % IdMod
    BY <2>5 DEF StaOutOf, StaLine
  <2>7. g.S[g.F[c].l].a \in Nat
    BY <1>1, <2>5 DEF PlaceSet, ListSet
  <2> QED
    BY <1>2, <2>6, <2>7
<1>9. ASSUME NEW o \in Packets(next_vertex) PROVE o.id \in Ids
  <2> PICK u \in Nat : u = g.B[g.b]
    BY <1>1, GhostFields
  <2> PICK t \in Nat : t = g.t
    BY GhostFields
  <2>1. /\ Len(next_vertex) = t - u
        /\ \A l \in u .. t - 1 : next_vertex[l - u + 1] \in SampledPkg(g.S[l])
    BY DEF Parts, Sampled
  <2>2. u <= t
    BY DEF Parts, Bounds
  <2>3. u \in Nat /\ t \in Nat /\ Len(next_vertex) = t - u /\ o \in Packets(next_vertex)
    BY <1>9, <2>1
  <2>4. PICK l \in u .. t - 1 : o = next_vertex[l - u + 1]
    <3>1. Among(o, next_vertex, u, t)
      BY <2>3, PlaceInStream
    <3> QED
      BY <3>1 DEF Among
  <2>5. l \in Nat /\ o \in SampledPkg(g.S[l])
    <3>1. next_vertex[l - u + 1] \in SampledPkg(g.S[l])
      BY <2>1, <2>4
    <3>2. l \in Nat
      BY <2>4
    <3> QED
      BY <2>4, <3>1, <3>2
  <2>6. o.id = g.S[l].a % IdMod
    BY <2>5 DEF SampledPkg
  <2>7. g.S[l].a \in Nat
    BY <1>1, <2>5 DEF ListSet
  <2> QED
    BY <1>2, <2>6, <2>7
<1>10. \A o \in Packets(update) \union Packets(sta_out) \union Packets(next_vertex) : o.id \in Ids
  BY <1>7, <1>8, <1>9
<1> QED
  BY <1>3, <1>4, <1>5, <1>6, <1>10 DEF TypeOK

\* At the end of a run the kernels up to assert_filter_woe have passed
\* everything on.
LEMMA FrontEnds ==
  ASSUME NEW g \in GhostSet, Parts(g), RunOver
  PROVE  /\ half = <<>> /\ query = <<>> /\ assert_in = <<>> /\ vds = <<>> /\ last_pkg = <<>>
         /\ current = <<>> /\ assert_mask = <<>> /\ update = <<>> /\ update_id = sync_id
<1>1. /\ g.b \in Nat /\ g.v \in Nat /\ g.q \in Nat /\ 0 \in Bit /\ g.W \in Seq(Nat)
  BY GhostFields DEF Bit
<1> PICK e \in Nat : e = g.e
  BY GhostFields
<1> PICK n \in Nat : n = 2 * e
  OBVIOUS
<1>2. g.b = e /\ g.s = e /\ g.d = e /\ g.m = e /\ g.zm = 0
  BY RunOverEnds
<1>3. g.q = n
  BY DEF RunOver, Parts, Flags
<1>4. /\ n <= g.v /\ g.v <= g.q /\ Len(half) \in {0, 1} /\ g.q <= n - Len(half)
  BY <1>2, Order
<1>5. half = <<>>
  <2>1. Len(half) = 0
    BY <1>3, <1>4
  <2>2. IsSeq(half)
    BY DEF Parts, Asked, Holds
  <2> QED
    BY <2>1, <2>2, EmptyIsSeq
<1>6. g.v = n
  BY <1>1, <1>3, <1>4
<1>7. query = <<>>
  <2>1. Holds(query, QueryOf(g.H), g.q, 2 * g.e - Len(half), 0, None)
    BY DEF Parts, Asked
  <2>2. 2 * g.e - Len(half) = n
    BY <1>5, EmptyIsSeq
  <2>3. Holds(query, QueryOf(g.H), n, n, 0, None)
    BY <1>3, <2>1, <2>2
  <2> QED
    BY <2>3, StreamEmpty
<1>8. vds = <<>>
  <2>1. Holds(vds, VdsOf(g.H), n, n, 0, None)
    BY <1>3, <1>6 DEF Parts, Asked
  <2> QED
    BY <2>1, StreamEmpty
<1>9. last_pkg = <<>>
  <2>1. g.v # 2 * g.d + 1
    BY <1>2, <1>6
  <2> QED
    BY <2>1 DEF Parts, Asked
<1>10. assert_in = <<>> /\ current = <<>>
  <2>1. Holds(assert_in, AssertOf(g.H), e, e, 0, None) /\ Holds(current, CurrentOf(g.H), e, e, 0, None)
    BY <1>2 DEF Parts, Asked, Masked
  <2> QED
    BY <2>1, StreamEmpty
<1>11. assert_mask = <<>>
  <2>1. Holds(assert_mask, MaskOf(g.H), e, e, 0, StopMask)
    BY <1>2 DEF Parts, Masked
  <2> QED
    BY <2>1, StreamEmpty
<1>12. update = <<>>
  <2>1. /\ IsSeq(update) /\ Len(update) = Len(g.W)
        /\ \A c \in 1 .. Len(g.W) : g.W[c] \in e .. e - 1
    BY <1>2 DEF Parts, Updated
  <2>2. Len(update) \in Nat
    BY <2>1, EmptyIsSeq
  <2>3. \A c : c \notin e .. e - 1
    OBVIOUS
  <2>4. 1 \notin 1 .. Len(g.W)
    BY <2>1, <2>3
  <2>5. Len(update) = 0
    BY <2>1, <2>2, <2>4
  <2> QED
    BY <2>1, <2>5, EmptyIsSeq
<1>13. update_id = sync_id
  BY <1>2 DEF Parts, Bounds
<1> QED
  BY <1>5, <1>7, <1>8, <1>9, <1>10, <1>11, <1>12, <1>13

\* And so have the engines and the weight kernels.
LEMMA EnginesEnd ==
  ASSUME Rest, NEW g \in GhostSet, Parts(g), RunOver
  PROVE  /\ last = <<>> /\ sta_vd = <<>> /\ filtered = <<>> /\ sta_line = 0 /\ sta_cmd = <<>>
         /\ assert_out = <<>> /\ sta_out = <<>> /\ si_vd = <<>> /\ si_line = 0 /\ si_cmd = <<>>
         /\ si_out = <<>> /\ seen = NothingSeen /\ next_vertex = <<>>
<1>1. /\ g.x1 \in Nat /\ g.x2 \in Nat /\ g.x3 \in Nat /\ g.F \in [Nat -> PlaceSet]
      /\ g.y1 \in Nat /\ g.y2 \in Nat /\ g.y3 \in Nat /\ g.U \in [Nat -> PlaceSet]
      /\ g.k \in Nat /\ g.i \in Nat /\ g.j \in Nat
  BY GhostFields
<1> PICK e \in Nat : e = g.e
  BY GhostFields
<1> PICK u \in Nat : u = g.B[e]
  BY GhostFields
<1> PICK t \in Nat : t = g.t
  BY GhostFields
<1>2. /\ g.b = e /\ g.s = e /\ g.d = e /\ g.m = e
      /\ g.zf = 0 /\ g.zv = 0 /\ g.zc = 0 /\ g.yl = 0 /\ g.yv = 0 /\ g.yc = 0
  BY RunOverEnds
<1>3. g.k = u /\ g.x2 = g.x3 /\ g.i = u /\ g.j = u /\ g.y2 = g.y3
  BY <1>2 DEF RunOver, Parts, StaStops, SiStops
<1>4. u <= t
  BY <1>2 DEF Parts, Bounds
<1>5. last = <<>> /\ si_vd = <<>>
  <2>1. /\ Holds(last, LastOf(g.S), u, u, 0, VdsOf(g.H)[2 * g.e - 1])
        /\ Holds(si_vd, SiVdOf(g.S), u, u, 0, StopVd)
    BY <1>2, <1>3 DEF Parts, SiLines
  <2> QED
    BY <2>1, StreamEmpty
<1>6. sta_vd = <<>> /\ filtered = <<>>
  <2>1. /\ Holds(sta_vd, StaVdOf(g.S), u, u, 0, StopVd)
        /\ Holds(filtered, FilteredOf(g.S), u, u, 0, StopAssert)
    BY <1>2, <1>3 DEF Parts, Masked
  <2> QED
    BY <2>1, StreamEmpty
<1>7. sta_line = 0 /\ si_line = 0
  <2>1. ~(g.k < g.B[g.s]) /\ ~(g.j < g.i)
    BY <1>2, <1>3
  <2> QED
    BY <2>1 DEF Parts, StaLines, SiLines
<1>8. g.x1 = g.x3
  <2> SUFFICES ASSUME g.x1 # g.x3 PROVE FALSE
    OBVIOUS
  <2>1. g.x1 \in g.x1 .. g.x3 - 1
    BY <1>1, StaPlaces
  <2>2. g.F[g.x1].l < u
    BY <1>2, <2>1 DEF Parts, StaLines
  <2>3. g.F[g.x1].l = t \/ g.F[g.x1].l = t + 1
    BY DEF Parts, StaLines
  <2> QED
    BY <1>4, <2>2, <2>3
<1>9. t = u /\ ~seen.curr_end
  <2>1. g.F[g.x1].l = u
    BY <1>3, <1>8, StaPlaces
  <2>2. g.F[g.x1].l = IF seen.curr_end THEN t + 1 ELSE t
    BY DEF Parts, StaLines
  <2> QED
    BY <1>4, <2>1, <2>2
<1>10. sta_out = <<>> /\ sta_cmd = <<>> /\ assert_out = <<>>
  <2> PICK x \in Nat : x = g.x1
    BY <1>1
  <2>1. /\ Holds(sta_out, StaOutOf(g.S, g.F), x, x, 0, None)
        /\ Holds(sta_cmd, StaCmdOf(g.S, g.F), x, x, 0, StopCmd)
        /\ Holds(assert_out, AssertsOf(g.S, g.F), x, x, 0, None)
    BY <1>2, <1>3, <1>8 DEF Parts, StaLines
  <2> QED
    BY <2>1, StreamEmpty
<1>11. ~seen.prev_end /\ g.U[g.y1].l = t
  <2>1. ~(g.t < g.B[g.d])
    BY <1>2, <1>9
  <2> QED
    BY <2>1 DEF Parts, SeenPrev
<1>12. g.y1 = g.y3
  <2> SUFFICES ASSUME g.y1 # g.y3 PROVE FALSE
    OBVIOUS
  <2>1. g.y1 \in g.y1 .. g.y3 - 1
    BY <1>1, SiPlaces
  <2>2. g.U[g.y1].l < u
    BY <1>2, <2>1 DEF Parts, SiLines
  <2> QED
    BY <1>9, <1>11, <2>2
<1>13. si_out = <<>> /\ si_cmd = <<>>
  <2> PICK y \in Nat : y = g.y1
    BY <1>1
  <2>1. /\ Holds(si_out, SiOutOf(g.S, g.U), y, y, 0, None)
        /\ Holds(si_cmd, SiCmdOf(g.S, g.U), y, y, 0, StopCmd)
    BY <1>2, <1>3, <1>12 DEF Parts, SiLines
  <2> QED
    BY <2>1, StreamEmpty
<1>14. seen.against = {}
  <2>1. g.U[g.y1].n = 0
    BY <1>7, <1>12, SiPlaces
  <2> QED
    BY <1>11, <2>1 DEF Parts, SeenPrev
<1>15. ~seen.flag /\ seen.previous = {} /\ seen.selected = Dead /\ seen.id = 0
  <2>1. ~(g.t < g.B[g.s])
    BY <1>2, <1>9
  <2> QED
    BY <2>1 DEF Parts, SeenCurr
<1>16. seen = NothingSeen
  <2>1. seen \in [selected: Int, id: Ids, flag: BOOLEAN,
                  previous: SUBSET (Vertices \union {Dead}), against: SUBSET Nat,
                  curr_end: BOOLEAN, prev_end: BOOLEAN]
    BY DEF Rest
  <2>2. /\ seen.selected = Dead /\ seen.id = 0 /\ seen.flag = FALSE /\ seen.previous = {}
        /\ seen.against = {} /\ seen.curr_end = FALSE /\ seen.prev_end = FALSE
    BY <1>9, <1>11, <1>14, <1>15, <2>1
  <2> HIDE DEF Ids, Vertices
  <2> QED
    BY <2>1, <2>2 DEF NothingSeen
<1>17. next_vertex = <<>>
  <2>1. IsSeq(next_vertex) /\ Len(next_vertex) = g.t - g.B[g.b]
    BY DEF Parts, Sampled
  <2>2. g.t - g.B[g.b] = 0
    BY <1>2, <1>9
  <2> QED
    BY <2>1, <2>2, EmptyIsSeq
<1> QED
  BY <1>5, <1>6, <1>7, <1>10, <1>13, <1>16, <1>17

-----------------------------------------------------------------------------
(* Theorems                                                                 *)

\* PairInv holds in every reachable state: every stream between the kernels
\* holds just what lies between the places of its reader and its writer in one
\* history of the steps, whatever mix of steps is in flight.
THEOREM PairInvariant == Spec => []PairInv
<1>1. Init => PairInv
  BY PairInitially
<1>2. PairInv /\ [Next]_vars => PairInv'
  BY PairStep
<1> QED
  BY <1>1, <1>2, PTL DEF Spec

\* The two burst engines and the kernels around them answer every step in its
\* turn with one of its own neighbours, weighed with the list and the name of
\* the previous vertex of the same step.  step_duplicator asks, sta_update_merge
\* answers and every other step is invisible.
THEOREM PairRefinement == Spec => ImplementsSteps
<1>1. Init => Service!Init
  BY DEF Init, Service!Init
<1>2. PairInv /\ [Next]_vars => [Service!Next]_Service!vars
  <2> SUFFICES ASSUME PairInv, [Next]_vars
               PROVE  Service!Next \/ UNCHANGED <<pending, answer>>
    BY DEF Service!vars
  <2>1. CASE DuplicateCurr
    <3>1. Service!Ask
      BY <2>1 DEF DuplicateCurr, Service!Ask
    <3> QED
      BY <3>1 DEF Service!Next
  <2>2. CASE StaUpdateMerge
    BY <2>2, AnswerIsService DEF Service!Next
  <2>3. CASE DuplicatePrev \/ VertexLoader \/ VdDispatch \/ StaVdScheduler \/ AssertFilter
    BY <2>3 DEF DuplicatePrev, VertexLoader, VdDispatch, DispatchCurr, DispatchPrev,
                StaVdScheduler, StaSchedule, StaScheduleStop, AssertFilter, outVars
  <2>4. CASE StaCmdGenerator \/ SiSchedule \/ SiCmdGenerator \/ StaBurst \/ SiBurst
    BY <2>4 DEF StaCmdGenerator, SiSchedule, SiCmdGenerator, StaBurst, SiBurst, outVars
  <2>5. CASE Weigh \/ Restart
    BY <2>5 DEF Weigh, WeighCurr, WeighPrev, Sample, Restart, outVars
  <2>6. CASE Idle \/ UNCHANGED vars
    BY <2>6 DEF Idle, vars, outVars
  <2> QED
    BY <2>1, <2>2, <2>3, <2>4, <2>5, <2>6 DEF Next, StepDuplicator
<1> QED
  BY <1>1, <1>2, PairInvariant, PTL DEF Spec, ImplementsSteps, Service!Spec

\* When the host starts the kernels for the next run nothing of the old one is
\* left in any stream or register of the two burst engines, and the number of
\* the next step is the one sta_update_merge waits for; all along every number
\* is in the range it counts in.
THEOREM PairRestart == Spec => []CleanRestart
<1>1. PairInv => CleanRestart
  <2> SUFFICES ASSUME PairInv PROVE CleanRestart
    OBVIOUS
  <2>1. PICK g \in GhostSet : Parts(g)
    BY DEF PairInv
  <2>2. Rest
    BY DEF PairInv
  <2>3. TypeOK
    BY <2>1, <2>2, TypesHold
  <2>4. ASSUME RunOver PROVE ~sta_stop
    BY <2>1, <2>4, RunOverEnds
  <2> QED
    BY <2>1, <2>2, <2>3, <2>4, FrontEnds, EnginesEnd DEF CleanRestart
<1> QED
  BY <1>1, PairInvariant, PTL
=============================================================================
