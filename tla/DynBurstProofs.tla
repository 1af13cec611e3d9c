--------------------------- MODULE DynBurstProofs ---------------------------
(***************************************************************************)
(* Proofs about the dynamic burst engine, for every graph, size of a line  *)
(* and of a burst, depth of the streams and sequence of requests.          *)
(*                                                                         *)
(* Three kernels count requests, lists and commands with numbers that wrap *)
(* and three merges wait for them.  The invariant speaks of the history    *)
(* the numbers have lost: which request every list is of, which lines of   *)
(* its list every command and every line stands for, and the places in the *)
(* lists that cmd_generator, the merges and the sampler have come to.      *)
(* The lines of a list pass through two engines at once, but the place     *)
(* every one of them starts from is the place behind the one before.       *)
(***************************************************************************)
EXTENDS DynBurst, StreamLemmas, TLAPS

Pkg     == [vertex: [start: Nat, size: Nat], last: BOOLEAN]
CmdPkg  == [addr: Nat, start: Nat, end: Nat, id: Nat, burst_id: Nat,
            end_of_burst: BOOLEAN, dynamic_id: Nat, last: BOOLEAN]
LinePkg == [words: SUBSET Int, id: Nat, burst_id: Nat, end_of_burst: BOOLEAN,
            dynamic_id: Nat, end_of_dynamic: BOOLEAN, last: BOOLEAN]
VdPkg   == [start: Nat, size: Nat, id: Nat, burst_id: Nat, last: BOOLEAN]

\* a list: the number of its request and the request; a place in the lists: line
\* m of list l.  Lists, lines and commands are counted without wrapping.
ListSet  == [a: Nat, p: Pkg]
PlaceSet == [l: Nat, m: Nat]

\* packets with what they do not carry: their list, the line m of it they are or
\* begin with, and the number x of their command
CmdTag  == [l: Nat, m: Nat, x: Nat, p: CmdPkg]
LineTag == [l: Nat, m: Nat, p: LinePkg]
VdTag   == [l: Nat, p: VdPkg]

\* the requests by number, how many lists there are before a request, and the
\* lists; the first request not answered, the next to be scheduled and the next
\* to be asked for
FrontSet == [H: [Nat -> Pkg], B: [Nat -> Nat], S: [Nat -> ListSet], b: Nat, s: Nat, e: Nat]

\* the commands of single_burst or of dynamic_burst_1, the places the reader of the
\* lines, the engine and the writer of the commands have come to, and the stop
\* packets behind them
EngineSet == [T: [Nat -> CmdTag], k1: Nat, k2: Nat, k3: Nat, z: Bit]

\* the lists of cmd_generator, and its place and that of vd_scheduler
VdSet == [T: [Nat -> VdTag], p: Nat, q: Nat, z: Bit]

\* the commands of dynamic_burst_32, and its lines: line n of command k
LineRef == [k: Nat, n: Nat]
LongSet == [T: [Nat -> CmdTag], k1: Nat, k2: Nat, k3: Nat, z: Bit,
            R: [Nat -> LineRef], r1: Nat, r2: Nat]

\* the place every command starts from, and the next command of intra_merge and
\* of cmd_generator
NumberSet == [P: [Nat -> PlaceSet], lo: Nat, hi: Nat]

\* the lines behind intra_merge and the places they start from
MergedSet == [G: [Nat -> LineTag], Q: [Nat -> PlaceSet], g1: Nat, g2: Nat]

\* the lines behind inter_merge and the places they start from; the next line of
\* inter_merge is line mi of list i, that of sample line mt of list t
OutSet == [K: [Nat -> LinePkg], J: [Nat -> PlaceSet], k1: Nat, k2: Nat,
           i: Nat, mi: Nat, t: Nat, mt: Nat]

-----------------------------------------------------------------------------
(* What the streams hold                                                   *)

PkgOf(T) == [k \in Nat |-> T[k].p]

\* the packets of single_burst, dynamic_burst_1 and dynamic_burst_32
SingleOf(T) == [k \in Nat |-> SyncPkg(T[k].p, 0, TRUE, TRUE)]
OneOf(T)    == [k \in Nat |-> SyncPkg(T[k].p, 0, T[k].p.end_of_burst, TRUE)]
LongPkg(p, n) == SyncPkg(p, n, n = MaxBurst - 1 /\ p.end_of_burst, n = MaxBurst - 1)
LongOf(T, R) == [r \in Nat |-> LongPkg(T[R[r].k].p, R[r].n)]

StopCmd == [addr |-> 0, start |-> 0, end |-> 0, id |-> StopId, burst_id |-> 0,
            end_of_burst |-> TRUE, dynamic_id |-> 0, last |-> TRUE]
StopVd  == [start |-> 0, size |-> StopLines * LineWords, id |-> StopId, burst_id |-> 0,
            last |-> TRUE]

-----------------------------------------------------------------------------
(* The inductive invariant                                                 *)

\* memory lines of a list
Lines(d) == (EndAddr(d) - LineOf(d.start)) \div LineWords

\* the neighbours in line m of a list, and in the lines before
InLine(d, m) == {w \in Words(d) : LineOf(w) = LineOf(d.start) + m * LineWords}
Below(d, m)  == {w \in Words(d) : w < LineOf(d.start) + m * LineWords}

\* No long burst goes beyond the end of its list, which its masks do not see
LongBurstsFit ==
    \A d \in Descs : d.size # 0 /\ Lines(d) % MaxBurst = 0 => EndAddr(d) = d.start + d.size

\* nor does one start in front of it
LongBurstsWhole ==
    /\ LongBurstsFit
    /\ \A d \in Descs : d.size # 0 /\ Lines(d) >= MaxBurst => LineOf(d.start) = d.start

Sized(p) == p.vertex.size # 0

Requests(f) ==
    /\ FirstId <= f.b /\ f.b <= f.s /\ f.s <= f.e /\ f.e - f.b <= MaxInFlight
    /\ sync_id = f.s % IdMod /\ update_id = f.b % IdMod
    /\ sync_burst_id = f.B[f.s] % IdMod
    /\ Holds(pending, f.H, f.b, f.e, 0, None)
    /\ Holds(input, f.H, f.s, f.e, 0, None)
    /\ \A a \in f.b .. f.e - 1 : f.H[a].last => a = f.e - 1
    /\ vs_pc # "run" => f.s = f.e

\* a request is numbered, and so is the list of a request that has one
Numbering(f) ==
    /\ \A a \in FirstId .. f.e - 1 :
         /\ f.H[a].vertex \in Descs
         /\ f.B[a + 1] = IF Sized(f.H[a]) THEN f.B[a] + 1 ELSE f.B[a]
         /\ Sized(f.H[a]) => f.S[f.B[a]] = [a |-> a, p |-> f.H[a]]
    /\ \A a, c \in FirstId .. f.e : a <= c => f.B[a] <= f.B[c] /\ f.B[c] - f.B[a] <= c - a
    /\ f.B[FirstId] = FirstId
    /\ \A l \in FirstId .. f.B[f.e] - 1 :
         /\ f.S[l].a \in FirstId .. f.e - 1
         /\ Sized(f.H[f.S[l].a]) /\ f.B[f.S[l].a] = l

\* the requests without a list that are not answered
Empties(f, w) ==
    /\ IsSeq(update) /\ Len(update) = Len(w)
    /\ \A n \in 1 .. Len(w) :
         /\ w[n] \in f.b .. f.s - 1 /\ ~Sized(f.H[w[n]])
         /\ update[n] = [to |-> Dead, id |-> w[n] % IdMod, last |-> f.H[w[n]].last]
    /\ \A n, m \in 1 .. Len(w) : n < m => w[n] < w[m]

\* packet p is made for list l, one of those from i up to n
Listed(S, i, n, l, p) ==
    l \in i .. n - 1 /\ p.id = S[l].a % IdMod /\ p.burst_id = l % IdMod

\* words are shown of line m of a list: no others than neighbours, and all of
\* them, if the long bursts allow it
Shows(d, m, words) ==
    /\ LongBurstsFit => words \subseteq Words(d)
    /\ LongBurstsWhole => words = InLine(d, m)

\* packet p is the command for k lines of list l, from line m on
CmdOfList(S, i, n, l, m, k, p) ==
    LET d == S[l].p.vertex
    IN  /\ Listed(S, i, n, l, p) /\ m + k <= Lines(d)
        /\ p.end_of_burst = (m + k = Lines(d))
        /\ p.end_of_burst => p.last = S[l].p.last
        /\ \A h \in 0 .. k - 1 : Shows(d, m + h, Unmasked(p, h))

\* packet p is line m of list l
LineOfList(S, i, n, l, m, p) ==
    LET d == S[l].p.vertex
    IN  /\ Listed(S, i, n, l, p) /\ m + 1 <= Lines(d) /\ p.dynamic_id \in Ids
        /\ p.end_of_burst = (m + 1 = Lines(d))
        /\ p.end_of_burst => p.last = S[l].p.last
        /\ Shows(d, m, p.words)

InOneLine(S, l) == Lines(S[l].p.vertex) = 1

SingleTag(S, i, n, T) ==
    /\ Listed(S, i, n, T.l, T.p) /\ InOneLine(S, T.l)
    /\ T.p.last = S[T.l].p.last /\ T.p.dynamic_id \in Ids
    /\ Shows(S[T.l].p.vertex, 0, Unmasked(T.p, 0))

Singles(S, i, n, u) ==
    /\ Holds(sync["single"], SingleOf(u.T), u.k1, u.k2, 0, None)
    /\ Holds(cmd["single"], PkgOf(u.T), u.k2, u.k3, u.z, StopCmd)
    /\ \A k \in u.k1 .. u.k3 - 1 : SingleTag(S, i, n, u.T[k])
    /\ \A k, m \in u.k1 .. u.k3 - 1 : k < m => u.T[k].l < u.T[m].l

VdTagged(S, i, n, T) ==
    LET d == S[T.l].p.vertex
    IN  /\ Listed(S, i, n, T.l, T.p) /\ ~InOneLine(S, T.l)
        /\ T.p.last = S[T.l].p.last /\ T.p.start = d.start /\ T.p.size = d.size

Vds(S, i, n, v) ==
    /\ Holds(burst_vd, PkgOf(v.T), v.p, v.q, v.z, StopVd)
    /\ \A k \in v.p .. v.q - 1 : VdTagged(S, i, n, v.T[k])
    /\ \A k, m \in v.p .. v.q - 1 : k < m => v.T[k].l < v.T[m].l

\* cmd_generator has sent long bursts only, or will send no more
Generated(v) ==
    /\ curr \in Nat
    /\ v.p < v.q => LET d == v.T[v.p].p
                    IN  /\ curr < Lines(d)
                        /\ curr + MaxBurst <= Lines(d) => \E h \in Nat : curr = h * MaxBurst
    /\ v.p = v.q => IF v.z = 1 THEN curr \in {0, MaxBurst} ELSE curr = 0

\* line m of list l is the next one from place q on; the place behind k lines
At(q, l, m) == q.l <= l /\ m = q.m /\ (q.m # 0 => q.l = l)
Behind(l, m, k, end) == IF end THEN [l |-> l + 1, m |-> 0] ELSE [l |-> l, m |-> m + k]

\* a command of cmd_generator for k lines
CmdTagged(S, i, n, c, T, k) ==
    /\ CmdOfList(S, i, n, T.l, T.m, k, T.p) /\ ~InOneLine(S, T.l)
    /\ T.x \in c.lo .. c.hi - 1 /\ T.p.dynamic_id = T.x % IdMod
    /\ At(c.P[T.x], T.l, T.m) /\ c.P[T.x + 1] = Behind(T.l, T.m, k, T.p.end_of_burst)

\* the commands of an engine, in the order of their numbers
Commands(S, i, n, c, a, k) ==
    /\ \A h \in a.k1 .. a.k3 - 1 : CmdTagged(S, i, n, c, a.T[h], k)
    /\ \A h, m \in a.k1 .. a.k3 - 1 : h < m => a.T[h].x < a.T[m].x

\* commands, and a stop packet that is told by its number
Commanded(s, a) ==
    \E stop : Holds(s, PkgOf(a.T), a.k2, a.k3, a.z, stop) /\ stop.id = StopId

OneStreams(a) ==
    /\ Holds(sync["one"], OneOf(a.T), a.k1, a.k2, 0, None)
    /\ Commanded(cmd["one"], a)

LongStreams(y) ==
    /\ Holds(sync["long"], LongOf(y.T, y.R), y.r1, y.r2, 0, None)
    /\ Commanded(cmd["long"], y)

\* the line of a long burst, or of the next one, behind line q
LineBehind(q) == IF q.n = MaxBurst - 1 THEN [k |-> q.k + 1, n |-> 0]
                 ELSE [k |-> q.k, n |-> q.n + 1]

\* the lines from place r1 to place r2 follow one another in the commands up to k
LinesFollow(R, r1, r2, k) ==
    /\ \A r \in r1 .. r2 - 1 :
         R[r].k < k /\ R[r].n \in 0 .. MaxBurst - 1 /\ R[r + 1] = LineBehind(R[r])
    /\ \A r, m \in r1 .. r2 : r <= m => R[r].k <= R[m].k /\ R[m].k - R[r].k <= m - r

\* the lines of long bursts
LongLines(y) ==
    /\ y.k1 <= y.k2 /\ y.k2 <= y.k3 /\ y.R[y.r1].k = y.k1
    /\ y.R[y.r2] = [k |-> y.k2, n |-> j]
    /\ j \in 0 .. MaxBurst - 1 /\ (j # 0 => y.k2 < y.k3)
    /\ LinesFollow(y.R, y.r1, y.r2, y.k3)

\* every number is that of one command, and the commands are in order
Counted(a, y, c) ==
    /\ dynamic_burst_id = c.hi % IdMod /\ intra_id = c.lo % IdMod
    /\ c.lo <= c.hi /\ c.hi - c.lo = (a.k3 - a.k1) + (y.k3 - y.k1)
    /\ \A h \in a.k1 .. a.k3 - 1, m \in y.k1 .. y.k3 - 1 : a.T[h].x # y.T[m].x
    /\ \A h, m \in c.lo .. c.hi : h <= m => c.P[h].l <= c.P[m].l

\* cmd_generator is at the place behind its last command
Ordered(n, v, c) ==
    /\ c.P[c.hi].l <= n
    /\ IF v.p < v.q THEN At(c.P[c.hi], v.T[v.p].l, curr) ELSE c.P[c.hi].m = 0

\* intra_merge has come to the start of a command or into a long burst
Linked(y, c, g) ==
    LET r == y.R[y.r1]
    IN  IF r.n = 0 THEN g.Q[g.g2] = c.P[c.lo]
        ELSE /\ y.T[y.k1].x = c.lo
             /\ g.Q[g.g2] = [l |-> y.T[y.k1].l, m |-> y.T[y.k1].m + r.n]

\* packet T is a line of a list of several lines
MergedLine(S, i, n, T) ==
    LineOfList(S, i, n, T.l, T.m, T.p) /\ ~InOneLine(S, T.l)

Merged(S, i, n, g) ==
    /\ Holds(sync["dynamic"], PkgOf(g.G), g.g1, g.g2, 0, None)
    /\ \A h \in g.g1 .. g.g2 - 1 :
         /\ MergedLine(S, i, n, g.G[h])
         /\ At(g.Q[h], g.G[h].l, g.G[h].m)
         /\ g.Q[h + 1] = Behind(g.G[h].l, g.G[h].m, 1, g.G[h].p.end_of_burst)
    /\ \A h, m \in g.g1 .. g.g2 : h <= m => g.Q[h].l <= g.Q[m].l

\* inter_merge has come to the start of a list or into one of several lines
Joined(S, n, g, o) ==
    IF o.mi = 0 THEN g.Q[g.g1].m = 0 /\ g.Q[g.g1].l <= o.i
    ELSE g.Q[g.g1] = [l |-> o.i, m |-> o.mi] /\ o.i < n /\ ~InOneLine(S, o.i)

Out(S, n, o) ==
    /\ o.t <= o.i /\ o.i <= n /\ inter_id = o.i % IdMod
    /\ Holds(inter_out, o.K, o.k1, o.k2, 0, None)
    /\ o.J[o.k1] = [l |-> o.t, m |-> o.mt] /\ o.J[o.k2] = [l |-> o.i, m |-> o.mi]
    /\ \A h \in o.k1 .. o.k2 - 1 :
         /\ LineOfList(S, FirstId, n, o.J[h].l, o.J[h].m, o.K[h])
         /\ o.J[h + 1] = Behind(o.J[h].l, o.J[h].m, 1, o.K[h].end_of_burst)
    /\ \A h, m \in o.k1 .. o.k2 : h <= m => o.J[h].l <= o.J[m].l

SampledPkg(x) ==
    [id: {x.a % IdMod}, last: {x.p.last},
     to: IF LongBurstsFit THEN Answers(x.p.vertex) ELSE Int]

\* what the sampling kernels have been shown and have selected, and the lists
\* that are sampled, b the oldest of them
Sampled(S, b, n, o) ==
    /\ b <= o.t
    /\ selected \in Int
    /\ selected # Dead => o.t < n /\ (LongBurstsFit => selected \in Words(S[o.t].p.vertex))
    /\ o.mt = 0 => shown = {}
    /\ o.mt # 0 => o.t < n /\ (LongBurstsWhole => shown = Below(S[o.t].p.vertex, o.mt))
    /\ IsSeq(next_vertex) /\ Len(next_vertex) = o.t - b
    /\ \A l \in b .. o.t - 1 : next_vertex[l - b + 1] \in SampledPkg(S[l])

\* one stop packet for each engine, behind everything else of the run
Stops(u, v, a, y) ==
    /\ u.z = 1 => running["single"]
    /\ u.z = 1 \/ ~running["single"] => vs_pc \in {"stop_dynamic", "done"}
    /\ ~running["single"] => u.k2 = u.k3
    /\ v.z = 1 \/ a.z = 1 \/ y.z = 1 \/ ~running["one"] \/ ~running["long"] => vs_pc = "done"
    /\ vs_pc = "done" /\ v.z = 0 => v.p = v.q
    /\ v.z = 1 => a.z = 0 /\ running["one"]
    /\ v.z = 1 /\ (v.p < v.q \/ curr = 0) => y.z = 0 /\ running["long"]
    /\ y.z = 1 \/ ~running["long"] => v.p = v.q
    /\ a.z = 1 \/ ~running["one"] => v.p = v.q
    /\ a.z = 1 => running["one"]
    /\ y.z = 1 => running["long"]
    /\ ~running["one"] => a.k2 = a.k3
    /\ ~running["long"] => y.k2 = y.k3

\* what has no other part
Rest == /\ asked \in 0 .. MaxReq
        /\ vs_pc \in {"run", "stop_single", "stop_dynamic", "done"}
        /\ running \in [Engines -> BOOLEAN]
        /\ DOMAIN cmd = Engines /\ DOMAIN sync = Sources
        /\ \A e \in {"one", "long"} : Len(cmd[e]) <= CmdDepth /\ Len(sync[e]) <= SyncDepth

Parts(f, w, u, v, a, y, c, g, o) ==
    LET n == f.B[f.s]
    IN  /\ Requests(f) /\ Numbering(f) /\ Empties(f, w)
        /\ Singles(f.S, o.i, n, u) /\ Vds(f.S, o.i, n, v) /\ Generated(v)
        /\ OneStreams(a) /\ Commands(f.S, o.i, n, c, a, 1)
        /\ LongStreams(y) /\ Commands(f.S, o.i, n, c, y, MaxBurst) /\ LongLines(y)
        /\ Counted(a, y, c) /\ Ordered(n, v, c)
        /\ Linked(y, c, g) /\ Merged(f.S, o.i, n, g) /\ Joined(f.S, n, g, o)
        /\ Out(f.S, n, o) /\ Sampled(f.S, f.B[f.b], n, o) /\ Stops(u, v, a, y)

BurstInv ==
    Rest /\ \E f \in FrontSet, w \in Seq(Nat), u \in EngineSet, v \in VdSet, a \in EngineSet,
              y \in LongSet, c \in NumberSet, g \in MergedSet, o \in OutSet :
              Parts(f, w, u, v, a, y, c, g, o)
-----------------------------------------------------------------------------
(* Lines of a list                                                         *)

\* Multiples of the size of a line.
LEMMA Products ==
  ASSUME NEW W \in Nat, W > 0, NEW a \in Nat, NEW b \in Nat
  PROVE  /\ W * a \in Nat /\ W * (a + b) = W * a + W * b
         /\ a < b => W * a + W <= W * b
         /\ a < b <=> W * a < W * b
         /\ a <= b <=> W * a <= W * b
         /\ a = b <=> W * a = W * b
         /\ a * W = W * a
<1>1. ASSUME NEW x \in Nat, NEW z \in Nat, x < z
      PROVE  W * x + W <= W * z
  <2>1. PICK o \in Nat : z = x + 1 + o
    <3>1. z - x - 1 \in Nat /\ z = x + 1 + (z - x - 1)
      BY <1>1
    <3> QED
      BY <3>1
  <2>2. W * z = W * x + W + W * o
    BY <2>1
  <2>3. W * o \in Nat /\ W * x \in Nat
    OBVIOUS
  <2> QED
    BY <2>2, <2>3
<1>2. W * a \in Nat /\ W * b \in Nat /\ W * (a + b) = W * a + W * b /\ a * W = W * a
  OBVIOUS
<1>3. a < b => W * a + W <= W * b
  BY <1>1
<1>4. b < a => W * b + W <= W * a
  BY <1>1
<1> QED
  BY <1>2, <1>3, <1>4

\* A line begins at a multiple of its size.
LEMMA LineBounds ==
  ASSUME NEW w \in Nat
  PROVE  /\ LineWords \in Nat /\ LineWords > 0
         /\ \E q \in Nat : /\ LineOf(w) = LineWords * q
                           /\ LineWords * q <= w /\ w < LineWords * q + LineWords
<1>1. LineWords \in Nat /\ LineWords > 0
  BY BurstAssumption
<1>2. /\ w \div LineWords \in Nat /\ w % LineWords \in 0 .. LineWords - 1
      /\ w = LineWords * (w \div LineWords) + (w % LineWords)
  BY <1>1, QuotientRemainder
<1> PICK q \in Nat, r \in 0 .. LineWords - 1 :
      q = w \div LineWords /\ r = w % LineWords /\ w = LineWords * q + r
  BY <1>2
<1>3. LineWords * q \in Nat
  BY <1>1, Products
<1>4. LineOf(w) = w - r
  BY DEF LineOf
<1>5. LineOf(w) = LineWords * q /\ LineWords * q <= w /\ w < LineWords * q + LineWords
  BY <1>1, <1>3, <1>4
<1> QED
  BY <1>1, <1>5

\* and the words up to the next one are its words.
LEMMA LineWith ==
  ASSUME NEW w \in Nat, NEW q \in Nat
  PROVE  LineOf(w) = LineWords * q <=> LineWords * q <= w /\ w < LineWords * q + LineWords
<1>1. LineWords \in Nat /\ LineWords > 0
  BY BurstAssumption
<1>2. PICK r \in Nat : /\ LineOf(w) = LineWords * r
                       /\ LineWords * r <= w /\ w < LineWords * r + LineWords
  BY LineBounds
<1>3. LineWords * q \in Nat /\ LineWords * r \in Nat
  BY <1>1, Products
<1>4. q < r => LineWords * q + LineWords <= LineWords * r
  BY <1>1, Products
<1>5. r < q => LineWords * r + LineWords <= LineWords * q
  BY <1>1, Products
<1>6. LineWords * q = LineWords * r => q = r
  BY <1>1, Products
<1> QED
  BY <1>1, <1>2, <1>3, <1>4, <1>5, <1>6

\* The lines of a list, by the number of its first line, and where it ends.
LEMMA ListLines ==
  ASSUME NEW d, d.start \in Nat, d.size \in Nat, d.size # 0
  PROVE  /\ Lines(d) \in Nat /\ Lines(d) >= 1
         /\ \E q \in Nat :
              /\ LineOf(d.start) = LineWords * q
              /\ LineWords * q <= d.start /\ d.start < LineWords * q + LineWords
              /\ EndAddr(d) = LineWords * (q + Lines(d))
              /\ d.start + d.size <= EndAddr(d) /\ EndAddr(d) < d.start + d.size + LineWords
<1>1. LineWords \in Nat /\ LineWords > 0
  BY BurstAssumption
<1> PICK a \in Nat, b \in Nat : a = d.start /\ b = d.start + d.size
  OBVIOUS
<1>2. PICK q \in Nat : /\ LineOf(a) = LineWords * q
                       /\ LineWords * q <= a /\ a < LineWords * q + LineWords
  BY LineBounds
<1>3. PICK r \in Nat : /\ LineOf(b) = LineWords * r
                       /\ LineWords * r <= b /\ b < LineWords * r + LineWords
  BY LineBounds
<1>4. EndAddr(d) = IF LineOf(b) = b THEN b ELSE LineOf(b) + LineWords
  BY DEF EndAddr
<1>5. PICK o \in Nat : EndAddr(d) = LineWords * o /\ b <= LineWords * o
                       /\ LineWords * o < b + LineWords
  <2>1. CASE LineOf(b) = b
    BY <1>1, <1>3, <1>4, <2>1
  <2>2. CASE LineOf(b) # b
    <3>1. LineWords * (r + 1) = LineWords * r + LineWords /\ r + 1 \in Nat
      BY <1>1
    <3>2. LineWords * r \in Nat
      BY <1>1, Products
    <3>3. EndAddr(d) = LineWords * (r + 1)
      BY <1>3, <1>4, <2>2, <3>1
    <3>4. b <= LineWords * (r + 1) /\ LineWords * (r + 1) < b + LineWords
      BY <1>1, <1>3, <2>2, <3>1, <3>2
    <3> QED
      BY <3>1, <3>3, <3>4
  <2> QED
    BY <2>1, <2>2
<1>6. q < o
  <2>1. LineWords * q \in Nat /\ LineWords * o \in Nat /\ (q < o <=> LineWords * q < LineWords * o)
    BY <1>1, Products
  <2>2. a < b
    OBVIOUS
  <2> QED
    BY <1>2, <1>5, <2>1, <2>2
<1> PICK m \in Nat : o = q + m /\ m >= 1
  <2>1. o - q \in Nat /\ o = q + (o - q) /\ o - q >= 1
    BY <1>6
  <2> QED
    BY <2>1
<1>7. Lines(d) = m
  <2>1. LineWords * o = LineWords * q + LineWords * m /\ LineWords * q \in Nat /\ LineWords * m \in Nat
    BY <1>1, Products
  <2>2. EndAddr(d) - LineOf(d.start) = LineWords * m
    BY <1>2, <1>5, <2>1
  <2>3. (LineWords * m) \div LineWords = m
    BY <1>1
  <2> QED
    BY <2>2, <2>3 DEF Lines
<1>8. LineWords * o = LineWords * (q + Lines(d))
  BY <1>7
<1> QED
  BY <1>2, <1>5, <1>7, <1>8

\* vd_scheduler sees that a list is in one line.
LEMMA OneLineList ==
  ASSUME NEW d, d.start \in Nat, d.size \in Nat, d.size # 0
  PROVE  LineOf(d.start) = LineOf(d.start + d.size - 1) <=> Lines(d) = 1
<1>1. LineWords \in Nat /\ LineWords > 0 /\ Lines(d) \in Nat /\ Lines(d) >= 1
  BY BurstAssumption, ListLines
<1>2. PICK q \in Nat : /\ LineOf(d.start) = LineWords * q
                       /\ LineWords * q <= d.start
                       /\ EndAddr(d) = LineWords * (q + Lines(d))
                       /\ d.start + d.size <= EndAddr(d) /\ EndAddr(d) < d.start + d.size + LineWords
  BY ListLines
<1> PICK w \in Nat : w = d.start + d.size - 1 /\ w >= d.start
  <2>1. d.start + d.size - 1 \in Nat /\ d.start + d.size - 1 >= d.start
    OBVIOUS
  <2> QED
    BY <2>1
<1>3. LineOf(w) = LineWords * q <=> LineWords * q <= w /\ w < LineWords * q + LineWords
  BY LineWith
<1> PICK m \in Nat : m = Lines(d) /\ m >= 1
  BY <1>1
<1>4. /\ LineWords * q \in Nat
      /\ LineWords * m \in Nat
      /\ LineWords * (q + m) = LineWords * q + LineWords * m
  BY <1>1, Products
<1>5. m = 1 => LineWords * m = LineWords
  BY <1>1
<1>6. m # 1 => LineWords * m >= LineWords + LineWords
  <2>1. 1 < m => LineWords * 1 + LineWords <= LineWords * m
    BY <1>1, Products
  <2> QED
    BY <1>1, <2>1
<1>7. d.start + d.size = w + 1
  OBVIOUS
<1> QED
  BY <1>1, <1>2, <1>3, <1>4, <1>5, <1>6, <1>7

\* What cmd_generator decides by addresses it decides by lines.
LEMMA CommandLines ==
  ASSUME NEW d, d.start \in Nat, d.size \in Nat, d.size # 0, NEW m \in Nat, NEW k \in Nat
  PROVE  LET addr == LineOf(d.start) + m * LineWords
         IN  /\ addr \in Nat /\ addr + k * LineWords \in Nat
             /\ EndAddr(d) >= addr + k * LineWords <=> m + k <= Lines(d)
             /\ addr + k * LineWords = EndAddr(d) <=> m + k = Lines(d)
<1>1. LineWords \in Nat /\ LineWords > 0 /\ Lines(d) \in Nat
  BY BurstAssumption, ListLines
<1>2. PICK q \in Nat : LineOf(d.start) = LineWords * q /\ EndAddr(d) = LineWords * (q + Lines(d))
  BY ListLines
<1> PICK n \in Nat : n = Lines(d)
  BY <1>1
<1> PICK h \in Nat : h = m + k
  OBVIOUS
<1>3. /\ LineWords * q \in Nat
      /\ LineWords * m \in Nat
      /\ LineWords * k \in Nat
      /\ LineWords * n \in Nat
      /\ m * LineWords = LineWords * m /\ k * LineWords = LineWords * k
  BY <1>1, Products
<1>4. /\ LineWords * h = LineWords * m + LineWords * k
      /\ LineWords * (q + n) = LineWords * q + LineWords * n
  BY <1>1, Products
<1>5. (h <= n <=> LineWords * h <= LineWords * n) /\ (h = n <=> LineWords * h = LineWords * n)
  BY <1>1, Products
<1> QED
  BY <1>2, <1>3, <1>4, <1>5

\* The number of a line of a list among all lines, and what is in front of it.
LEMMA LinePlace ==
  ASSUME NEW d, d.start \in Nat, d.size \in Nat, d.size # 0, NEW m \in Nat
  PROVE  \E r \in Nat :
           /\ LineOf(d.start) + m * LineWords = LineWords * r
           /\ LineOf(d.start) + (m + 1) * LineWords = LineWords * r + LineWords
           /\ m = 0 => LineWords * r <= d.start
           /\ m # 0 => d.start < LineWords * r
           /\ m + 1 <= Lines(d) => LineWords * r < d.start + d.size
           /\ m + 1 < Lines(d) => LineWords * r + LineWords <= d.start + d.size
           /\ m + 1 = Lines(d) => d.start + d.size <= LineWords * r + LineWords
           /\ m + 1 = Lines(d) => EndAddr(d) = LineWords * r + LineWords
           /\ LineOf(d.start) = d.start => d.start <= LineWords * r
<1>1. LineWords \in Nat /\ LineWords > 0 /\ Lines(d) \in Nat
  BY BurstAssumption, ListLines
<1>2. PICK q \in Nat : /\ LineOf(d.start) = LineWords * q
                       /\ LineWords * q <= d.start /\ d.start < LineWords * q + LineWords
                       /\ EndAddr(d) = LineWords * (q + Lines(d))
                       /\ d.start + d.size <= EndAddr(d) /\ EndAddr(d) < d.start + d.size + LineWords
  BY ListLines
<1> PICK n \in Nat : n = Lines(d)
  BY <1>1
<1> PICK r \in Nat : r = q + m
  OBVIOUS
<1> PICK e \in Nat : e = q + n
  OBVIOUS
<1>3. /\ LineWords * q \in Nat
      /\ LineWords * m \in Nat
      /\ LineWords * r \in Nat
      /\ LineWords * e \in Nat
      /\ m * LineWords = LineWords * m
      /\ LineWords * r = LineWords * q + LineWords * m
  BY <1>1, Products
<1>4. (m + 1) * LineWords = m * LineWords + LineWords
  BY <1>1
<1>5. m # 0 => LineWords * q + LineWords <= LineWords * r
  <2>1. q < r => LineWords * q + LineWords <= LineWords * r
    BY <1>1, Products
  <2> QED
    BY <2>1
<1>6. m + 1 <= n => LineWords * r + LineWords <= LineWords * e
  <2>1. r < e => LineWords * r + LineWords <= LineWords * e
    BY <1>1, Products
  <2> QED
    BY <2>1
<1>7. m + 1 < n => LineWords * r + LineWords + LineWords <= LineWords * e
  <2>1. r + 1 < e => LineWords * (r + 1) + LineWords <= LineWords * e
    BY <1>1, Products
  <2>2. LineWords * (r + 1) = LineWords * r + LineWords
    BY <1>1
  <2> QED
    BY <1>3, <2>1, <2>2
<1>8. m + 1 = n => LineWords * r + LineWords = LineWords * e
  <2>1. LineWords * (r + 1) = LineWords * r + LineWords
    BY <1>1
  <2>2. m + 1 = n => r + 1 = e
    OBVIOUS
  <2> QED
    BY <2>1, <2>2
<1> PICK x \in Nat, a \in Nat, z \in Nat, o \in Nat :
      x = LineWords * q /\ a = LineWords * r /\ z = LineWords * e /\ o = LineWords * m
  BY <1>3
<1>9. EndAddr(d) = z /\ LineOf(d.start) = x /\ a = x + o
  BY <1>2, <1>3
<1>10. /\ LineOf(d.start) + m * LineWords = a
       /\ LineOf(d.start) + (m + 1) * LineWords = a + LineWords
  BY <1>1, <1>3, <1>4, <1>9
<1>11. /\ m = 0 => a <= d.start
       /\ m # 0 => d.start < a
       /\ x = d.start => d.start <= a
  BY <1>1, <1>2, <1>3, <1>5, <1>9
<1>12. /\ m + 1 <= n => a < d.start + d.size
       /\ m + 1 < n => a + LineWords <= d.start + d.size
       /\ m + 1 = n => d.start + d.size <= a + LineWords
       /\ m + 1 = n => EndAddr(d) = a + LineWords
  BY <1>1, <1>2, <1>6, <1>7, <1>8, <1>9
<1> QED
  BY <1>9, <1>10, <1>11, <1>12

\* The words of one line.
LEMMA InLineWords ==
  ASSUME NEW d, d.start \in Nat, d.size \in Nat, d.size # 0, NEW m \in Nat
  PROVE  LET a == LineOf(d.start) + m * LineWords
         IN  \A w : w \in InLine(d, m) <=>
               /\ w \in Nat /\ d.start <= w /\ w < d.start + d.size
               /\ a <= w /\ w < a + LineWords
<1>1. LineWords \in Nat /\ LineWords > 0
  BY BurstAssumption
<1>2. PICK r \in Nat : LineOf(d.start) + m * LineWords = LineWords * r
  BY LinePlace
<1>3. LineWords * r \in Nat
  BY <1>1, Products
<1>4. ASSUME NEW w
      PROVE  w \in Words(d) <=> w \in Nat /\ d.start <= w /\ w < d.start + d.size
  <2>1. d.start + d.size - 1 \in Nat
    OBVIOUS
  <2> QED
    BY <2>1 DEF Words
<1>5. ASSUME NEW w \in Nat
      PROVE  LineOf(w) = LineWords * r <=> LineWords * r <= w /\ w < LineWords * r + LineWords
  BY LineWith
<1> QED
  BY <1>2, <1>4, <1>5 DEF InLine

\* A command for one line shows the neighbours in that line.
LEMMA LineShows ==
  ASSUME NEW d, d.start \in Nat, d.size \in Nat, d.size # 0,
         NEW m \in Nat, m + 1 <= Lines(d),
         NEW p, p.addr = LineOf(d.start) + m * LineWords,
         p.start = IF p.addr < d.start THEN d.start ELSE p.addr,
         p.end = IF p.addr + 1 * LineWords > d.start + d.size THEN d.start + d.size
                 ELSE p.addr + 1 * LineWords
  PROVE  Shows(d, m, Unmasked(p, 0))
<1>1. LineWords \in Nat /\ LineWords > 0
  BY BurstAssumption
<1>2. PICK r \in Nat : LineOf(d.start) + m * LineWords = LineWords * r
  BY LinePlace
<1> PICK a \in Nat : a = LineWords * r
  BY <1>1, Products
<1>3. p.addr = a
  BY <1>2
<1>4. ASSUME NEW w
      PROVE  w \in InLine(d, m) <=>
               w \in Nat /\ d.start <= w /\ w < d.start + d.size /\ a <= w /\ w < a + LineWords
  BY <1>2, InLineWords
<1>5. \A k \in 0 .. LineWords - 1 :
        p.addr + k >= p.start /\ p.addr + k < p.end
          <=> d.start <= a + k /\ a + k < d.start + d.size
  BY <1>1, <1>3
<1>6. \A k \in 0 .. LineWords - 1 : p.addr + 0 * LineWords + k = a + k
  BY <1>1, <1>3
<1>7. ASSUME NEW w
      PROVE  w \in Unmasked(p, 0) <=>
               \E k \in 0 .. LineWords - 1 : w = a + k /\ d.start <= a + k /\ a + k < d.start + d.size
  BY <1>5, <1>6 DEF Unmasked
<1>8. ASSUME NEW w
      PROVE  w \in Unmasked(p, 0) <=> w \in InLine(d, m)
  <2>1. ASSUME w \in InLine(d, m) PROVE w \in Unmasked(p, 0)
    <3>1. w \in Nat /\ d.start <= w /\ w < d.start + d.size /\ a <= w /\ w < a + LineWords
      BY <1>4, <2>1
    <3>2. w - a \in 0 .. LineWords - 1 /\ w = a + (w - a)
      BY <1>1, <3>1
    <3> QED
      BY <1>7, <3>1, <3>2
  <2>2. ASSUME w \in Unmasked(p, 0) PROVE w \in InLine(d, m)
    <3>1. PICK k \in 0 .. LineWords - 1 : w = a + k /\ d.start <= a + k /\ a + k < d.start + d.size
      BY <1>7, <2>2
    <3> QED
      BY <1>1, <1>4, <3>1
  <2> QED
    BY <2>1, <2>2
<1>9. Unmasked(p, 0) = InLine(d, m) /\ InLine(d, m) \subseteq Words(d)
  BY <1>8 DEF InLine
<1> QED
  BY <1>9 DEF Shows

\* A long burst shows neighbours only, if none goes beyond its list, and all of
\* those in its lines, if none starts in front of it.
LEMMA BurstShows ==
  ASSUME NEW d \in Descs, d.size # 0,
         NEW m \in Nat, m + MaxBurst <= Lines(d), m + MaxBurst = Lines(d) => Lines(d) % MaxBurst = 0,
         NEW p, p.addr = LineOf(d.start) + m * LineWords,
         p.start = IF p.addr < d.start THEN d.start ELSE p.addr,
         p.end = IF p.addr + MaxBurst * LineWords > d.start + d.size THEN d.start + d.size
                 ELSE p.addr + MaxBurst * LineWords,
         NEW h \in 0 .. MaxBurst - 1
  PROVE  Shows(d, m + h, Unmasked(p, h))
<1>1. LineWords \in Nat /\ LineWords > 0 /\ MaxBurst \in Nat /\ MaxBurst > 1
  BY BurstAssumption
<1>2. d.start \in Nat /\ d.size \in Nat
  BY BurstAssumption
<1>3. Lines(d) \in Nat
  BY <1>2, ListLines
<1>4. PICK r \in Nat : /\ LineOf(d.start) + m * LineWords = LineWords * r
                       /\ LineOf(d.start) = d.start => d.start <= LineWords * r
  BY <1>2, LinePlace
<1> PICK n \in Nat : n = m + h /\ n + 1 <= Lines(d)
  BY <1>1, <1>3
<1>5. PICK s \in Nat : /\ LineOf(d.start) + n * LineWords = LineWords * s
                       /\ n + 1 < Lines(d) => LineWords * s + LineWords <= d.start + d.size
                       /\ n + 1 = Lines(d) => EndAddr(d) = LineWords * s + LineWords
  BY <1>2, LinePlace, SMTT(30)
<1>6. /\ LineWords * r \in Nat /\ LineWords * s \in Nat /\ LineWords * h \in Nat
      /\ LineWords * m \in Nat /\ m * LineWords = LineWords * m /\ h * LineWords = LineWords * h
      /\ LineWords * n = LineWords * m + LineWords * h /\ n * LineWords = LineWords * n
      /\ MaxBurst * LineWords = LineWords * MaxBurst /\ LineWords * MaxBurst \in Nat
  BY <1>1, Products
<1> PICK a \in Nat, z \in Nat, o \in Nat, g \in Nat :
      a = LineWords * r /\ z = LineWords * s /\ o = LineWords * h /\ g = LineWords * MaxBurst
  BY <1>6
<1>7. p.addr = a /\ z = a + o
  <2>1. LineOf(d.start) \in Nat
    <3>1. PICK q \in Nat : LineOf(d.start) = LineWords * q
      BY <1>2, LineBounds
    <3> QED
      BY <1>1, <3>1, Products
  <2> QED
    BY <1>4, <1>5, <1>6, <2>1
<1>8. o + LineWords <= g
  <2>1. h < MaxBurst => LineWords * h + LineWords <= LineWords * MaxBurst
    BY <1>1, Products
  <2> QED
    BY <1>1, <2>1
<1>9. /\ p.start = IF a < d.start THEN d.start ELSE a
      /\ p.end = IF a + g > d.start + d.size THEN d.start + d.size ELSE a + g
  BY <1>6, <1>7
<1>10. ASSUME NEW w
       PROVE  w \in Unmasked(p, h) <=>
                \E k \in 0 .. LineWords - 1 : w = z + k /\ p.start <= a + k /\ a + k < p.end
  <2>1. \A k \in 0 .. LineWords - 1 : p.addr + h * LineWords + k = z + k
    BY <1>1, <1>6, <1>7
  <2>2. \A k \in 0 .. LineWords - 1 : p.addr + k >= p.start /\ p.addr + k < p.end
                                        <=> p.start <= a + k /\ a + k < p.end
    BY <1>1, <1>2, <1>7, <1>9
  <2> QED
    BY <2>1, <2>2 DEF Unmasked
<1>11. ASSUME LongBurstsFit PROVE z + LineWords <= d.start + d.size
  <2>1. CASE n + 1 < Lines(d)
    BY <1>5, <2>1
  <2>2. CASE n + 1 = Lines(d)
    <3>1. m + MaxBurst = Lines(d)
      BY <1>1, <1>3, <2>2
    <3>2. EndAddr(d) = d.start + d.size
      BY <1>11, <3>1 DEF LongBurstsFit
    <3>3. z + LineWords = d.start + d.size
      BY <1>5, <2>2, <3>2
    <3> QED
      BY <1>1, <1>2, <3>3
  <2> QED
    BY <1>3, <2>1, <2>2
<1>12. ASSUME LongBurstsFit PROVE Unmasked(p, h) \subseteq Words(d)
  <2>1. z + LineWords <= d.start + d.size
    BY <1>11, <1>12
  <2> SUFFICES ASSUME NEW w \in Unmasked(p, h) PROVE w \in Words(d)
    OBVIOUS
  <2>2. PICK k \in 0 .. LineWords - 1 : w = z + k /\ p.start <= a + k
    BY <1>10
  <2>3. w \in Nat /\ d.start <= w /\ w < d.start + d.size
    BY <1>1, <1>2, <1>7, <1>9, <2>1, <2>2
  <2> QED
    BY <1>2, <2>3 DEF Words
<1>13. ASSUME LongBurstsWhole PROVE Unmasked(p, h) = InLine(d, n)
  <2>1. z + LineWords <= d.start + d.size
    BY <1>11, <1>13 DEF LongBurstsWhole
  <2>2. d.start <= a
    <3>1. Lines(d) >= MaxBurst
      BY <1>1, <1>3
    <3> QED
      BY <1>4, <1>13, <3>1 DEF LongBurstsWhole
  <2>3. ASSUME NEW w
        PROVE  w \in InLine(d, n) <=>
                 w \in Nat /\ d.start <= w /\ w < d.start + d.size /\ z <= w /\ w < z + LineWords
    BY <1>2, <1>5, InLineWords
  <2>4. p.start = a
    BY <1>2, <1>9, <2>2
  <2>5. \A k \in 0 .. LineWords - 1 : a + k < p.end
    <3>1. a + LineWords <= d.start + d.size
      BY <1>1, <1>2, <1>7, <2>1
    <3> QED
      BY <1>1, <1>2, <1>8, <1>9, <3>1
  <2>6. ASSUME NEW w \in Unmasked(p, h) PROVE w \in InLine(d, n)
    <3>1. PICK k \in 0 .. LineWords - 1 : w = z + k
      BY <1>10
    <3> QED
      BY <1>1, <1>2, <1>7, <2>1, <2>2, <2>3, <3>1
  <2>7. ASSUME NEW w \in InLine(d, n) PROVE w \in Unmasked(p, h)
    <3>1. w \in Nat /\ z <= w /\ w < z + LineWords
      BY <2>3
    <3>2. w - z \in 0 .. LineWords - 1 /\ w = z + (w - z) /\ a <= a + (w - z)
      BY <1>1, <3>1
    <3> QED
      BY <1>10, <2>4, <2>5, <3>2
  <2> QED
    BY <2>6, <2>7
<1> QED
  BY <1>12, <1>13 DEF Shows

\* The words of the lines up to a place.
LEMMA BelowLines ==
  ASSUME NEW d, d.start \in Nat, d.size \in Nat, d.size # 0
  PROVE  /\ Below(d, 0) = {} /\ Below(d, Lines(d)) = Words(d)
         /\ \A m \in Nat : Below(d, m) \union InLine(d, m) = Below(d, m + 1)
<1>1. LineWords \in Nat /\ LineWords > 0 /\ Lines(d) \in Nat /\ Lines(d) >= 1
  BY BurstAssumption, ListLines
<1>2. ASSUME NEW w
      PROVE  w \in Words(d) <=> w \in Nat /\ d.start <= w /\ w < d.start + d.size
  <2>1. d.start + d.size - 1 \in Nat
    OBVIOUS
  <2> QED
    BY <2>1 DEF Words
<1>3. Below(d, 0) = {}
  <2>1. PICK r \in Nat : LineOf(d.start) + 0 * LineWords = LineWords * r /\ LineWords * r <= d.start
    BY LinePlace
  <2> PICK a \in Nat : a = LineWords * r
    BY <1>1, Products
  <2>2. \A w \in Nat : d.start <= w => ~(w < a)
    BY <2>1
  <2> QED
    BY <1>2, <2>1, <2>2 DEF Below
<1>4. Below(d, Lines(d)) = Words(d)
  <2> PICK m \in Nat : m + 1 = Lines(d)
    <3>1. Lines(d) - 1 \in Nat /\ (Lines(d) - 1) + 1 = Lines(d)
      BY <1>1
    <3> QED
      BY <3>1
  <2>1. PICK r \in Nat : /\ LineOf(d.start) + (m + 1) * LineWords = LineWords * r + LineWords
                         /\ d.start + d.size <= LineWords * r + LineWords
    BY LinePlace
  <2> PICK a \in Nat : a = LineWords * r + LineWords
    BY <1>1, Products
  <2>2. LineOf(d.start) + Lines(d) * LineWords = a
    BY <2>1
  <2>3. \A w \in Words(d) : w < a
    BY <1>2, <2>1
  <2> QED
    BY <2>2, <2>3 DEF Below
<1>5. ASSUME NEW m \in Nat
      PROVE  Below(d, m) \union InLine(d, m) = Below(d, m + 1)
  <2>1. PICK r \in Nat : /\ LineOf(d.start) + m * LineWords = LineWords * r
                         /\ LineOf(d.start) + (m + 1) * LineWords = LineWords * r + LineWords
    BY LinePlace
  <2> PICK a \in Nat : a = LineWords * r
    BY <1>1, Products
  <2>2. ASSUME NEW w
        PROVE  w \in InLine(d, m) <=> w \in Words(d) /\ a <= w /\ w < a + LineWords
    BY <1>2, <2>1, InLineWords
  <2>3. ASSUME NEW w
        PROVE  /\ w \in Below(d, m) <=> w \in Words(d) /\ w < a
               /\ w \in Below(d, m + 1) <=> w \in Words(d) /\ w < a + LineWords
    BY <2>1 DEF Below
  <2>4. ASSUME NEW w
        PROVE  w \in Below(d, m) \union InLine(d, m) <=> w \in Below(d, m + 1)
    <3>1. CASE w \in Words(d)
      <4>1. w \in Nat
        BY <1>2, <3>1
      <4>2. (w < a \/ (a <= w /\ w < a + LineWords)) <=> w < a + LineWords
        BY <1>1, <4>1
      <4> QED
        BY <2>2, <2>3, <4>2
    <3>2. CASE w \notin Words(d)
      BY <2>2, <2>3, <3>2
    <3> QED
      BY <3>1, <3>2
  <2> QED
    BY <2>4
<1> QED
  BY <1>3, <1>4, <1>5

-----------------------------------------------------------------------------
(* The history and the parts that speak of it                              *)

\* The constants.
LEMMA Sizes ==
  /\ FirstId \in Nat /\ FirstId < IdMod /\ IdMod \in Nat /\ IdMod > 0
  /\ MaxInFlight \in Nat /\ MaxInFlight > 0 /\ MaxInFlight <= IdMod
  /\ MaxBurst \in Nat /\ MaxBurst > 1 /\ LineWords \in Nat /\ LineWords > 0
  /\ CmdDepth \in Nat /\ SyncDepth \in Nat /\ IdMod >= 2 * (CmdDepth + SyncDepth)
  /\ StopId = -1 /\ Dead = -1
BY BurstAssumption, IdAssumption, DynamicIdAssumption DEF StopId, Dead

\* The fields of a history.
LEMMA FrontFields ==
  ASSUME NEW f \in FrontSet
  PROVE  /\ f.H \in [Nat -> Pkg] /\ f.B \in [Nat -> Nat] /\ f.S \in [Nat -> ListSet]
         /\ f.b \in Nat /\ f.s \in Nat /\ f.e \in Nat
         /\ \A a \in Nat : /\ f.H[a] \in Pkg /\ f.H[a].last \in BOOLEAN
                           /\ f.H[a].vertex.start \in Nat /\ f.H[a].vertex.size \in Nat
                           /\ f.B[a] \in Nat
                           /\ f.S[a].a \in Nat /\ f.S[a].p \in Pkg
                           /\ f.S[a].p.vertex.start \in Nat /\ f.S[a].p.vertex.size \in Nat
                           /\ f.S[a].p.last \in BOOLEAN
BY DEF FrontSet, ListSet, Pkg

\* The fields of a record of commands.
LEMMA EngineFields ==
  ASSUME NEW u \in EngineSet
  PROVE  /\ u.T \in [Nat -> CmdTag] /\ u.k1 \in Nat /\ u.k2 \in Nat /\ u.k3 \in Nat
         /\ u.z \in Bit
         /\ \A k \in Nat : /\ u.T[k] \in CmdTag /\ u.T[k].l \in Nat /\ u.T[k].m \in Nat
                           /\ u.T[k].x \in Nat /\ u.T[k].p \in CmdPkg
BY DEF EngineSet, CmdTag

\* The fields of the record of the descriptors.
LEMMA VdFields ==
  ASSUME NEW v \in VdSet
  PROVE  /\ v.T \in [Nat -> VdTag] /\ v.p \in Nat /\ v.q \in Nat /\ v.z \in Bit
         /\ \A k \in Nat : v.T[k] \in VdTag /\ v.T[k].l \in Nat /\ v.T[k].p \in VdPkg
BY DEF VdSet, VdTag

\* The fields of the record of the long bursts.
LEMMA LongFields ==
  ASSUME NEW y \in LongSet
  PROVE  /\ y.T \in [Nat -> CmdTag] /\ y.k1 \in Nat /\ y.k2 \in Nat /\ y.k3 \in Nat
         /\ y.z \in Bit /\ y.R \in [Nat -> LineRef] /\ y.r1 \in Nat /\ y.r2 \in Nat
         /\ \A k \in Nat : /\ y.T[k] \in CmdTag /\ y.T[k].l \in Nat /\ y.T[k].m \in Nat
                           /\ y.T[k].x \in Nat /\ y.T[k].p \in CmdPkg
                           /\ y.R[k] \in LineRef /\ y.R[k].k \in Nat /\ y.R[k].n \in Nat
BY DEF LongSet, CmdTag, LineRef

\* The fields of the records of the numbers and of the lines.
LEMMA PlaceFields ==
  /\ \A c \in NumberSet : /\ c.P \in [Nat -> PlaceSet] /\ c.lo \in Nat /\ c.hi \in Nat
                          /\ \A x \in Nat : /\ c.P[x] \in PlaceSet
                                            /\ c.P[x].l \in Nat /\ c.P[x].m \in Nat
  /\ \A g \in MergedSet : /\ g.G \in [Nat -> LineTag] /\ g.Q \in [Nat -> PlaceSet]
                          /\ g.g1 \in Nat /\ g.g2 \in Nat
                          /\ \A h \in Nat : /\ g.G[h] \in LineTag /\ g.G[h].l \in Nat
                                            /\ g.G[h].m \in Nat /\ g.G[h].p \in LinePkg
                                            /\ g.Q[h] \in PlaceSet
                                            /\ g.Q[h].l \in Nat /\ g.Q[h].m \in Nat
  /\ \A o \in OutSet : /\ o.K \in [Nat -> LinePkg] /\ o.J \in [Nat -> PlaceSet]
                       /\ o.k1 \in Nat /\ o.k2 \in Nat
                       /\ o.i \in Nat /\ o.mi \in Nat /\ o.t \in Nat /\ o.mt \in Nat
                       /\ \A h \in Nat : /\ o.K[h] \in LinePkg /\ o.J[h] \in PlaceSet
                                         /\ o.J[h].l \in Nat /\ o.J[h].m \in Nat
<1>1. ASSUME NEW c \in NumberSet
      PROVE  /\ c.P \in [Nat -> PlaceSet] /\ c.lo \in Nat /\ c.hi \in Nat
             /\ \A x \in Nat : c.P[x] \in PlaceSet /\ c.P[x].l \in Nat /\ c.P[x].m \in Nat
  BY DEF NumberSet, PlaceSet
<1>2. ASSUME NEW g \in MergedSet
      PROVE  /\ g.G \in [Nat -> LineTag] /\ g.Q \in [Nat -> PlaceSet]
             /\ g.g1 \in Nat /\ g.g2 \in Nat
             /\ \A h \in Nat : /\ g.G[h] \in LineTag /\ g.G[h].l \in Nat
                               /\ g.G[h].m \in Nat /\ g.G[h].p \in LinePkg
                               /\ g.Q[h] \in PlaceSet /\ g.Q[h].l \in Nat /\ g.Q[h].m \in Nat
  BY DEF MergedSet, PlaceSet, LineTag
<1>3. ASSUME NEW o \in OutSet
      PROVE  /\ o.K \in [Nat -> LinePkg] /\ o.J \in [Nat -> PlaceSet]
             /\ o.k1 \in Nat /\ o.k2 \in Nat
             /\ o.i \in Nat /\ o.mi \in Nat /\ o.t \in Nat /\ o.mt \in Nat
             /\ \A h \in Nat : /\ o.K[h] \in LinePkg /\ o.J[h] \in PlaceSet
                               /\ o.J[h].l \in Nat /\ o.J[h].m \in Nat
  BY DEF OutSet, PlaceSet
<1> QED
  BY <1>1, <1>2, <1>3

\* A step that touches nothing a part of the invariant speaks of keeps it.
LEMMA KeepFront ==
  ASSUME NEW f, NEW w, NEW u, NEW v, NEW S, NEW i, NEW n
  PROVE  /\ Requests(f)
            /\ UNCHANGED <<sync_id, update_id, sync_burst_id, pending, input, vs_pc>>
              => Requests(f)'
         /\ Numbering(f) => Numbering(f)'
         /\ Empties(f, w) /\ UNCHANGED update => Empties(f, w)'
         /\ Singles(S, i, n, u) /\ UNCHANGED <<sync["single"], cmd["single"]>>
              => Singles(S, i, n, u)'
         /\ Vds(S, i, n, v) /\ UNCHANGED burst_vd => Vds(S, i, n, v)'
         /\ Generated(v) /\ UNCHANGED curr => Generated(v)'
<1>1. Requests(f) /\ UNCHANGED <<sync_id, update_id, sync_burst_id, pending, input, vs_pc>>
        => Requests(f)'
  BY DEF Requests
<1>2. Numbering(f) => Numbering(f)'
  OBVIOUS
<1>3. Empties(f, w) /\ UNCHANGED update => Empties(f, w)'
  BY DEF Empties
<1>4. Singles(S, i, n, u) /\ UNCHANGED <<sync["single"], cmd["single"]>>
        => Singles(S, i, n, u)'
  BY DEF Singles
<1>5. Vds(S, i, n, v) /\ UNCHANGED burst_vd => Vds(S, i, n, v)'
  BY DEF Vds
<1>6. Generated(v) /\ UNCHANGED curr => Generated(v)'
  BY DEF Generated
<1> QED
  BY <1>1, <1>2, <1>3, <1>4, <1>5, <1>6

\* The same for the other parts.
LEMMA KeepBack ==
  ASSUME NEW S, NEW b, NEW i, NEW n, NEW u, NEW v, NEW a, NEW y, NEW c, NEW g, NEW o, NEW k
  PROVE  /\ OneStreams(a) /\ UNCHANGED <<sync["one"], cmd["one"]>> => OneStreams(a)'
         /\ Commands(S, i, n, c, a, k) => Commands(S, i, n, c, a, k)'
         /\ LongStreams(y) /\ UNCHANGED <<sync["long"], cmd["long"]>> => LongStreams(y)'
         /\ LongLines(y) /\ UNCHANGED j => LongLines(y)'
         /\ Counted(a, y, c) /\ UNCHANGED <<dynamic_burst_id, intra_id>> => Counted(a, y, c)'
         /\ Ordered(n, v, c) /\ UNCHANGED curr => Ordered(n, v, c)'
         /\ Linked(y, c, g) => Linked(y, c, g)'
         /\ Merged(S, i, n, g) /\ UNCHANGED sync["dynamic"] => Merged(S, i, n, g)'
         /\ Joined(S, n, g, o) => Joined(S, n, g, o)'
         /\ Out(S, n, o) /\ UNCHANGED <<inter_id, inter_out>> => Out(S, n, o)'
         /\ Sampled(S, b, n, o) /\ UNCHANGED <<selected, shown, next_vertex>>
              => Sampled(S, b, n, o)'
         /\ Stops(u, v, a, y) /\ UNCHANGED <<running, vs_pc, curr>> => Stops(u, v, a, y)'
<1>1. OneStreams(a) /\ UNCHANGED <<sync["one"], cmd["one"]>> => OneStreams(a)'
  BY DEF OneStreams, Commanded
<1>2. Commands(S, i, n, c, a, k) => Commands(S, i, n, c, a, k)'
  OBVIOUS
<1>3. LongStreams(y) /\ UNCHANGED <<sync["long"], cmd["long"]>> => LongStreams(y)'
  BY DEF LongStreams, Commanded
<1>4. LongLines(y) /\ UNCHANGED j => LongLines(y)'
  BY DEF LongLines
<1>5. Counted(a, y, c) /\ UNCHANGED <<dynamic_burst_id, intra_id>> => Counted(a, y, c)'
  BY DEF Counted
<1>6. Ordered(n, v, c) /\ UNCHANGED curr => Ordered(n, v, c)'
  BY DEF Ordered
<1>7. Linked(y, c, g) => Linked(y, c, g)'
  OBVIOUS
<1>8. Merged(S, i, n, g) /\ UNCHANGED sync["dynamic"] => Merged(S, i, n, g)'
  BY DEF Merged
<1>9. Joined(S, n, g, o) => Joined(S, n, g, o)'
  OBVIOUS
<1>10. Out(S, n, o) /\ UNCHANGED <<inter_id, inter_out>> => Out(S, n, o)'
  BY DEF Out
<1>11. Sampled(S, b, n, o) /\ UNCHANGED <<selected, shown, next_vertex>>
         => Sampled(S, b, n, o)'
  BY DEF Sampled
<1>12. Stops(u, v, a, y) /\ UNCHANGED <<running, vs_pc, curr>> => Stops(u, v, a, y)'
  BY DEF Stops
<1> QED
  BY <1>1, <1>2, <1>3, <1>4, <1>5, <1>6, <1>7, <1>8, <1>9, <1>10, <1>11, <1>12

\* A stream of a record of streams is written.
LEMMA StreamPut ==
  ASSUME Rest
  PROVE  /\ \A e \in Engines : \A s : cmd' = [cmd EXCEPT ![e] = s] =>
              /\ DOMAIN cmd' = Engines /\ cmd'[e] = s
              /\ \A x \in Engines : x # e => cmd'[x] = cmd[x]
         /\ \A e \in Sources : \A s : sync' = [sync EXCEPT ![e] = s] =>
              /\ DOMAIN sync' = Sources /\ sync'[e] = s
              /\ \A x \in Sources : x # e => sync'[x] = sync[x]
         /\ Engines = {"one", "long", "single"}
         /\ Sources = {"one", "long", "single", "dynamic"}
<1>1. DOMAIN cmd = Engines /\ DOMAIN sync = Sources
  BY DEF Rest
<1>2. Engines = {"one", "long", "single"} /\ Sources = {"one", "long", "single", "dynamic"}
  BY DEF Engines, Sources
<1>3. ASSUME NEW e \in Engines, NEW s, cmd' = [cmd EXCEPT ![e] = s]
      PROVE  /\ DOMAIN cmd' = Engines /\ cmd'[e] = s
             /\ \A x \in Engines : x # e => cmd'[x] = cmd[x]
  BY <1>1, <1>3
<1>4. ASSUME NEW e \in Sources, NEW s, sync' = [sync EXCEPT ![e] = s]
      PROVE  /\ DOMAIN sync' = Sources /\ sync'[e] = s
             /\ \A x \in Sources : x # e => sync'[x] = sync[x]
  BY <1>1, <1>4
<1> QED
  BY <1>2, <1>3, <1>4

\* The packet an engine or cmd_generator looks at is a stop packet or the next
\* one of the run.
LEMMA NextOrStop ==
  ASSUME NEW T, \A k \in Nat : T[k].p.id \in Nat,
         NEW x \in Nat, NEW y \in Nat, NEW z \in Bit, NEW stop, stop.id = StopId,
         NEW s, Holds(s, PkgOf(T), x, y, z, stop), s # <<>>
  PROVE  /\ x <= y
         /\ IF Head(s).id = StopId
            THEN x = y /\ z = 1 /\ Head(s) = stop /\ Holds(Tail(s), PkgOf(T), x, x, 0, stop)
            ELSE x < y /\ Head(s) = T[x].p /\ Holds(Tail(s), PkgOf(T), x + 1, y, z, stop)
<1>1. x <= y
  BY DEF Holds
<1>2. CASE x < y
  <2>1. Head(s) = PkgOf(T)[x] /\ Holds(Tail(s), PkgOf(T), x + 1, y, z, stop)
    BY <1>2, HoldsPop
  <2>2. Head(s) = T[x].p
    BY <2>1 DEF PkgOf
  <2>3. Head(s).id # StopId
    <3>1. T[x].p.id \in Nat
      OBVIOUS
    <3>2. StopId = -1
      BY Sizes
    <3> QED
      BY <2>2, <3>1, <3>2
  <2> QED
    BY <1>1, <1>2, <2>1, <2>2, <2>3
<1>3. CASE x = y
  <2>1. Holds(s, PkgOf(T), x, x, z, stop)
    BY <1>3
  <2>2. z = 1 /\ Head(s) = stop /\ Holds(Tail(s), PkgOf(T), x, x, 0, stop)
    BY <2>1, StopPop
  <2> QED
    BY <1>1, <1>3, <2>2
<1> QED
  BY <1>1, <1>2, <1>3

\* The same for commands.
LEMMA NextCommand ==
  ASSUME NEW T \in [Nat -> CmdTag],
         NEW x \in Nat, NEW y \in Nat, NEW z \in Bit, NEW stop, stop.id = StopId,
         NEW s, Holds(s, PkgOf(T), x, y, z, stop), s # <<>>
  PROVE  /\ x <= y
         /\ IF Head(s).id = StopId
            THEN x = y /\ z = 1 /\ Head(s) = stop /\ Holds(Tail(s), PkgOf(T), x, x, 0, stop)
            ELSE x < y /\ Head(s) = T[x].p /\ Holds(Tail(s), PkgOf(T), x + 1, y, z, stop)
<1>1. \A k \in Nat : T[k].p.id \in Nat
  BY DEF CmdTag, CmdPkg
<1> QED
  BY <1>1, NextOrStop

\* Nothing happens.
LEMMA StutterStep ==
  ASSUME Rest, NEW f \in FrontSet, NEW w \in Seq(Nat), NEW u \in EngineSet, NEW v \in VdSet,
         NEW a \in EngineSet, NEW y \in LongSet, NEW c \in NumberSet, NEW g \in MergedSet,
         NEW o \in OutSet, Parts(f, w, u, v, a, y, c, g, o), UNCHANGED vars
  PROVE  BurstInv'
<1>1. UNCHANGED <<asked, input, vs_pc, sync_id, sync_burst_id, update, burst_vd, curr,
                  dynamic_burst_id, cmd, running, j, sync, intra_id, inter_id, inter_out,
                  selected, next_vertex, update_id, pending, shown>>
  BY DEF vars, feedVars, schedVars, cgVars, engineVars, mergeVars, outVars, history
<1>2. Parts(f, w, u, v, a, y, c, g, o)'
  <2>1. UNCHANGED <<sync["single"], cmd["single"], sync["one"], cmd["one"], sync["long"],
                    cmd["long"], sync["dynamic"]>>
    BY <1>1
  <2> QED
    BY <1>1, <2>1, KeepFront, KeepBack DEF Parts
<1>3. Rest'
  BY <1>1 DEF Rest
<1> QED
  BY <1>2, <1>3 DEF BurstInv

\* The single burst engine is stopped.
LEMMA EngineStopSingleStep ==
  ASSUME Rest, NEW f \in FrontSet, NEW w \in Seq(Nat), NEW u \in EngineSet, NEW v \in VdSet,
         NEW a \in EngineSet, NEW y \in LongSet, NEW c \in NumberSet, NEW g \in MergedSet,
         NEW o \in OutSet, Parts(f, w, u, v, a, y, c, g, o), EngineStop("single")
  PROVE  BurstInv'
<1>1. /\ running["single"] /\ cmd["single"] # <<>> /\ Head(cmd["single"]).id = StopId
      /\ cmd' = [cmd EXCEPT !["single"] = Tail(cmd["single"])]
      /\ running' = [running EXCEPT !["single"] = FALSE]
      /\ UNCHANGED <<asked, input, vs_pc, sync_id, sync_burst_id, update, burst_vd, curr,
                     dynamic_burst_id, j, sync, intra_id, inter_id, inter_out,
                     selected, next_vertex, update_id, pending, shown>>
  BY DEF EngineStop, feedVars, schedVars, cgVars, mergeVars, outVars, history
<1>2. /\ DOMAIN cmd' = Engines /\ cmd'["single"] = Tail(cmd["single"])
      /\ cmd'["one"] = cmd["one"] /\ cmd'["long"] = cmd["long"]
  BY <1>1, StreamPut
<1>3. /\ running' \in [Engines -> BOOLEAN] /\ running'["single"] = FALSE
      /\ running'["one"] = running["one"] /\ running'["long"] = running["long"]
  BY <1>1 DEF Rest, Engines
<1>4. u.k2 = u.k3 /\ u.z = 1 /\ Holds(Tail(cmd["single"]), PkgOf(u.T), u.k2, u.k2, 0, StopCmd)
  <2>1. Holds(cmd["single"], PkgOf(u.T), u.k2, u.k3, u.z, StopCmd)
    BY DEF Parts, Singles
  <2>2. StopCmd.id = StopId
    BY DEF StopCmd
  <2>3. u.T \in [Nat -> CmdTag] /\ u.k2 \in Nat /\ u.k3 \in Nat /\ u.z \in Bit
    BY EngineFields
  <2>4. cmd["single"] # <<>> /\ Head(cmd["single"]).id = StopId
    BY <1>1
  <2> QED
    BY <2>1, <2>2, <2>3, <2>4, NextCommand
<1> PICK d \in EngineSet :
      d.T = u.T /\ d.k1 = u.k1 /\ d.k2 = u.k2 /\ d.k3 = u.k3 /\ d.z = 0
  <2> DEFINE d == [u EXCEPT !.z = 0]
  <2>1. d \in EngineSet /\ d.T = u.T /\ d.k1 = u.k1 /\ d.k2 = u.k2 /\ d.k3 = u.k3 /\ d.z = 0
    BY DEF EngineSet, Bit
  <2> QED
    BY <2>1
<1>5. Singles(f.S, o.i, f.B[f.s], d)'
  BY <1>1, <1>2, <1>4 DEF Parts, Singles
<1>6. Stops(d, v, a, y)'
  BY <1>1, <1>3, <1>4 DEF Parts, Stops
<1>7. Rest'
  BY <1>1, <1>2, <1>3 DEF Rest
<1>8. Parts(f, w, d, v, a, y, c, g, o)'
  <2>1. UNCHANGED <<cmd["one"], cmd["long"]>>
    BY <1>2
  <2>2. UNCHANGED <<sync["one"], sync["long"], sync["dynamic"]>>
    BY <1>1
  <2> QED
    BY <1>1, <1>5, <1>6, <2>1, <2>2, KeepFront, KeepBack DEF Parts
<1> QED
  BY <1>7, <1>8 DEF BurstInv

\* A packet more is within the depth of a stream that had room for it.
LEMMA WithinDepth ==
  ASSUME NEW s, IsSeq(s), NEW d \in Nat
  PROVE  /\ Len(s) < d => \A x : Len(Append(s, x)) <= d
         /\ Len(s) <= d /\ s # <<>> => Len(Tail(s)) <= d
<1>1. Len(s) \in Nat
  BY EmptyIsSeq
<1>2. ASSUME Len(s) < d, NEW x PROVE Len(Append(s, x)) <= d
  <2>1. Len(Append(s, x)) = Len(s) + 1
    BY PushIsSeq
  <2> QED
    BY <1>1, <1>2, <2>1
<1>3. ASSUME Len(s) <= d, s # <<>> PROVE Len(Tail(s)) <= d
  <2>1. Len(Tail(s)) = Len(s) - 1
    BY <1>3, PopIsSeq
  <2> QED
    BY <1>1, <1>3, <2>1
<1> QED
  BY <1>2, <1>3

\* The engine for single lines of a long list is stopped.
LEMMA EngineStopOneStep ==
  ASSUME Rest, NEW f \in FrontSet, NEW w \in Seq(Nat), NEW u \in EngineSet, NEW v \in VdSet,
         NEW a \in EngineSet, NEW y \in LongSet, NEW c \in NumberSet, NEW g \in MergedSet,
         NEW o \in OutSet, Parts(f, w, u, v, a, y, c, g, o), EngineStop("one")
  PROVE  BurstInv'
<1>1. /\ running["one"] /\ cmd["one"] # <<>> /\ Head(cmd["one"]).id = StopId
      /\ cmd' = [cmd EXCEPT !["one"] = Tail(cmd["one"])]
      /\ running' = [running EXCEPT !["one"] = FALSE]
      /\ UNCHANGED <<asked, input, vs_pc, sync_id, sync_burst_id, update, burst_vd, curr,
                     dynamic_burst_id, j, sync, intra_id, inter_id, inter_out,
                     selected, next_vertex, update_id, pending, shown>>
  BY DEF EngineStop, feedVars, schedVars, cgVars, mergeVars, outVars, history
<1>2. /\ DOMAIN cmd' = Engines /\ cmd'["one"] = Tail(cmd["one"])
      /\ cmd'["single"] = cmd["single"] /\ cmd'["long"] = cmd["long"]
  BY <1>1, StreamPut
<1>3. /\ running' \in [Engines -> BOOLEAN] /\ running'["one"] = FALSE
      /\ running'["single"] = running["single"] /\ running'["long"] = running["long"]
  BY <1>1 DEF Rest, Engines
<1> PICK d \in EngineSet :
      d.T = a.T /\ d.k1 = a.k1 /\ d.k2 = a.k2 /\ d.k3 = a.k3 /\ d.z = 0
  <2> DEFINE d == [a EXCEPT !.z = 0]
  <2>1. d \in EngineSet /\ d.T = a.T /\ d.k1 = a.k1 /\ d.k2 = a.k2 /\ d.k3 = a.k3 /\ d.z = 0
    BY DEF EngineSet, Bit
  <2> QED
    BY <2>1
<1>4. PICK stop : Holds(cmd["one"], PkgOf(a.T), a.k2, a.k3, a.z, stop) /\ stop.id = StopId
  BY DEF Parts, OneStreams, Commanded
<1>5. a.k2 = a.k3 /\ a.z = 1 /\ Holds(Tail(cmd["one"]), PkgOf(a.T), a.k2, a.k2, 0, stop)
  <2>1. a.T \in [Nat -> CmdTag] /\ a.k2 \in Nat /\ a.k3 \in Nat /\ a.z \in Bit
    BY EngineFields
  <2>2. PICK s, T, x, b, z : s = cmd["one"] /\ T = a.T /\ x = a.k2 /\ b = a.k3 /\ z = a.z
    OBVIOUS
  <2>3. /\ T \in [Nat -> CmdTag] /\ x \in Nat /\ b \in Nat /\ z \in Bit
        /\ Holds(s, PkgOf(T), x, b, z, stop) /\ stop.id = StopId
        /\ s # <<>> /\ Head(s).id = StopId
    BY <1>1, <1>4, <2>1, <2>2
  <2>4. x = b /\ z = 1 /\ Holds(Tail(s), PkgOf(T), x, x, 0, stop)
    BY <2>3, NextCommand
  <2> QED
    BY <2>2, <2>4
<1>6. OneStreams(d)'
  BY <1>1, <1>2, <1>4, <1>5 DEF Parts, OneStreams, Commanded
<1>7. Stops(u, v, d, y)'
  BY <1>1, <1>3, <1>5 DEF Parts, Stops
<1>8. Commands(f.S, o.i, f.B[f.s], c, d, 1)' /\ Counted(d, y, c)'
  <2>1. Commands(f.S, o.i, f.B[f.s], c, a, 1) /\ Counted(a, y, c)
    BY Zenon DEF Parts
  <2>2. Commands(f.S, o.i, f.B[f.s], c, d, 1)'
    BY <2>1 DEF Commands
  <2>3. UNCHANGED <<dynamic_burst_id, intra_id>>
    BY <1>1
  <2>4. Counted(d, y, c)'
    BY <2>1, <2>3 DEF Counted
  <2> QED
    BY <2>2, <2>4
<1>9. Rest'
  <2>1. IsSeq(cmd["one"])
    BY <1>4 DEF Holds
  <2>2. Len(cmd'["one"]) <= CmdDepth
    <3>1. CmdDepth \in Nat
      BY Sizes
    <3>2. Len(cmd["one"]) <= CmdDepth
      BY DEF Rest
    <3>3. Len(Tail(cmd["one"])) <= CmdDepth
      BY <1>1, <2>1, <3>1, <3>2, WithinDepth
    <3> QED
      BY <1>2, <3>3
  <2> QED
    BY <1>1, <1>2, <1>3, <2>2 DEF Rest
<1>10. Parts(f, w, u, v, d, y, c, g, o)'
  <2>1. UNCHANGED <<cmd["single"], cmd["long"]>>
    BY <1>2
  <2>2. UNCHANGED <<sync["single"], sync["long"], sync["dynamic"]>>
    BY <1>1
  <2> QED
    BY <1>1, <1>6, <1>7, <1>8, <2>1, <2>2, KeepFront, KeepBack DEF Parts
<1> QED
  BY <1>9, <1>10 DEF BurstInv

\* The engine for long bursts is stopped.
LEMMA EngineStopLongStep ==
  ASSUME Rest, NEW f \in FrontSet, NEW w \in Seq(Nat), NEW u \in EngineSet, NEW v \in VdSet,
         NEW a \in EngineSet, NEW y \in LongSet, NEW c \in NumberSet, NEW g \in MergedSet,
         NEW o \in OutSet, Parts(f, w, u, v, a, y, c, g, o), EngineStop("long")
  PROVE  BurstInv'
<1>1. /\ running["long"] /\ cmd["long"] # <<>> /\ Head(cmd["long"]).id = StopId
      /\ cmd' = [cmd EXCEPT !["long"] = Tail(cmd["long"])]
      /\ running' = [running EXCEPT !["long"] = FALSE]
      /\ UNCHANGED <<asked, input, vs_pc, sync_id, sync_burst_id, update, burst_vd, curr,
                     dynamic_burst_id, j, sync, intra_id, inter_id, inter_out,
                     selected, next_vertex, update_id, pending, shown>>
  BY DEF EngineStop, feedVars, schedVars, cgVars, mergeVars, outVars, history
<1>2. /\ DOMAIN cmd' = Engines /\ cmd'["long"] = Tail(cmd["long"])
      /\ cmd'["single"] = cmd["single"] /\ cmd'["one"] = cmd["one"]
  BY <1>1, StreamPut
<1>3. /\ running' \in [Engines -> BOOLEAN] /\ running'["long"] = FALSE
      /\ running'["single"] = running["single"] /\ running'["one"] = running["one"]
  BY <1>1 DEF Rest, Engines
<1> PICK d \in LongSet :
      /\ d.T = y.T /\ d.k1 = y.k1 /\ d.k2 = y.k2 /\ d.k3 = y.k3 /\ d.z = 0
      /\ d.R = y.R /\ d.r1 = y.r1 /\ d.r2 = y.r2
  <2> DEFINE d == [y EXCEPT !.z = 0]
  <2>1. /\ d \in LongSet /\ d.T = y.T /\ d.k1 = y.k1 /\ d.k2 = y.k2 /\ d.k3 = y.k3 /\ d.z = 0
        /\ d.R = y.R /\ d.r1 = y.r1 /\ d.r2 = y.r2
    BY DEF LongSet, Bit
  <2> QED
    BY <2>1
<1>4. PICK stop : Holds(cmd["long"], PkgOf(y.T), y.k2, y.k3, y.z, stop) /\ stop.id = StopId
  BY DEF Parts, LongStreams, Commanded
<1>5. y.k2 = y.k3 /\ y.z = 1 /\ Holds(Tail(cmd["long"]), PkgOf(y.T), y.k2, y.k2, 0, stop)
  <2>1. y.T \in [Nat -> CmdTag] /\ y.k2 \in Nat /\ y.k3 \in Nat /\ y.z \in Bit
    BY LongFields
  <2> QED
    BY <1>1, <1>4, <2>1, NextCommand
<1>6. LongStreams(d)'
  BY <1>1, <1>2, <1>4, <1>5 DEF Parts, LongStreams, Commanded
<1>7. Stops(u, v, a, d)'
  BY <1>1, <1>3, <1>5 DEF Parts, Stops
<1>8. /\ Commands(f.S, o.i, f.B[f.s], c, d, MaxBurst)' /\ Counted(a, d, c)'
      /\ LongLines(d)' /\ Linked(d, c, g)'
  <2>1. Commands(f.S, o.i, f.B[f.s], c, d, MaxBurst)'
    BY DEF Parts, Commands
  <2>2. Counted(a, d, c)'
    BY <1>1 DEF Parts, Counted
  <2>3. LongLines(d)'
    BY <1>1 DEF Parts, LongLines
  <2>4. Linked(d, c, g)'
    BY DEF Parts, Linked
  <2> QED
    BY <2>1, <2>2, <2>3, <2>4
<1>9. Rest'
  <2>1. IsSeq(cmd["long"])
    BY <1>4 DEF Holds
  <2>2. Len(cmd'["long"]) <= CmdDepth
    <3>1. CmdDepth \in Nat
      BY Sizes
    <3>2. Len(cmd["long"]) <= CmdDepth
      BY DEF Rest
    <3>3. Len(Tail(cmd["long"])) <= CmdDepth
      BY <1>1, <2>1, <3>1, <3>2, WithinDepth
    <3> QED
      BY <1>2, <3>3
  <2> QED
    BY <1>1, <1>2, <1>3, <2>2 DEF Rest
<1>10. Parts(f, w, u, v, a, d, c, g, o)'
  <2>1. UNCHANGED <<cmd["single"], cmd["one"]>>
    BY <1>2
  <2>2. UNCHANGED <<sync["single"], sync["one"], sync["dynamic"]>>
    BY <1>1
  <2> QED
    BY <1>1, <1>6, <1>7, <1>8, <2>1, <2>2, KeepFront, KeepBack DEF Parts
<1> QED
  BY <1>9, <1>10 DEF BurstInv

\* vd_scheduler stops the single burst engine.
LEMMA StopSingleStep ==
  ASSUME Rest, NEW f \in FrontSet, NEW w \in Seq(Nat), NEW u \in EngineSet, NEW v \in VdSet,
         NEW a \in EngineSet, NEW y \in LongSet, NEW c \in NumberSet, NEW g \in MergedSet,
         NEW o \in OutSet, Parts(f, w, u, v, a, y, c, g, o), StopSingle
  PROVE  BurstInv'
<1>1. /\ vs_pc = "stop_single" /\ vs_pc' = "stop_dynamic"
      /\ cmd' = [cmd EXCEPT !["single"] = Append(cmd["single"], StopCmd)]
      /\ UNCHANGED <<asked, input, sync_id, sync_burst_id, update, burst_vd, curr,
                     dynamic_burst_id, running, j, sync, intra_id, inter_id, inter_out,
                     selected, next_vertex, update_id, pending, shown>>
  BY DEF StopSingle, StopCmd, feedVars, cgVars, engineVars, mergeVars, outVars, history
<1>2. /\ DOMAIN cmd' = Engines /\ cmd'["single"] = Append(cmd["single"], StopCmd)
      /\ cmd'["one"] = cmd["one"] /\ cmd'["long"] = cmd["long"]
  BY <1>1, StreamPut
<1>3. /\ u.z = 0 /\ v.z # 1 /\ a.z # 1 /\ y.z # 1
      /\ running["single"] /\ running["one"] /\ running["long"]
  <2>1. u.z \in {0, 1}
    BY EngineFields DEF Bit
  <2>2. vs_pc \notin {"stop_dynamic", "done"}
    BY <1>1
  <2> QED
    BY <2>1, <2>2 DEF Parts, Stops
<1>4. Holds(Append(cmd["single"], StopCmd), PkgOf(u.T), u.k2, u.k3, 1, StopCmd)
  <2>1. Holds(cmd["single"], PkgOf(u.T), u.k2, u.k3, 0, StopCmd)
    BY <1>3 DEF Parts, Singles
  <2> QED
    BY <2>1, EngineFields, HoldsPush
<1> PICK d \in EngineSet :
      d.T = u.T /\ d.k1 = u.k1 /\ d.k2 = u.k2 /\ d.k3 = u.k3 /\ d.z = 1
  <2> DEFINE d == [u EXCEPT !.z = 1]
  <2>1. d \in EngineSet /\ d.T = u.T /\ d.k1 = u.k1 /\ d.k2 = u.k2 /\ d.k3 = u.k3 /\ d.z = 1
    BY DEF EngineSet, Bit
  <2> QED
    BY <2>1
<1>5. Singles(f.S, o.i, f.B[f.s], d)'
  BY <1>1, <1>2, <1>4 DEF Parts, Singles
<1>6. Stops(d, v, a, y)'
  BY <1>1, <1>3 DEF Stops
<1>7. Requests(f)'
  BY <1>1 DEF Parts, Requests
<1>8. Rest'
  BY <1>1, <1>2 DEF Rest
<1>9. Parts(f, w, d, v, a, y, c, g, o)'
  <2>1. UNCHANGED <<cmd["one"], cmd["long"]>>
    BY <1>2
  <2>2. UNCHANGED <<sync["one"], sync["long"], sync["dynamic"]>>
    BY <1>1
  <2> QED
    BY <1>1, <1>5, <1>6, <1>7, <2>1, <2>2, KeepFront, KeepBack DEF Parts
<1> QED
  BY <1>8, <1>9 DEF BurstInv

\* and the engines behind cmd_generator.
LEMMA StopDynamicStep ==
  ASSUME Rest, NEW f \in FrontSet, NEW w \in Seq(Nat), NEW u \in EngineSet, NEW v \in VdSet,
         NEW a \in EngineSet, NEW y \in LongSet, NEW c \in NumberSet, NEW g \in MergedSet,
         NEW o \in OutSet, Parts(f, w, u, v, a, y, c, g, o), StopDynamic
  PROVE  BurstInv'
<1>1. /\ vs_pc = "stop_dynamic" /\ vs_pc' = "done"
      /\ burst_vd' = Append(burst_vd, StopVd)
      /\ UNCHANGED <<asked, input, sync_id, sync_burst_id, update, cmd, curr,
                     dynamic_burst_id, running, j, sync, intra_id, inter_id, inter_out,
                     selected, next_vertex, update_id, pending, shown>>
  BY DEF StopDynamic, StopVd, feedVars, engineVars, mergeVars, outVars, history
<1>2. v.z = 0 /\ a.z = 0 /\ y.z = 0 /\ running["one"] /\ running["long"]
  <2>1. v.z \in {0, 1} /\ a.z \in {0, 1} /\ y.z \in {0, 1}
    BY VdFields, EngineFields, LongFields DEF Bit
  <2>2. vs_pc # "done"
    BY <1>1
  <2> QED
    BY <2>1, <2>2 DEF Parts, Stops
<1>3. Holds(Append(burst_vd, StopVd), PkgOf(v.T), v.p, v.q, 1, StopVd)
  <2>1. Holds(burst_vd, PkgOf(v.T), v.p, v.q, 0, StopVd)
    BY <1>2 DEF Parts, Vds
  <2> QED
    BY <2>1, VdFields, HoldsPush
<1> PICK d \in VdSet : d.T = v.T /\ d.p = v.p /\ d.q = v.q /\ d.z = 1
  <2> DEFINE d == [v EXCEPT !.z = 1]
  <2>1. d \in VdSet /\ d.T = v.T /\ d.p = v.p /\ d.q = v.q /\ d.z = 1
    BY DEF VdSet, Bit
  <2> QED
    BY <2>1
<1>4. Vds(f.S, o.i, f.B[f.s], d)' /\ Generated(d)' /\ Ordered(f.B[f.s], d, c)'
  <2>1. Vds(f.S, o.i, f.B[f.s], d)'
    BY <1>1, <1>3 DEF Parts, Vds
  <2>2. Generated(d)'
    BY <1>1, <1>2 DEF Parts, Generated
  <2>3. Ordered(f.B[f.s], d, c)'
    BY <1>1 DEF Parts, Ordered
  <2> QED
    BY <2>1, <2>2, <2>3
<1>5. Stops(u, d, a, y)'
  <2>1. u.z = 1 => running["single"]
    BY DEF Parts, Stops
  <2>2. ~running["single"] => u.k2 = u.k3
    BY DEF Parts, Stops
  <2> QED
    BY <1>1, <1>2, <2>1, <2>2 DEF Stops
<1>6. Requests(f)'
  BY <1>1 DEF Parts, Requests
<1>7. Rest'
  BY <1>1 DEF Rest
<1>8. Parts(f, w, u, d, a, y, c, g, o)'
  <2>1. UNCHANGED <<cmd["one"], cmd["long"], cmd["single"]>>
    BY <1>1
  <2>2. UNCHANGED <<sync["one"], sync["long"], sync["dynamic"], sync["single"]>>
    BY <1>1
  <2> QED
    BY <1>1, <1>4, <1>5, <1>6, <2>1, <2>2, KeepFront, KeepBack DEF Parts
<1> QED
  BY <1>7, <1>8 DEF BurstInv

\* The single burst engine reads a line.
LEMMA BurstOneSingleStep ==
  ASSUME Rest, NEW f \in FrontSet, NEW w \in Seq(Nat), NEW u \in EngineSet, NEW v \in VdSet,
         NEW a \in EngineSet, NEW y \in LongSet, NEW c \in NumberSet, NEW g \in MergedSet,
         NEW o \in OutSet, Parts(f, w, u, v, a, y, c, g, o), BurstOne("single")
  PROVE  BurstInv'
<1> DEFINE p == SyncPkg(Head(cmd["single"]), 0, TRUE, TRUE)
<1>1. /\ running["single"] /\ cmd["single"] # <<>> /\ Head(cmd["single"]).id # StopId
      /\ sync' = [sync EXCEPT !["single"] = Append(sync["single"], p)]
      /\ cmd' = [cmd EXCEPT !["single"] = Tail(cmd["single"])]
      /\ UNCHANGED <<asked, input, vs_pc, sync_id, sync_burst_id, update, burst_vd, curr,
                     dynamic_burst_id, running, j, intra_id, inter_id, inter_out,
                     selected, next_vertex, update_id, pending, shown>>
  <2>1. ("single" = "single" \/ Head(cmd["single"]).end_of_burst) = TRUE
    OBVIOUS
  <2> QED
    BY <2>1 DEF BurstOne, CanBurst, feedVars, schedVars, cgVars, engineVars, mergeVars, outVars,
       history
<1> HIDE DEF p
<1>2. /\ DOMAIN cmd' = Engines /\ cmd'["single"] = Tail(cmd["single"])
      /\ cmd'["one"] = cmd["one"] /\ cmd'["long"] = cmd["long"]
      /\ DOMAIN sync' = Sources /\ sync'["single"] = Append(sync["single"], p)
      /\ sync'["one"] = sync["one"] /\ sync'["long"] = sync["long"]
      /\ sync'["dynamic"] = sync["dynamic"]
  BY <1>1, StreamPut
<1>3. /\ u.k2 < u.k3 /\ p = SingleOf(u.T)[u.k2]
      /\ Holds(Tail(cmd["single"]), PkgOf(u.T), u.k2 + 1, u.k3, u.z, StopCmd)
  <2>1. Holds(cmd["single"], PkgOf(u.T), u.k2, u.k3, u.z, StopCmd)
    BY DEF Parts, Singles
  <2>2. StopCmd.id = StopId
    BY DEF StopCmd
  <2>3. u.T \in [Nat -> CmdTag] /\ u.k2 \in Nat /\ u.k3 \in Nat /\ u.z \in Bit
    BY EngineFields
  <2>4. cmd["single"] # <<>> /\ Head(cmd["single"]).id # StopId
    BY <1>1
  <2>5. /\ u.k2 < u.k3 /\ Head(cmd["single"]) = u.T[u.k2].p
        /\ Holds(Tail(cmd["single"]), PkgOf(u.T), u.k2 + 1, u.k3, u.z, StopCmd)
    BY <2>1, <2>2, <2>3, <2>4, NextCommand
  <2> QED
    BY <2>3, <2>5 DEF SingleOf, p
<1>4. Holds(sync'["single"], SingleOf(u.T), u.k1, u.k2 + 1, 0, None)
  <2>1. Holds(sync["single"], SingleOf(u.T), u.k1, u.k2, 0, None)
    BY DEF Parts, Singles
  <2> QED
    BY <1>2, <1>3, <2>1, EngineFields, HoldsPush
<1> PICK d \in EngineSet :
      d.T = u.T /\ d.k1 = u.k1 /\ d.k2 = u.k2 + 1 /\ d.k3 = u.k3 /\ d.z = u.z
  <2> DEFINE d == [u EXCEPT !.k2 = u.k2 + 1]
  <2>1. u.k2 + 1 \in Nat
    BY EngineFields
  <2>2. d \in EngineSet /\ d.T = u.T /\ d.k1 = u.k1 /\ d.k2 = u.k2 + 1 /\ d.k3 = u.k3 /\ d.z = u.z
    BY <2>1 DEF EngineSet
  <2> QED
    BY <2>2
<1>5. Singles(f.S, o.i, f.B[f.s], d)'
  BY <1>2, <1>3, <1>4 DEF Parts, Singles
<1>6. Stops(d, v, a, y)'
  BY <1>1 DEF Parts, Stops
<1>7. Rest'
  BY <1>1, <1>2 DEF Rest
<1>8. Parts(f, w, d, v, a, y, c, g, o)'
  <2>1. UNCHANGED <<cmd["one"], cmd["long"]>>
    BY <1>2
  <2>2. UNCHANGED <<sync["one"], sync["long"], sync["dynamic"]>>
    BY <1>2
  <2> QED
    BY <1>1, <1>5, <1>6, <2>1, <2>2, KeepFront, KeepBack DEF Parts
<1> QED
  BY <1>7, <1>8 DEF BurstInv

\* dynamic_burst_1 reads a line.
LEMMA BurstOneDynamicStep ==
  ASSUME Rest, NEW f \in FrontSet, NEW w \in Seq(Nat), NEW u \in EngineSet, NEW v \in VdSet,
         NEW a \in EngineSet, NEW y \in LongSet, NEW c \in NumberSet, NEW g \in MergedSet,
         NEW o \in OutSet, Parts(f, w, u, v, a, y, c, g, o), BurstOne("one")
  PROVE  BurstInv'
<1> DEFINE p == SyncPkg(Head(cmd["one"]), 0, "one" = "single" \/ Head(cmd["one"]).end_of_burst, TRUE)
<1>1. /\ running["one"] /\ cmd["one"] # <<>> /\ Head(cmd["one"]).id # StopId
      /\ Len(sync["one"]) < SyncDepth
      /\ sync' = [sync EXCEPT !["one"] = Append(sync["one"], p)]
      /\ cmd' = [cmd EXCEPT !["one"] = Tail(cmd["one"])]
      /\ UNCHANGED <<asked, input, vs_pc, sync_id, sync_burst_id, update, burst_vd, curr,
                     dynamic_burst_id, running, j, intra_id, inter_id, inter_out,
                     selected, next_vertex, update_id, pending, shown>>
  BY DEF BurstOne, CanBurst, feedVars, schedVars, cgVars, engineVars, mergeVars, outVars, history
<1> HIDE DEF p
<1>2. /\ DOMAIN cmd' = Engines /\ cmd'["one"] = Tail(cmd["one"])
      /\ cmd'["single"] = cmd["single"] /\ cmd'["long"] = cmd["long"]
      /\ DOMAIN sync' = Sources /\ sync'["one"] = Append(sync["one"], p)
      /\ sync'["single"] = sync["single"] /\ sync'["long"] = sync["long"]
      /\ sync'["dynamic"] = sync["dynamic"]
  BY <1>1, StreamPut
<1>3. PICK stop : Holds(cmd["one"], PkgOf(a.T), a.k2, a.k3, a.z, stop) /\ stop.id = StopId
  BY DEF Parts, OneStreams, Commanded
<1>4. /\ a.k2 < a.k3 /\ p = OneOf(a.T)[a.k2]
      /\ Holds(Tail(cmd["one"]), PkgOf(a.T), a.k2 + 1, a.k3, a.z, stop)
  <2>1. a.T \in [Nat -> CmdTag] /\ a.k2 \in Nat /\ a.k3 \in Nat /\ a.z \in Bit
    BY EngineFields
  <2>2. cmd["one"] # <<>> /\ Head(cmd["one"]).id # StopId
    BY <1>1
  <2>3. /\ a.k2 < a.k3 /\ Head(cmd["one"]) = a.T[a.k2].p
        /\ Holds(Tail(cmd["one"]), PkgOf(a.T), a.k2 + 1, a.k3, a.z, stop)
    BY <1>3, <2>1, <2>2, NextCommand
  <2>4. a.T[a.k2].p.end_of_burst \in BOOLEAN
    BY <2>1 DEF CmdTag, CmdPkg
  <2>5. ("one" = "single" \/ a.T[a.k2].p.end_of_burst) = a.T[a.k2].p.end_of_burst
    BY <2>4
  <2>6. p = SyncPkg(a.T[a.k2].p, 0, a.T[a.k2].p.end_of_burst, TRUE)
    BY <2>3, <2>5 DEF p
  <2> QED
    BY <2>1, <2>3, <2>6 DEF OneOf
<1>5. Holds(sync["one"], OneOf(a.T), a.k1, a.k2, 0, None)
  BY DEF Parts, OneStreams
<1>6. Holds(sync'["one"], OneOf(a.T), a.k1, a.k2 + 1, 0, None)
  BY <1>2, <1>4, <1>5, EngineFields, HoldsPush
<1>7. Len(cmd'["one"]) <= CmdDepth /\ Len(sync'["one"]) <= SyncDepth
  <2>1. IsSeq(cmd["one"]) /\ IsSeq(sync["one"])
    BY <1>3, <1>5 DEF Holds
  <2>2. Len(cmd["one"]) <= CmdDepth
    BY DEF Rest
  <2> QED
    BY <1>1, <1>2, <2>1, <2>2, Sizes, WithinDepth
<1> PICK d \in EngineSet :
      d.T = a.T /\ d.k1 = a.k1 /\ d.k2 = a.k2 + 1 /\ d.k3 = a.k3 /\ d.z = a.z
  <2> DEFINE d == [a EXCEPT !.k2 = a.k2 + 1]
  <2>1. a.k2 + 1 \in Nat
    BY EngineFields
  <2>2. d \in EngineSet /\ d.T = a.T /\ d.k1 = a.k1 /\ d.k2 = a.k2 + 1 /\ d.k3 = a.k3 /\ d.z = a.z
    BY <2>1 DEF EngineSet
  <2> QED
    BY <2>2
<1>8. OneStreams(d)'
  BY <1>2, <1>3, <1>4, <1>6 DEF OneStreams, Commanded
<1>9. Commands(f.S, o.i, f.B[f.s], c, d, 1)' /\ Counted(d, y, c)'
  BY <1>1 DEF Parts, Commands, Counted
<1>10. Stops(u, v, d, y)'
  BY <1>1 DEF Parts, Stops
<1>11. Rest'
  BY <1>1, <1>2, <1>7 DEF Rest
<1>12. Parts(f, w, u, v, d, y, c, g, o)'
  <2>1. UNCHANGED <<cmd["single"], cmd["long"]>>
    BY <1>2
  <2>2. UNCHANGED <<sync["single"], sync["long"], sync["dynamic"]>>
    BY <1>2
  <2> QED
    BY <1>1, <1>8, <1>9, <1>10, <2>1, <2>2, KeepFront, KeepBack DEF Parts
<1> QED
  BY <1>11, <1>12 DEF BurstInv

\* The last of some numbers in a row.
LEMMA LastOfRow ==
  ASSUME NEW b \in Nat, NEW e \in Nat, NEW h, h = e + 1
  PROVE  /\ \A r \in b .. h - 1 : r \in Nat /\ r + 1 \in Nat /\ b <= r /\ r <= e
                                 /\ ((r \in b .. e - 1 /\ r < e /\ r + 1 <= e) \/ r = e)
         /\ \A r \in b .. h : r \in Nat /\ b <= r /\ ((r \in b .. e /\ r <= e) \/ r = h)
OBVIOUS

\* One more line of the long bursts, the one behind the line before.
LEMMA LineRead ==
  ASSUME NEW R, NEW X, NEW b \in Nat, NEW e \in Nat, NEW z \in Nat, b <= e,
         \A r \in Nat : R[r].k \in Nat /\ R[r].n \in Nat,
         LinesFollow(R, b, e, z), NEW k \in Nat, NEW n \in 0 .. MaxBurst - 1, k < z,
         R[e] = [k |-> k, n |-> n], \A r \in Nat : r <= e => X[r] = R[r],
         X[e + 1] = LineBehind(R[e])
  PROVE  LinesFollow(X, b, e + 1, z)
<1>1. /\ \A r \in b .. e - 1 :
         R[r].k < z /\ R[r].n \in 0 .. MaxBurst - 1 /\ R[r + 1] = LineBehind(R[r])
      /\ \A r, m \in b .. e : r <= m => R[r].k <= R[m].k /\ R[m].k - R[r].k <= m - r
  BY DEF LinesFollow
<1> PICK h \in Nat : h = e + 1
  OBVIOUS
<1>2. R[e].k = k /\ R[e].n = n /\ X[h].k \in Nat /\ k <= X[h].k /\ X[h].k <= k + 1
  BY DEF LineBehind
<1>3. ASSUME NEW r \in b .. h - 1
      PROVE  X[r].k < z /\ X[r].n \in 0 .. MaxBurst - 1 /\ X[r + 1] = LineBehind(X[r])
  <2>1. CASE r < e
    <3>1. r \in b .. e - 1 /\ r \in Nat /\ r + 1 \in Nat /\ r + 1 <= e
      BY <2>1
    <3>2. X[r] = R[r] /\ X[r + 1] = R[r + 1]
      BY <3>1
    <3> QED
      BY <1>1, <3>1, <3>2
  <2>2. CASE r = e
    BY <1>2, <2>2
  <2>3. r < e \/ r = e
    BY LastOfRow
  <2> QED
    BY <2>1, <2>2, <2>3
<1>4. ASSUME NEW r \in b .. h, NEW m \in b .. h, r <= m
      PROVE  X[r].k <= X[m].k /\ X[m].k - X[r].k <= m - r
  <2>1. CASE m <= e
    <3>1. r \in b .. e /\ m \in b .. e /\ r \in Nat /\ m \in Nat /\ r <= e
      BY <1>4, <2>1
    <3>2. X[r] = R[r] /\ X[m] = R[m]
      BY <2>1, <3>1
    <3>3. R[r].k <= R[m].k /\ R[m].k - R[r].k <= m - r
      BY <1>1, <1>4, <3>1
    <3> QED
      BY <3>2, <3>3
  <2>2. CASE r <= e /\ m = h
    <3>1. r \in b .. e /\ e \in b .. e /\ r \in Nat
      BY <2>2
    <3>2. X[r] = R[r]
      BY <2>2, <3>1
    <3>3. R[r].k <= R[e].k /\ R[e].k - R[r].k <= e - r
      BY <1>1, <2>2, <3>1
    <3> PICK p \in Nat, q \in Nat : p = R[r].k /\ q = X[h].k
      BY <1>2, <3>1
    <3>4. p <= k /\ k - p <= e - r /\ k <= q /\ q <= k + 1
      BY <1>2, <3>3
    <3>5. p <= q /\ q - p <= h - r
      BY <3>1, <3>4
    <3> QED
      BY <2>2, <3>2, <3>5
  <2>3. CASE r = h /\ m = h
    BY <1>2, <2>3
  <2>4. m <= e \/ (r <= e /\ m = h) \/ (r = h /\ m = h)
    BY <1>4, LastOfRow
  <2> QED
    BY <2>1, <2>2, <2>3, <2>4
<1> QED
  BY <1>3, <1>4 DEF LinesFollow

\* A record of the past gets an entry.
LEMMA Entered ==
  ASSUME NEW S, NEW F \in [Nat -> S], NEW e \in Nat, NEW x \in S, NEW X, X = [F EXCEPT ![e] = x]
  PROVE  X \in [Nat -> S] /\ X[e] = x /\ \A r \in Nat : r # e => X[r] = F[r]
OBVIOUS

\* The line dynamic_burst_32 reads next.
LEMMA NextLine ==
  ASSUME NEW k1 \in Nat, NEW k2 \in Nat, NEW k3 \in Nat, k1 <= k2, k2 < k3,
         NEW n \in 0 .. MaxBurst - 1, NEW n2, n2 = IF n = MaxBurst - 1 THEN 0 ELSE n + 1,
         NEW k, k = LineBehind([k |-> k2, n |-> n]).k
  PROVE  /\ k \in Nat /\ n2 \in Nat /\ n2 \in 0 .. MaxBurst - 1
         /\ k1 <= k /\ k <= k3 /\ (n2 # 0 => k < k3)
         /\ n = MaxBurst - 1 => k = k2 + 1
         /\ n # MaxBurst - 1 => k = k2
         /\ [k |-> k, n |-> n2] = LineBehind([k |-> k2, n |-> n])
<1>1. MaxBurst \in Nat /\ MaxBurst > 1
  BY Sizes
<1>2. CASE n = MaxBurst - 1
  <2>1. n2 = 0 /\ k2 + 1 \in Nat /\ 0 \in 0 .. MaxBurst - 1 /\ k1 <= k2 + 1 /\ k2 + 1 <= k3
    BY <1>1, <1>2
  <2>2. LineBehind([k |-> k2, n |-> n]) = [k |-> k2 + 1, n |-> 0]
    BY <1>2 DEF LineBehind
  <2> QED
    BY <1>2, <2>1, <2>2
<1>3. CASE n # MaxBurst - 1
  <2>1. n2 = n + 1 /\ n2 \in Nat /\ n2 \in 0 .. MaxBurst - 1 /\ k2 <= k3
    BY <1>1, <1>3
  <2>2. LineBehind([k |-> k2, n |-> n]) = [k |-> k2, n |-> n + 1]
    BY <1>3 DEF LineBehind
  <2> QED
    BY <1>3, <2>1, <2>2
<1> QED
  BY <1>2, <1>3

\* dynamic_burst_32 reads a line of its command.
LEMMA BurstLongStep ==
  ASSUME Rest, NEW f \in FrontSet, NEW w \in Seq(Nat), NEW u \in EngineSet, NEW v \in VdSet,
         NEW a \in EngineSet, NEW y \in LongSet, NEW c \in NumberSet, NEW g \in MergedSet,
         NEW o \in OutSet, Parts(f, w, u, v, a, y, c, g, o), BurstLong
  PROVE  BurstInv'
<1> DEFINE final == j = MaxBurst - 1
           q == Head(cmd["long"])
           p == SyncPkg(q, j, final /\ q.end_of_burst, final)
<1>1. /\ running["long"] /\ cmd["long"] # <<>> /\ Head(cmd["long"]).id # StopId
      /\ Len(sync["long"]) < SyncDepth
      /\ sync' = [sync EXCEPT !["long"] = Append(sync["long"], p)]
      /\ cmd' = IF final THEN [cmd EXCEPT !["long"] = Tail(cmd["long"])] ELSE cmd
      /\ j' = IF final THEN 0 ELSE j + 1
      /\ UNCHANGED <<asked, input, vs_pc, sync_id, sync_burst_id, update, burst_vd, curr,
                     dynamic_burst_id, running, intra_id, inter_id, inter_out,
                     selected, next_vertex, update_id, pending, shown>>
  BY DEF BurstLong, CanBurst, feedVars, schedVars, cgVars, mergeVars, outVars, history
<1>2. PICK stop : Holds(cmd["long"], PkgOf(y.T), y.k2, y.k3, y.z, stop) /\ stop.id = StopId
  BY DEF Parts, LongStreams, Commanded
<1>3. /\ y.T \in [Nat -> CmdTag] /\ y.k2 \in Nat /\ y.k3 \in Nat /\ y.z \in Bit
      /\ y.R \in [Nat -> LineRef] /\ y.r1 \in Nat /\ y.r2 \in Nat
  BY LongFields
<1>4. /\ y.k2 < y.k3 /\ q = y.T[y.k2].p
      /\ Holds(Tail(cmd["long"]), PkgOf(y.T), y.k2 + 1, y.k3, y.z, stop)
  <2>1. cmd["long"] # <<>> /\ Head(cmd["long"]).id # StopId
    BY <1>1
  <2> QED
    BY <1>2, <1>3, <2>1, NextCommand
<1>5. p = LongPkg(y.T[y.k2].p, j)
  BY <1>4 DEF LongPkg
<1>6. final \in BOOLEAN /\ (final <=> j = MaxBurst - 1)
  OBVIOUS
<1> HIDE DEF final, q, p
<1>7. /\ DOMAIN cmd' = Engines /\ cmd'["long"] = IF final THEN Tail(cmd["long"]) ELSE cmd["long"]
      /\ cmd'["single"] = cmd["single"] /\ cmd'["one"] = cmd["one"]
      /\ DOMAIN sync' = Sources /\ sync'["long"] = Append(sync["long"], p)
      /\ sync'["single"] = sync["single"] /\ sync'["one"] = sync["one"]
      /\ sync'["dynamic"] = sync["dynamic"]
  <2>1. /\ DOMAIN sync' = Sources /\ sync'["long"] = Append(sync["long"], p)
        /\ sync'["single"] = sync["single"] /\ sync'["one"] = sync["one"]
        /\ sync'["dynamic"] = sync["dynamic"]
    BY <1>1, StreamPut
  <2>2. CASE final
    <3>1. cmd' = [cmd EXCEPT !["long"] = Tail(cmd["long"])]
      BY <1>1, <2>2
    <3> QED
      BY <2>1, <2>2, <3>1, StreamPut
  <2>3. CASE ~final
    <3>1. cmd' = cmd /\ DOMAIN cmd = Engines
      BY <1>1, <2>3 DEF Rest
    <3> QED
      BY <2>1, <2>3, <3>1
  <2> QED
    BY <1>6, <2>2, <2>3
<1>8. Holds(sync["long"], LongOf(y.T, y.R), y.r1, y.r2, 0, None) /\ y.r1 <= y.r2
  BY DEF Parts, LongStreams, Holds
<1>9. /\ y.k1 <= y.k2 /\ y.R[y.r1].k = y.k1 /\ y.R[y.r2] = [k |-> y.k2, n |-> j]
      /\ j \in 0 .. MaxBurst - 1 /\ LinesFollow(y.R, y.r1, y.r2, y.k3)
  BY DEF Parts, LongLines
<1>20. y.k1 \in Nat /\ y.k3 \in Nat /\ y.k2 \in Nat /\ y.r1 \in Nat /\ y.r2 \in Nat
  BY LongFields
<1>21. PICK n2 : n2 = j' /\ n2 = IF j = MaxBurst - 1 THEN 0 ELSE j + 1
  BY <1>1, <1>6
<1>22. PICK k2 \in Nat :
      /\ n2 \in Nat /\ n2 \in 0 .. MaxBurst - 1 /\ y.k1 <= k2 /\ k2 <= y.k3 /\ (n2 # 0 => k2 < y.k3)
      /\ j = MaxBurst - 1 => k2 = y.k2 + 1
      /\ j # MaxBurst - 1 => k2 = y.k2
      /\ [k |-> k2, n |-> n2] = LineBehind([k |-> y.k2, n |-> j])
  <2>1. /\ y.k1 <= y.k2 /\ y.k2 < y.k3 /\ j \in 0 .. MaxBurst - 1
        /\ y.k1 \in Nat /\ y.k3 \in Nat /\ y.k2 \in Nat
    BY <1>4, <1>9, <1>20
  <2>2. n2 = IF j = MaxBurst - 1 THEN 0 ELSE j + 1
    BY <1>21
  <2>3. PICK k : k = LineBehind([k |-> y.k2, n |-> j]).k
    OBVIOUS
  <2>4. /\ k \in Nat /\ n2 \in Nat /\ n2 \in 0 .. MaxBurst - 1
        /\ y.k1 <= k /\ k <= y.k3 /\ (n2 # 0 => k < y.k3)
        /\ j = MaxBurst - 1 => k = y.k2 + 1
        /\ j # MaxBurst - 1 => k = y.k2
        /\ [k |-> k, n |-> n2] = LineBehind([k |-> y.k2, n |-> j])
    <3>1. PICK k1, kk, k3, n : k1 = y.k1 /\ kk = y.k2 /\ k3 = y.k3 /\ n = j
      OBVIOUS
    <3>2. /\ k1 \in Nat /\ kk \in Nat /\ k3 \in Nat /\ k1 <= kk /\ kk < k3
          /\ n \in 0 .. MaxBurst - 1 /\ n2 = IF n = MaxBurst - 1 THEN 0 ELSE n + 1
          /\ k = LineBehind([k |-> kk, n |-> n]).k
      BY <2>1, <2>2, <2>3, <3>1, Zenon
    <3>3. /\ k \in Nat /\ n2 \in Nat /\ n2 \in 0 .. MaxBurst - 1
          /\ k1 <= k /\ k <= k3 /\ (n2 # 0 => k < k3)
          /\ n = MaxBurst - 1 => k = kk + 1
          /\ n # MaxBurst - 1 => k = kk
          /\ [k |-> k, n |-> n2] = LineBehind([k |-> kk, n |-> n])
      BY <3>2, NextLine
    <3> QED
      BY <3>1, <3>3, Zenon
  <2> QED
    BY <2>4
<1>23. PICK X, x, e :
      /\ e \in Nat /\ e = y.r2 + 1 /\ x = [k |-> k2, n |-> n2] /\ X \in [Nat -> LineRef] /\ X[e] = x
      /\ \A r \in Nat : r # e => X[r] = y.R[r]
  <2>1. PICK e, x : e \in Nat /\ x \in LineRef /\ e = y.r2 + 1 /\ x = [k |-> k2, n |-> n2]
    <3>1. y.r2 + 1 \in Nat
      BY <1>20
    <3>2. [k |-> k2, n |-> n2] \in LineRef
      BY <1>22 DEF LineRef
    <3> QED
      BY <3>1, <3>2
  <2>2. y.R \in [Nat -> LineRef]
    BY LongFields
  <2>3. PICK X : X = [y.R EXCEPT ![e] = x]
    OBVIOUS
  <2>4. X \in [Nat -> LineRef] /\ X[e] = x /\ \A r \in Nat : r # e => X[r] = y.R[r]
    BY <2>1, <2>2, <2>3, Entered
  <2>5. /\ e \in Nat /\ e = y.r2 + 1 /\ x = [k |-> k2, n |-> n2]
        /\ X \in [Nat -> LineRef] /\ X[e] = x
        /\ \A r \in Nat : r # e => X[r] = y.R[r]
    BY <2>1, <2>4, Zenon
  <2> QED
    BY <2>5
<1>25. X[y.r2 + 1] = [k |-> k2, n |-> n2]
  BY <1>23
<1>19. /\ \A r \in Nat : r <= y.r2 => X[r] = y.R[r]
       /\ y.r1 <= y.r2 /\ X[y.r1] = y.R[y.r1] /\ X[y.r2] = y.R[y.r2]
  <2>1. \A r \in Nat : r <= y.r2 => r # y.r2 + 1
    BY <1>20
  <2>2. \A r \in Nat : r # y.r2 + 1 => X[r] = y.R[r]
    BY <1>23
  <2>3. y.r1 <= y.r2 /\ y.r1 \in Nat /\ y.r2 \in Nat
    BY <1>8, <1>20
  <2>4. \A r \in Nat : r <= y.r2 => X[r] = y.R[r]
    BY <2>1, <2>2
  <2>5. y.r2 <= y.r2
    BY <2>3
  <2> QED
    BY <2>3, <2>4, <2>5
<1>24. PICK d \in LongSet :
      /\ d.T = y.T /\ d.k1 = y.k1 /\ d.k2 = k2 /\ d.k3 = y.k3 /\ d.z = y.z
      /\ d.R = X /\ d.r1 = y.r1 /\ d.r2 = y.r2 + 1
  <2> DEFINE d == [y EXCEPT !.k2 = k2, !.R = X, !.r2 = y.r2 + 1]
  <2>1. y.r2 + 1 \in Nat
    BY <1>20
  <2>3. X \in [Nat -> LineRef]
    BY <1>23
  <2>2. /\ d \in LongSet
        /\ d.T = y.T /\ d.k1 = y.k1 /\ d.k2 = k2 /\ d.k3 = y.k3 /\ d.z = y.z
        /\ d.R = X /\ d.r1 = y.r1 /\ d.r2 = y.r2 + 1
    BY <2>1, <2>3 DEF LongSet
  <2> QED
    BY <2>2
<1>10. LongLines(d)'
  <2>1. LinesFollow(X, y.r1, y.r2 + 1, y.k3)
    <3>1. \A r \in Nat : y.R[r].k \in Nat /\ y.R[r].n \in Nat
      BY LongFields
    <3>2. X[y.r2 + 1] = LineBehind(y.R[y.r2])
      BY <1>9, <1>22, <1>25
    <3>3. y.k2 < y.k3 /\ j \in 0 .. MaxBurst - 1
      BY <1>4, <1>9
    <3>4. y.R[y.r2] = [k |-> y.k2, n |-> j] /\ LinesFollow(y.R, y.r1, y.r2, y.k3)
      BY <1>9
    <3> QED
      BY <1>19, <1>20, <3>1, <3>2, <3>3, <3>4, LineRead, ZenonT(60)
  <2>2. d.k1 <= d.k2 /\ d.k2 <= d.k3 /\ d.R[d.r1].k = d.k1
    BY <1>9, <1>19, <1>22, <1>24
  <2>3. d.R[d.r2] = [k |-> d.k2, n |-> j']
    BY <1>21, <1>24, <1>25
  <2>4. j' \in 0 .. MaxBurst - 1 /\ (j' # 0 => d.k2 < d.k3)
    BY <1>21, <1>22, <1>24
  <2>5. LinesFollow(d.R, d.r1, d.r2, d.k3)
    BY <1>24, <2>1
  <2> QED
    BY <2>2, <2>3, <2>4, <2>5 DEF LongLines
<1>11. Holds(sync'["long"], LongOf(d.T, d.R), d.r1, d.r2, 0, None)
  <2>1. \A r \in y.r1 .. y.r2 - 1 : LongOf(d.T, d.R)[r] = LongOf(y.T, y.R)[r]
    <3>1. \A r \in y.r1 .. y.r2 - 1 : r \in Nat /\ r <= y.r2
      BY <1>20
    <3> QED
      BY <1>19, <1>24, <3>1 DEF LongOf
  <2>2. Holds(sync["long"], LongOf(d.T, d.R), y.r1, y.r2, 0, None)
    <3>1. 0 \in Bit /\ y.r1 \in Nat /\ y.r2 \in Nat
      BY <1>20 DEF Bit
    <3>2. Holds(sync["long"], LongOf(y.T, y.R), y.r1, y.r2, 0, None)
      BY <1>8
    <3> QED
      BY <2>1, <3>1, <3>2, HoldsSame
  <2>3. LongOf(d.T, d.R)[y.r2] = p
    <3>1. d.R[y.r2].k = y.k2 /\ d.R[y.r2].n = j
      BY <1>9, <1>19, <1>24
    <3> QED
      BY <1>5, <1>20, <1>24, <3>1 DEF LongOf
  <2>4. Holds(Append(sync["long"], p), LongOf(d.T, d.R), y.r1, y.r2 + 1, 0, None)
    BY <1>20, <2>2, <2>3, HoldsPush
  <2> QED
    BY <1>7, <1>24, <2>4
<1>12. Holds(cmd'["long"], PkgOf(d.T), d.k2, d.k3, d.z, stop)
  BY <1>2, <1>4, <1>6, <1>7, <1>22, <1>24
<1>13. LongStreams(d)'
  BY <1>2, <1>11, <1>12 DEF LongStreams, Commanded
<1>14. Len(cmd'["long"]) <= CmdDepth /\ Len(sync'["long"]) <= SyncDepth
  <2>1. IsSeq(cmd["long"]) /\ IsSeq(sync["long"])
    BY <1>2, <1>8 DEF Holds
  <2>2. Len(cmd["long"]) <= CmdDepth /\ Len(sync["long"]) < SyncDepth /\ cmd["long"] # <<>>
    BY <1>1 DEF Rest
  <2>3. CmdDepth \in Nat /\ SyncDepth \in Nat
    BY Sizes
  <2>4. Len(Tail(cmd["long"])) <= CmdDepth /\ Len(Append(sync["long"], p)) <= SyncDepth
    BY <2>1, <2>2, <2>3, WithinDepth
  <2> QED
    BY <1>6, <1>7, <2>2, <2>4
<1>15. Commands(f.S, o.i, f.B[f.s], c, d, MaxBurst)' /\ Counted(a, d, c)' /\ Linked(d, c, g)'
  <2>1. Commands(f.S, o.i, f.B[f.s], c, d, MaxBurst)'
    BY <1>24 DEF Parts, Commands
  <2>2. Counted(a, d, c)'
    BY <1>1, <1>24 DEF Parts, Counted
  <2>3. d.R[y.r1] = y.R[y.r1]
    BY <1>19, <1>24
  <2>4. Linked(d, c, g)'
    BY <1>24, <2>3 DEF Parts, Linked
  <2> QED
    BY <2>1, <2>2, <2>4
<1>16. Stops(u, v, a, d)'
  BY <1>1, <1>4, <1>22, <1>24 DEF Parts, Stops
<1>17. Rest'
  BY <1>1, <1>7, <1>14 DEF Rest
<1>18. Parts(f, w, u, v, a, d, c, g, o)'
  <2>1. UNCHANGED <<cmd["single"], cmd["one"]>>
    BY <1>7
  <2>2. UNCHANGED <<sync["single"], sync["one"], sync["dynamic"]>>
    BY <1>7
  <2> QED
    BY <1>1, <1>10, <1>13, <1>15, <1>16, <2>1, <2>2, KeepFront, KeepBack DEF Parts
<1> QED
  BY <1>17, <1>18 DEF BurstInv

-----------------------------------------------------------------------------
(* More lists, and fewer of them                                           *)

\* lists X begin with the n lists S
SameLists(S, X, n) == \A l \in Nat : l < n => X[l] = S[l]

\* A packet is still one of a list when there are more lists, and when the lists
\* in front of its own are behind inter_merge.
LEMMA ListedMove ==
  ASSUME NEW S, NEW X, NEW i \in Nat, NEW i2 \in Nat, NEW n \in Nat, NEW n2 \in Nat,
         n <= n2, SameLists(S, X, n), NEW l, NEW p, Listed(S, i, n, l, p), i2 <= l
  PROVE  Listed(X, i2, n2, l, p) /\ X[l] = S[l] /\ l \in Nat /\ i <= l /\ l < n
<1>1. l \in Nat /\ i <= l /\ l < n /\ l \in i2 .. n2 - 1
  BY DEF Listed
<1>2. X[l] = S[l]
  BY <1>1 DEF SameLists
<1> QED
  BY <1>1, <1>2 DEF Listed

\* So are the packets of single_burst and cmd_generator,
LEMMA TagMove ==
  ASSUME NEW S, NEW X, NEW i \in Nat, NEW i2 \in Nat, NEW n \in Nat, NEW n2 \in Nat,
         n <= n2, SameLists(S, X, n), NEW T, i2 <= T.l
  PROVE  /\ SingleTag(S, i, n, T) => SingleTag(X, i2, n2, T)
         /\ VdTagged(S, i, n, T) => VdTagged(X, i2, n2, T)
         /\ MergedLine(S, i, n, T) => MergedLine(X, i2, n2, T)
<1>1. ASSUME Listed(S, i, n, T.l, T.p)
      PROVE  Listed(X, i2, n2, T.l, T.p) /\ X[T.l] = S[T.l]
  BY <1>1, ListedMove
<1>2. ASSUME SingleTag(S, i, n, T) PROVE SingleTag(X, i2, n2, T)
  BY <1>1, <1>2 DEF SingleTag, InOneLine
<1>3. ASSUME VdTagged(S, i, n, T) PROVE VdTagged(X, i2, n2, T)
  BY <1>1, <1>3 DEF VdTagged, InOneLine
<1>4. ASSUME MergedLine(S, i, n, T) PROVE MergedLine(X, i2, n2, T)
  BY <1>1, <1>4 DEF MergedLine, LineOfList, InOneLine
<1> QED
  BY <1>2, <1>3, <1>4

\* the commands
LEMMA CommandMove ==
  ASSUME NEW S, NEW X, NEW i \in Nat, NEW i2 \in Nat, NEW n \in Nat, NEW n2 \in Nat,
         n <= n2, SameLists(S, X, n), NEW T, i2 <= T.l, NEW c, NEW k, CmdTagged(S, i, n, c, T, k)
  PROVE  CmdTagged(X, i2, n2, c, T, k)
<1>1. Listed(S, i, n, T.l, T.p)
  BY DEF CmdTagged, CmdOfList
<1>2. Listed(X, i2, n2, T.l, T.p) /\ X[T.l] = S[T.l]
  BY <1>1, ListedMove
<1> QED
  BY <1>2 DEF CmdTagged, CmdOfList, InOneLine

\* and the lines.
LEMMA LineMove ==
  ASSUME NEW S, NEW X, NEW i \in Nat, NEW i2 \in Nat, NEW n \in Nat, NEW n2 \in Nat,
         n <= n2, SameLists(S, X, n), NEW l, i2 <= l, NEW m, NEW p, LineOfList(S, i, n, l, m, p)
  PROVE  LineOfList(X, i2, n2, l, m, p)
<1>1. Listed(S, i, n, l, p)
  BY DEF LineOfList
<1>2. Listed(X, i2, n2, l, p) /\ X[l] = S[l]
  BY <1>1, ListedMove
<1> QED
  BY <1>2 DEF LineOfList

\* What is made of the lists from i up to n of S is made of those up to n2 of X.
Regrown(S, X, i, n, n2) ==
    /\ \A u \in EngineSet : Singles(S, i, n, u) => Singles(X, i, n2, u)
    /\ \A v \in VdSet : Vds(S, i, n, v) => Vds(X, i, n2, v)
    /\ \A c, a, k : Commands(S, i, n, c, a, k) => Commands(X, i, n2, c, a, k)
    /\ \A g \in MergedSet : Merged(S, i, n, g) => Merged(X, i, n2, g)

\* There are more lists: everything made of a list is still made of it.
LEMMA ListsGrow ==
  ASSUME NEW S, NEW X, NEW i \in Nat, NEW n \in Nat, NEW n2 \in Nat,
         n <= n2, SameLists(S, X, n), FirstId <= i, i <= n
  PROVE  Regrown(S, X, i, n, n2)
<1>1. ASSUME NEW u \in EngineSet, Singles(S, i, n, u)
      PROVE  Singles(X, i, n2, u)
  <2>1. ASSUME NEW k \in u.k1 .. u.k3 - 1 PROVE SingleTag(X, i, n2, u.T[k])
    <3>1. SingleTag(S, i, n, u.T[k])
      BY <1>1 DEF Singles
    <3>2. i <= u.T[k].l
      BY <3>1 DEF SingleTag, Listed
    <3> QED
      BY <3>1, <3>2, TagMove
  <2> QED
    BY <1>1, <2>1 DEF Singles
<1>2. ASSUME NEW v \in VdSet, Vds(S, i, n, v)
      PROVE  Vds(X, i, n2, v)
  <2>1. ASSUME NEW k \in v.p .. v.q - 1 PROVE VdTagged(X, i, n2, v.T[k])
    <3>1. VdTagged(S, i, n, v.T[k])
      BY <1>2 DEF Vds
    <3>2. i <= v.T[k].l
      BY <3>1 DEF VdTagged, Listed
    <3> QED
      BY <3>1, <3>2, TagMove
  <2> QED
    BY <1>2, <2>1 DEF Vds
<1>3. ASSUME NEW c, NEW a, NEW k, Commands(S, i, n, c, a, k)
      PROVE  Commands(X, i, n2, c, a, k)
  <2>1. ASSUME NEW h \in a.k1 .. a.k3 - 1 PROVE CmdTagged(X, i, n2, c, a.T[h], k)
    <3>1. CmdTagged(S, i, n, c, a.T[h], k)
      BY <1>3 DEF Commands
    <3>2. i <= a.T[h].l
      BY <3>1 DEF CmdTagged, CmdOfList, Listed
    <3> QED
      BY <3>1, <3>2, CommandMove
  <2> QED
    BY <1>3, <2>1 DEF Commands
<1>4. ASSUME NEW g \in MergedSet, Merged(S, i, n, g)
      PROVE  Merged(X, i, n2, g)
  <2>1. ASSUME NEW h \in g.g1 .. g.g2 - 1 PROVE MergedLine(X, i, n2, g.G[h])
    <3>1. PICK T : T = g.G[h]
      OBVIOUS
    <3>2. MergedLine(S, i, n, T)
      BY <1>4, <3>1 DEF Merged
    <3>3. i <= T.l
      BY <3>2 DEF MergedLine, LineOfList, Listed
    <3>4. MergedLine(X, i, n2, T)
      BY <3>2, <3>3, TagMove
    <3> QED
      BY <3>1, <3>4
  <2> QED
    BY <1>4, <2>1 DEF Merged
<1> QED
  BY <1>1, <1>2, <1>3, <1>4 DEF Regrown

\* The same for the lines behind inter_merge and for what is sampled.
LEMMA OutGrows ==
  ASSUME NEW S, NEW X, NEW n \in Nat, NEW n2 \in Nat, n <= n2, SameLists(S, X, n),
         NEW o \in OutSet, o.i <= n
  PROVE  /\ \A g : Joined(S, n, g, o) => Joined(X, n2, g, o)
         /\ Out(S, n, o) => Out(X, n2, o)
         /\ \A b \in Nat : Out(S, n, o) /\ Sampled(S, b, n, o) => Sampled(X, b, n2, o)
<1>1. o.i \in Nat /\ o.t \in Nat
  BY PlaceFields
<1>2. ASSUME NEW g, Joined(S, n, g, o) PROVE Joined(X, n2, g, o)
  <2>1. CASE o.mi = 0
    BY <1>2, <2>1 DEF Joined
  <2>2. CASE o.mi # 0
    <3>1. g.Q[g.g1] = [l |-> o.i, m |-> o.mi] /\ o.i < n /\ ~InOneLine(S, o.i)
      BY <1>2, <2>2 DEF Joined
    <3>2. X[o.i] = S[o.i]
      BY <1>1, <3>1 DEF SameLists
    <3>3. o.i < n2
      BY <1>1, <3>1
    <3> QED
      BY <2>2, <3>1, <3>2, <3>3 DEF Joined, InOneLine
  <2> QED
    BY <2>1, <2>2
<1>3. ASSUME Out(S, n, o) PROVE Out(X, n2, o)
  <2>1. ASSUME NEW h \in o.k1 .. o.k2 - 1
        PROVE  LineOfList(X, FirstId, n2, o.J[h].l, o.J[h].m, o.K[h])
    <3>1. LineOfList(S, FirstId, n, o.J[h].l, o.J[h].m, o.K[h])
      BY <1>3 DEF Out
    <3>2. FirstId <= o.J[h].l
      BY <3>1 DEF LineOfList, Listed
    <3>3. FirstId \in Nat
      BY Sizes
    <3> QED
      BY <3>1, <3>2, <3>3, LineMove
  <2>2. o.i <= n2
    BY <1>1
  <2> QED
    BY <1>3, <2>1, <2>2 DEF Out
<1>4. ASSUME NEW b \in Nat, Out(S, n, o), Sampled(S, b, n, o) PROVE Sampled(X, b, n2, o)
  <2>1. o.t <= o.i
    BY <1>4 DEF Out
  <2>2. o.t < n => X[o.t] = S[o.t] /\ o.t < n2
    BY <1>1 DEF SameLists
  <2>3. ASSUME NEW l \in b .. o.t - 1 PROVE next_vertex[l - b + 1] \in SampledPkg(X[l])
    <3>1. l \in Nat /\ l < n
      BY <1>1, <2>1
    <3>2. X[l] = S[l]
      BY <3>1 DEF SameLists
    <3> QED
      BY <1>4, <3>2 DEF Sampled
  <2>4. /\ b <= o.t /\ selected \in Int /\ (o.mt = 0 => shown = {})
        /\ IsSeq(next_vertex) /\ Len(next_vertex) = o.t - b
    BY <1>4 DEF Sampled
  <2>5. selected # Dead => o.t < n2 /\ (LongBurstsFit => selected \in Words(X[o.t].p.vertex))
    BY <1>4, <2>2 DEF Sampled
  <2>6. o.mt # 0 => o.t < n2 /\ (LongBurstsWhole => shown = Below(X[o.t].p.vertex, o.mt))
    BY <1>4, <2>2 DEF Sampled
  <2> QED
    BY <2>3, <2>4, <2>5, <2>6 DEF Sampled
<1> QED
  BY <1>2, <1>3, <1>4

-----------------------------------------------------------------------------
(* What the history says                                                   *)

\* The order of the places in the requests.
LEMMA FrontOrder ==
  ASSUME NEW f \in FrontSet, Requests(f)
  PROVE  /\ FirstId \in Nat /\ f.b \in Nat /\ f.s \in Nat /\ f.e \in Nat
         /\ FirstId <= f.b /\ f.b <= f.s /\ f.s <= f.e /\ FirstId <= f.s /\ FirstId <= f.e
         /\ f.b <= f.e /\ f.e - f.b <= MaxInFlight /\ f.s - f.b <= MaxInFlight
<1>1. FirstId \in Nat /\ f.b \in Nat /\ f.s \in Nat /\ f.e \in Nat /\ MaxInFlight \in Nat
  BY FrontFields, Sizes
<1>2. FirstId <= f.b /\ f.b <= f.s /\ f.s <= f.e /\ f.e - f.b <= MaxInFlight
  BY DEF Requests
<1> QED
  BY <1>1, <1>2

\* What the history says of a request.
LEMMA HistoryStep ==
  ASSUME NEW f \in FrontSet, Numbering(f), NEW a \in Nat, FirstId <= a, a < f.e
  PROVE  /\ f.H[a] \in Pkg /\ f.H[a].last \in BOOLEAN /\ f.B[a] \in Nat /\ f.B[a + 1] \in Nat
         /\ f.H[a].vertex \in Descs
         /\ Sized(f.H[a]) => /\ f.B[a + 1] = f.B[a] + 1
                             /\ f.S[f.B[a]].a = a /\ f.S[f.B[a]].p = f.H[a]
         /\ ~Sized(f.H[a]) => f.B[a + 1] = f.B[a]
<1>1. f.e \in Nat /\ FirstId \in Nat
  BY FrontFields, Sizes
<1>2. a \in FirstId .. f.e - 1 /\ a + 1 \in Nat
  BY <1>1
<1>3. /\ f.H[a].vertex \in Descs
      /\ f.B[a + 1] = IF Sized(f.H[a]) THEN f.B[a] + 1 ELSE f.B[a]
      /\ Sized(f.H[a]) => f.S[f.B[a]] = [a |-> a, p |-> f.H[a]]
  BY <1>2 DEF Numbering
<1>4. f.H[a] \in Pkg /\ f.H[a].last \in BOOLEAN /\ f.B[a] \in Nat /\ f.B[a + 1] \in Nat
  BY <1>2, FrontFields
<1> QED
  BY <1>3, <1>4

\* The later the request the more lists are before it, but no more lists than
\* requests.
LEMMA ListsBefore ==
  ASSUME NEW f \in FrontSet, Numbering(f), NEW a \in Nat, NEW c \in Nat,
         FirstId <= a, a <= c, c <= f.e
  PROVE  /\ f.B[a] \in Nat /\ f.B[c] \in Nat /\ f.B[a] <= f.B[c] /\ f.B[c] - f.B[a] <= c - a
         /\ FirstId <= f.B[a] /\ FirstId <= f.B[c]
<1>1. f.e \in Nat /\ FirstId \in Nat /\ f.B[a] \in Nat /\ f.B[c] \in Nat
  BY FrontFields, Sizes
<1>2. a \in FirstId .. f.e /\ c \in FirstId .. f.e /\ FirstId \in FirstId .. f.e /\ FirstId <= c
  BY <1>1
<1>3. f.B[a] <= f.B[c] /\ f.B[c] - f.B[a] <= c - a
  BY <1>2 DEF Numbering
<1>4. f.B[FirstId] = FirstId /\ f.B[FirstId] <= f.B[a] /\ f.B[FirstId] <= f.B[c]
  BY <1>2 DEF Numbering
<1> QED
  BY <1>1, <1>3, <1>4

\* What the history says of a list.
LEMMA HistoryList ==
  ASSUME NEW f \in FrontSet, Numbering(f), NEW l \in Nat, FirstId <= l, l < f.B[f.e]
  PROVE  /\ f.S[l].a \in Nat /\ FirstId <= f.S[l].a /\ f.S[l].a < f.e
         /\ Sized(f.H[f.S[l].a]) /\ f.B[f.S[l].a] = l /\ f.B[f.S[l].a + 1] = l + 1
         /\ f.S[l].p = f.H[f.S[l].a] /\ f.S[l].p.vertex \in Descs
         /\ f.S[l].p.vertex.start \in Nat /\ f.S[l].p.vertex.size \in Nat
         /\ f.S[l].p.vertex.size # 0
<1>1. f.e \in Nat /\ FirstId \in Nat /\ f.B[f.e] \in Nat
  BY FrontFields, Sizes
<1>2. l \in FirstId .. f.B[f.e] - 1
  BY <1>1
<1>3. f.S[l].a \in FirstId .. f.e - 1 /\ Sized(f.H[f.S[l].a]) /\ f.B[f.S[l].a] = l
  BY <1>2 DEF Numbering
<1>4. PICK a : a \in Nat /\ a = f.S[l].a /\ FirstId <= a /\ a < f.e
  BY <1>1, <1>3
<1>5. /\ f.B[a + 1] = f.B[a] + 1 /\ f.S[f.B[a]].p = f.H[a] /\ f.H[a].vertex \in Descs
  BY <1>3, <1>4, HistoryStep
<1>6. f.S[l].p.vertex.start \in Nat /\ f.S[l].p.vertex.size \in Nat
  BY FrontFields
<1>7. f.S[l].p = f.H[a] /\ f.B[a] = l /\ Sized(f.H[a])
  BY <1>3, <1>4, <1>5
<1> QED
  BY <1>3, <1>4, <1>5, <1>6, <1>7 DEF Sized

\* The lists of the requests that are not answered.
LEMMA ListWindow ==
  ASSUME NEW f \in FrontSet, Requests(f), Numbering(f)
  PROVE  /\ f.B[f.b] \in Nat /\ f.B[f.s] \in Nat /\ f.B[f.e] \in Nat /\ FirstId <= f.B[f.b]
         /\ f.B[f.b] <= f.B[f.s] /\ f.B[f.s] <= f.B[f.e]
         /\ f.B[f.s] < f.B[f.b] + IdMod + 1
         /\ \A l \in Nat : f.B[f.b] <= l /\ l < f.B[f.s] => l < f.B[f.b] + IdMod
<1>1. /\ FirstId \in Nat /\ f.b \in Nat /\ f.s \in Nat /\ f.e \in Nat
      /\ FirstId <= f.b /\ f.b <= f.s /\ f.s <= f.e /\ FirstId <= f.s
      /\ f.s - f.b <= MaxInFlight
  BY FrontOrder
<1>2. /\ f.B[f.b] \in Nat /\ f.B[f.s] \in Nat /\ f.B[f.b] <= f.B[f.s]
      /\ f.B[f.s] - f.B[f.b] <= f.s - f.b /\ FirstId <= f.B[f.b]
  BY <1>1, ListsBefore
<1>3. f.e <= f.e
  BY <1>1
<1>4. f.B[f.e] \in Nat /\ f.B[f.s] <= f.B[f.e]
  BY <1>1, <1>3, ListsBefore
<1>5. MaxInFlight \in Nat /\ MaxInFlight <= IdMod /\ IdMod \in Nat
  BY Sizes
<1>6. f.B[f.s] <= f.B[f.b] + IdMod
  BY <1>1, <1>2, <1>5
<1>7. \A l \in Nat : f.B[f.b] <= l /\ l < f.B[f.s] => l < f.B[f.b] + IdMod
  BY <1>2, <1>5, <1>6
<1>8. f.B[f.s] < f.B[f.b] + IdMod + 1
  BY <1>2, <1>5, <1>6
<1> QED
  BY <1>2, <1>4, <1>7, <1>8

-----------------------------------------------------------------------------
(* A request                                                               *)

\* h is history f with the request p behind it.
Grown(f, h, p) ==
    /\ h.e = f.e + 1 /\ h.b = f.b /\ h.s = f.s
    /\ h.H[f.e] = p /\ \A a \in Nat : a < f.e => h.H[a] = f.H[a]
    /\ h.B[f.e + 1] = IF Sized(p) THEN f.B[f.e] + 1 ELSE f.B[f.e]
    /\ \A a \in Nat : a <= f.e => h.B[a] = f.B[a]
    /\ Sized(p) => h.S[f.B[f.e]] = [a |-> f.e, p |-> p]
    /\ \A l \in Nat : l < f.B[f.e] => h.S[l] = f.S[l]

\* There is such a history.
LEMMA HistoryGrows ==
  ASSUME NEW f \in FrontSet, NEW p \in Pkg
  PROVE  \E h \in FrontSet : Grown(f, h, p)
<1>1. /\ f.H \in [Nat -> Pkg] /\ f.B \in [Nat -> Nat] /\ f.S \in [Nat -> ListSet]
      /\ f.e \in Nat
  BY FrontFields
<1>2. PICK e, x, u : /\ e \in Nat /\ e = f.e /\ x \in Nat /\ x = e + 1 /\ u \in Nat /\ u = f.B[e]
  BY <1>1
<1>3. PICK w : w \in Nat /\ w = IF Sized(p) THEN u + 1 ELSE u
  BY <1>2
<1>4. PICK q : q \in ListSet /\ q = [a |-> e, p |-> p]
  BY <1>2 DEF ListSet
<1>5. PICK K : K = [f.H EXCEPT ![e] = p]
  OBVIOUS
<1>6. K \in [Nat -> Pkg] /\ K[e] = p /\ \A a \in Nat : a # e => K[a] = f.H[a]
  BY <1>1, <1>2, <1>5, Entered
<1>7. PICK C : C = [f.B EXCEPT ![x] = w]
  OBVIOUS
<1>8. C \in [Nat -> Nat] /\ C[x] = w /\ \A a \in Nat : a # x => C[a] = f.B[a]
  BY <1>1, <1>2, <1>3, <1>7, Entered
<1>9. PICK T : T = [f.S EXCEPT ![u] = q]
  OBVIOUS
<1>10. T \in [Nat -> ListSet] /\ T[u] = q /\ \A l \in Nat : l # u => T[l] = f.S[l]
  BY <1>1, <1>2, <1>4, <1>9, Entered
<1>11. PICK h \in FrontSet : /\ h.H = K /\ h.B = C /\ h.S = T /\ h.b = f.b /\ h.s = f.s
                             /\ h.e = x
  <2> DEFINE h == [f EXCEPT !.H = K, !.B = C, !.S = T, !.e = x]
  <2>1. /\ h \in FrontSet /\ h.H = K /\ h.B = C /\ h.S = T /\ h.b = f.b /\ h.s = f.s
        /\ h.e = x
    BY <1>2, <1>6, <1>8, <1>10 DEF FrontSet
  <2> QED
    BY <2>1
<1>12. \A a \in Nat : (a < e => a # e) /\ (a <= e => a # x) /\ (a < u => a # u)
  BY <1>2
<1>13. Grown(f, h, p)
  BY <1>2, <1>3, <1>4, <1>6, <1>8, <1>10, <1>11, <1>12 DEF Grown
<1> QED
  BY <1>11, <1>13

\* A new request is numbered, and its list if it has one.
LEMMA GrowNumbering ==
  ASSUME NEW f \in FrontSet, Requests(f), Numbering(f), NEW p \in Pkg, p.vertex \in Descs,
         NEW h \in FrontSet, Grown(f, h, p)
  PROVE  Numbering(h)
<1> PICK e \in Nat : e = f.e
  BY FrontFields
<1> PICK u \in Nat : u = f.B[e]
  BY FrontFields
<1>1. FirstId \in Nat /\ FirstId <= e
  BY FrontOrder
<1>2. /\ h.e = e + 1 /\ h.H[e] = p /\ \A a \in Nat : a < e => h.H[a] = f.H[a]
      /\ h.B[e + 1] = IF Sized(p) THEN u + 1 ELSE u
      /\ \A a \in Nat : a <= e => h.B[a] = f.B[a]
      /\ Sized(p) => h.S[u] = [a |-> e, p |-> p]
      /\ \A l \in Nat : l < u => h.S[l] = f.S[l]
  BY DEF Grown
<1>3. h.B[e] = u /\ e <= e
  BY <1>2
<1>4. \A a \in Nat : FirstId <= a /\ a <= e =>
        f.B[a] \in Nat /\ f.B[a] <= u /\ u - f.B[a] <= e - a
  BY <1>1, <1>3, ListsBefore
<1>6. ASSUME NEW a \in FirstId .. e
      PROVE  /\ h.H[a].vertex \in Descs
             /\ h.B[a + 1] = IF Sized(h.H[a]) THEN h.B[a] + 1 ELSE h.B[a]
             /\ Sized(h.H[a]) => h.S[h.B[a]] = [a |-> a, p |-> h.H[a]]
  <2>1. CASE a = e
    BY <1>2, <1>3, <2>1
  <2>2. CASE a # e
    <3>1. a \in Nat /\ FirstId <= a /\ a < e /\ a + 1 <= e /\ a + 1 \in Nat /\ FirstId <= a + 1
          /\ a \in FirstId .. e - 1 /\ a <= e
      BY <1>1, <2>2
    <3>2. h.H[a] = f.H[a] /\ h.B[a] = f.B[a] /\ h.B[a + 1] = f.B[a + 1]
      BY <1>2, <3>1
    <3>3. /\ f.B[a + 1] = IF Sized(f.H[a]) THEN f.B[a] + 1 ELSE f.B[a]
          /\ Sized(f.H[a]) => f.S[f.B[a]] = [a |-> a, p |-> f.H[a]]
          /\ f.H[a].vertex \in Descs
      BY <3>1 DEF Numbering
    <3>4. ASSUME Sized(f.H[a]) PROVE h.S[f.B[a]] = f.S[f.B[a]]
      <4>1. f.B[a] \in Nat /\ f.B[a + 1] = f.B[a] + 1 /\ f.B[a + 1] <= u
        BY <1>4, <3>1, <3>3, <3>4
      <4>2. f.B[a] < u
        BY <4>1
      <4> QED
        BY <1>2, <4>1, <4>2
    <3> QED
      BY <3>2, <3>3, <3>4
  <2> QED
    BY <2>1, <2>2
<1>10. PICK w : w \in Nat /\ w = h.B[e + 1] /\ u <= w /\ w <= u + 1 /\ (w = u \/ (Sized(p) /\ w = u + 1))
  <2>1. CASE Sized(p)
    BY <1>2, <2>1
  <2>2. CASE ~Sized(p)
    BY <1>2, <2>2
  <2> QED
    BY <2>1, <2>2
<1>7. ASSUME NEW a \in FirstId .. e + 1, NEW c \in FirstId .. e + 1, a <= c
      PROVE  h.B[a] <= h.B[c] /\ h.B[c] - h.B[a] <= c - a
  <2>1. CASE c <= e
    <3>1. a \in Nat /\ c \in Nat /\ FirstId <= a /\ a <= e
      BY <1>1, <1>7, <2>1
    <3>2. f.B[a] <= f.B[c] /\ f.B[c] - f.B[a] <= c - a
      BY <1>1, <1>7, <2>1, <3>1, ListsBefore
    <3> QED
      BY <1>2, <2>1, <3>1, <3>2
  <2>2. CASE c > e /\ a <= e
    <3>1. c = e + 1 /\ a \in Nat /\ FirstId <= a
      BY <1>1, <2>2
    <3>2. PICK q : q = f.B[a] /\ h.B[a] = q /\ q \in Nat /\ q <= u /\ u - q <= e - a
      BY <1>2, <1>4, <2>2, <3>1
    <3>3. h.B[c] = w
      BY <1>10, <3>1
    <3>4. q <= w /\ w - q <= c - a
      BY <1>10, <3>1, <3>2
    <3> QED
      BY <3>2, <3>3, <3>4
  <2>3. CASE c > e /\ a > e
    <3>1. c = e + 1 /\ a = e + 1
      BY <1>1, <2>3
    <3>2. h.B[a] = w /\ h.B[c] = w
      BY <1>10, <3>1
    <3> QED
      BY <1>10, <3>1, <3>2
  <2> QED
    BY <1>1, <2>1, <2>2, <2>3
<1>11. h.B[FirstId] = FirstId
  BY <1>1, <1>2 DEF Numbering
<1>8. ASSUME NEW l \in FirstId .. w - 1
      PROVE  /\ h.S[l].a \in FirstId .. e
             /\ Sized(h.H[h.S[l].a]) /\ h.B[h.S[l].a] = l
  <2>1. CASE l < u
    <3>1. l \in Nat /\ FirstId <= l /\ l < f.B[f.e]
      BY <1>1, <1>10, <2>1
    <3>2. /\ f.S[l].a \in Nat /\ FirstId <= f.S[l].a /\ f.S[l].a < f.e
          /\ Sized(f.H[f.S[l].a]) /\ f.B[f.S[l].a] = l
      BY <3>1, HistoryList
    <3>3. h.S[l] = f.S[l]
      BY <1>2, <2>1, <3>1
    <3>5. PICK a : a \in Nat /\ a = f.S[l].a
      BY <3>2
    <3>4. a \in FirstId .. e /\ a < e /\ a <= e
      BY <1>1, <3>2, <3>5
    <3> QED
      BY <1>2, <3>2, <3>3, <3>4, <3>5
  <2>2. CASE l >= u
    <3>1. l = u /\ Sized(p)
      BY <1>1, <1>10, <2>2
    <3>2. h.S[l].a = e
      BY <1>2, <3>1
    <3>3. e \in FirstId .. e
      BY <1>1
    <3> QED
      BY <1>2, <1>3, <3>1, <3>2, <3>3
  <2> QED
    BY <1>1, <1>10, <2>1, <2>2
<1>9. h.e - 1 = e /\ h.B[h.e] = w
  BY <1>2, <1>10
<1> QED
  BY <1>2, <1>6, <1>7, <1>8, <1>9, <1>11 DEF Numbering

\* A packet behind what a stream holds.
LEMMA HoldsBehind ==
  ASSUME NEW s, NEW F, NEW G, NEW x \in Nat, NEW y \in Nat, NEW stop, Holds(s, F, x, y, 0, stop),
         SameLists(F, G, y), NEW p, G[y] = p
  PROVE  Holds(Append(s, p), G, x, y + 1, 0, stop)
<1>1. \A r \in x .. y - 1 : r \in Nat /\ r < y
  OBVIOUS
<1>2. \A r \in x .. y - 1 : G[r] = F[r]
  BY <1>1 DEF SameLists
<1>3. 0 \in Bit
  BY DEF Bit
<1>4. Holds(s, G, x, y, 0, stop)
  BY <1>2, <1>3, HoldsSame
<1> QED
  BY <1>4, HoldsPush

\* A request is made.
LEMMA RequestStep ==
  ASSUME Rest, NEW f \in FrontSet, NEW w \in Seq(Nat), NEW u \in EngineSet, NEW v \in VdSet,
         NEW a \in EngineSet, NEW y \in LongSet, NEW c \in NumberSet, NEW g \in MergedSet,
         NEW o \in OutSet, Parts(f, w, u, v, a, y, c, g, o), Request
  PROVE  BurstInv'
<1>1. PICK p : /\ p \in Pkg /\ p.vertex \in Descs
               /\ input' = Append(input, p) /\ pending' = Append(pending, p)
  <2>1. PICK d \in Descs, last \in BOOLEAN :
          /\ input' = Append(input, [vertex |-> d, last |-> last])
          /\ pending' = Append(pending, [vertex |-> d, last |-> last])
    BY DEF Request
  <2>2. d \in [start: Nat, size: Nat]
    BY <2>1, BurstAssumption
  <2>3. [vertex |-> d, last |-> last] \in Pkg /\ [vertex |-> d, last |-> last].vertex = d
    BY <2>1, <2>2 DEF Pkg
  <2> QED
    BY <2>1, <2>3
<1>2. /\ asked < MaxReq /\ Len(pending) < MaxInFlight /\ vs_pc = "run"
      /\ \A m \in 1 .. Len(pending) : ~pending[m].last
      /\ asked' = asked + 1
      /\ UNCHANGED <<vs_pc, sync_id, sync_burst_id, update, burst_vd, curr, dynamic_burst_id, cmd,
                     running, j, sync, intra_id, inter_id, inter_out, selected, next_vertex,
                     update_id, shown>>
  BY DEF Request, schedVars, cgVars, engineVars, mergeVars, outVars
<1>3. Requests(f) /\ Numbering(f)
  BY DEF Parts
<1>4. PICK h \in FrontSet : Grown(f, h, p)
  BY <1>1, HistoryGrows
<1>5. /\ h.e = f.e + 1 /\ h.b = f.b /\ h.s = f.s /\ h.H[f.e] = p
      /\ \A a1 \in Nat : a1 < f.e => h.H[a1] = f.H[a1]
      /\ \A a1 \in Nat : a1 <= f.e => h.B[a1] = f.B[a1]
      /\ \A l \in Nat : l < f.B[f.e] => h.S[l] = f.S[l]
  BY <1>4 DEF Grown
<1>6. /\ FirstId \in Nat /\ f.b \in Nat /\ f.s \in Nat /\ f.e \in Nat
      /\ FirstId <= f.b /\ f.b <= f.s /\ f.s <= f.e /\ FirstId <= f.s /\ FirstId <= f.e
      /\ f.b <= f.e
  BY <1>3, FrontOrder
<1>7. h.B[f.b] = f.B[f.b] /\ h.B[f.s] = f.B[f.s]
  BY <1>5, <1>6
<1>8. Numbering(h)
  BY <1>1, <1>3, <1>4, GrowNumbering
<1>9. Holds(pending, f.H, f.b, f.e, 0, None) /\ Holds(input, f.H, f.s, f.e, 0, None)
  BY <1>3 DEF Requests
<1>10. Requests(h)'
  <2>8. SameLists(f.H, h.H, f.e) /\ h.H[f.e] = p
    BY <1>5 DEF SameLists
  <2>1. Holds(pending', h.H, f.b, f.e + 1, 0, None)
    <3>1. Holds(Append(pending, p), h.H, f.b, f.e + 1, 0, None)
      BY <1>6, <1>9, <2>8, HoldsBehind
    <3> QED
      BY <1>1, <3>1
  <2>2. Holds(input', h.H, f.s, f.e + 1, 0, None)
    <3>1. Holds(Append(input, p), h.H, f.s, f.e + 1, 0, None)
      BY <1>6, <1>9, <2>8, HoldsBehind
    <3> QED
      BY <1>1, <3>1
  <2>3. (f.e + 1) - f.b <= MaxInFlight
    <3>1. Len(pending) = f.e - f.b
      BY <1>6, <1>9, StreamEmpty
    <3>2. MaxInFlight \in Nat /\ f.e - f.b < MaxInFlight
      BY <1>2, <3>1, Sizes
    <3> QED
      BY <1>6, <3>2
  <2>4. ASSUME NEW a1 \in f.b .. f.e, h.H[a1].last PROVE a1 = f.e
    <3>1. SUFFICES ASSUME a1 # f.e PROVE FALSE
      OBVIOUS
    <3>2. a1 \in f.b .. f.e - 1 /\ a1 \in Nat /\ a1 < f.e /\ a1 - f.b + 1 \in 1 .. f.e - f.b
      BY <1>6, <3>1
    <3>3. h.H[a1] = f.H[a1]
      BY <1>5, <3>2
    <3>4. Len(pending) = f.e - f.b /\ pending[a1 - f.b + 1] = f.H[a1]
      BY <1>6, <1>9, <3>2, SMTT(30) DEF Holds
    <3> QED
      BY <1>2, <2>4, <3>2, <3>3, <3>4
  <2>5. h.e - 1 = f.e
    BY <1>5, <1>6
  <2>6. f.s <= f.e + 1
    BY <1>6
  <2>7. sync_id = f.s % IdMod /\ update_id = f.b % IdMod /\ sync_burst_id = f.B[f.s] % IdMod
    BY <1>3 DEF Requests
  <2> QED
    BY <1>2, <1>5, <1>6, <1>7, <2>1, <2>2, <2>3, <2>4, <2>5, <2>6, <2>7 DEF Requests
<1>11. Empties(h, w)'
  <2>1. ASSUME NEW m \in 1 .. Len(w) PROVE w[m] \in f.b .. f.s - 1 /\ h.H[w[m]] = f.H[w[m]]
    <3>1. w[m] \in f.b .. f.s - 1
      BY DEF Parts, Empties
    <3>2. w[m] \in Nat /\ w[m] < f.e
      BY <1>6, <3>1
    <3> QED
      BY <1>5, <3>1, <3>2
  <2> QED
    BY <1>2, <1>5, <2>1 DEF Parts, Empties
<1>12. PICK n : n \in Nat /\ n = f.B[f.s]
  BY <1>6, FrontFields
<1>13. SameLists(f.S, h.S, n)
  <2>1. f.B[f.s] <= f.B[f.e] /\ f.B[f.e] \in Nat
    BY <1>3, ListWindow
  <2>2. \A l \in Nat : l < n => l < f.B[f.e]
    BY <1>12, <2>1
  <2> QED
    BY <1>5, <2>2 DEF SameLists
<1>14. o.i \in Nat /\ o.i <= n /\ FirstId <= o.i
  <2>1. o.t <= o.i /\ o.i <= n /\ f.B[f.b] <= o.t
    BY <1>12 DEF Parts, Out, Sampled
  <2>2. o.i \in Nat /\ o.t \in Nat
    BY PlaceFields
  <2>3. f.B[f.b] \in Nat /\ FirstId <= f.B[f.b]
    BY <1>3, ListWindow
  <2> QED
    BY <1>6, <2>1, <2>2, <2>3
<1>15. /\ Singles(h.S, o.i, n, u) /\ Vds(h.S, o.i, n, v) /\ Commands(h.S, o.i, n, c, a, 1)
       /\ Commands(h.S, o.i, n, c, y, MaxBurst) /\ Merged(h.S, o.i, n, g)
       /\ Joined(h.S, n, g, o) /\ Out(h.S, n, o) /\ Sampled(h.S, f.B[f.b], n, o)
  <2>1. /\ Singles(f.S, o.i, n, u) /\ Vds(f.S, o.i, n, v) /\ Commands(f.S, o.i, n, c, a, 1)
        /\ Commands(f.S, o.i, n, c, y, MaxBurst) /\ Merged(f.S, o.i, n, g)
        /\ Joined(f.S, n, g, o) /\ Out(f.S, n, o) /\ Sampled(f.S, f.B[f.b], n, o)
    BY <1>12 DEF Parts
  <2>2. n <= n
    BY <1>12
  <2>3. f.B[f.b] \in Nat
    BY <1>6, FrontFields
  <2>7. Regrown(f.S, h.S, o.i, n, n)
    BY <1>12, <1>13, <1>14, <2>2, ListsGrow
  <2>4. Singles(h.S, o.i, n, u) /\ Vds(h.S, o.i, n, v)
    BY <2>1, <2>7 DEF Regrown
  <2>5. /\ Commands(h.S, o.i, n, c, a, 1) /\ Commands(h.S, o.i, n, c, y, MaxBurst)
        /\ Merged(h.S, o.i, n, g)
    BY <2>1, <2>7 DEF Regrown
  <2>6. Joined(h.S, n, g, o) /\ Out(h.S, n, o) /\ Sampled(h.S, f.B[f.b], n, o)
    BY <1>12, <1>13, <1>14, <2>1, <2>2, <2>3, OutGrows
  <2> QED
    BY <2>4, <2>5, <2>6
<1>16. h.B[h.s] = n /\ h.B[h.b] = f.B[f.b]
  BY <1>5, <1>7, <1>12
<1>17. Rest'
  BY <1>2, BurstAssumption DEF Rest
<1>18. Parts(h, w, u, v, a, y, c, g, o)'
  <2>1. UNCHANGED <<cmd["single"], cmd["one"], cmd["long"], sync["single"], sync["one"],
                    sync["long"], sync["dynamic"]>>
    BY <1>2
  <2>2. Numbering(h)'
    BY <1>8, KeepFront
  <2>3. Singles(h.S, o.i, n, u)' /\ Vds(h.S, o.i, n, v)' /\ Generated(v)'
    BY <1>2, <1>15, <2>1, KeepFront DEF Parts
  <2>4. /\ OneStreams(a)' /\ LongStreams(y)' /\ LongLines(y)' /\ Counted(a, y, c)'
        /\ Ordered(n, v, c)' /\ Linked(y, c, g)' /\ Stops(u, v, a, y)'
    BY <1>2, <1>12, <2>1, KeepBack DEF Parts
  <2>5. /\ Commands(h.S, o.i, n, c, a, 1)' /\ Commands(h.S, o.i, n, c, y, MaxBurst)'
        /\ Merged(h.S, o.i, n, g)' /\ Joined(h.S, n, g, o)' /\ Out(h.S, n, o)'
        /\ Sampled(h.S, f.B[f.b], n, o)'
    BY <1>2, <1>15, <2>1, KeepBack
  <2> QED
    BY <1>10, <1>11, <1>16, <2>2, <2>3, <2>4, <2>5 DEF Parts
<1> QED
  BY <1>4, <1>17, <1>18 DEF BurstInv

-----------------------------------------------------------------------------
(* vd_scheduler                                                            *)

\* Two records of commands hold the same packets as far as they agree.
LEMMA SameTags ==
  ASSUME NEW T, NEW X, NEW n, SameLists(T, X, n)
  PROVE  /\ SameLists(PkgOf(T), PkgOf(X), n) /\ SameLists(SingleOf(T), SingleOf(X), n)
         /\ SameLists(OneOf(T), OneOf(X), n)
<1>1. ASSUME NEW l \in Nat, l < n
      PROVE  PkgOf(X)[l] = PkgOf(T)[l] /\ SingleOf(X)[l] = SingleOf(T)[l] /\ OneOf(X)[l] = OneOf(T)[l]
  <2>1. X[l] = T[l]
    BY <1>1 DEF SameLists
  <2> QED
    BY <2>1 DEF PkgOf, SingleOf, OneOf
<1> QED
  BY <1>1 DEF SameLists

\* What a stream holds, if its record has got an entry behind.
LEMMA HoldsOld ==
  ASSUME NEW s, NEW F, NEW G, NEW x \in Nat, NEW y \in Nat, NEW n \in Nat, y <= n,
         NEW z \in Bit, NEW stop, Holds(s, F, x, y, z, stop), SameLists(F, G, n)
  PROVE  Holds(s, G, x, y, z, stop)
<1>1. \A r \in x .. y - 1 : r \in Nat /\ r < n
  OBVIOUS
<1>2. \A r \in x .. y - 1 : G[r] = F[r]
  BY <1>1 DEF SameLists
<1> QED
  BY <1>2, HoldsSame

\* Record d is record u with the command T behind it.
MoreCommands(u, d, T) ==
    /\ d.T[u.k3] = T /\ SameLists(u.T, d.T, u.k3)
    /\ d.k1 = u.k1 /\ d.k2 = u.k2 /\ d.k3 = u.k3 + 1 /\ d.z = u.z

\* There are such records.
LEMMA CommandsGrow ==
  ASSUME NEW T \in CmdTag
  PROVE  /\ \A u \in EngineSet : \E d \in EngineSet : MoreCommands(u, d, T)
         /\ \A y \in LongSet : \E d \in LongSet :
              MoreCommands(y, d, T) /\ d.R = y.R /\ d.r1 = y.r1 /\ d.r2 = y.r2
<1>1. ASSUME NEW F \in [Nat -> CmdTag], NEW e \in Nat
      PROVE  \E X \in [Nat -> CmdTag] : X[e] = T /\ SameLists(F, X, e)
  <2>1. PICK X : X = [F EXCEPT ![e] = T]
    OBVIOUS
  <2>2. X \in [Nat -> CmdTag] /\ X[e] = T /\ \A r \in Nat : r # e => X[r] = F[r]
    BY <2>1, Entered
  <2>3. \A r \in Nat : r < e => r # e
    OBVIOUS
  <2>4. SameLists(F, X, e)
    BY <2>2, <2>3 DEF SameLists
  <2> QED
    BY <2>2, <2>4
<1>2. ASSUME NEW u \in EngineSet
      PROVE  \E d \in EngineSet : MoreCommands(u, d, T)
  <2>1. u.T \in [Nat -> CmdTag] /\ u.k3 \in Nat /\ u.k3 + 1 \in Nat
    BY EngineFields
  <2>2. PICK X : X \in [Nat -> CmdTag] /\ X[u.k3] = T /\ SameLists(u.T, X, u.k3)
    BY <1>1, <2>1
  <2> DEFINE d == [u EXCEPT !.T = X, !.k3 = u.k3 + 1]
  <2>3. /\ d \in EngineSet /\ d.T = X /\ d.k1 = u.k1 /\ d.k2 = u.k2 /\ d.k3 = u.k3 + 1
        /\ d.z = u.z
    BY <2>1, <2>2 DEF EngineSet
  <2> HIDE DEF d
  <2> QED
    BY <2>2, <2>3 DEF MoreCommands
<1>3. ASSUME NEW y \in LongSet
      PROVE  \E d \in LongSet :
               MoreCommands(y, d, T) /\ d.R = y.R /\ d.r1 = y.r1 /\ d.r2 = y.r2
  <2>1. y.T \in [Nat -> CmdTag] /\ y.k3 \in Nat /\ y.k3 + 1 \in Nat
    BY LongFields
  <2>2. PICK X : X \in [Nat -> CmdTag] /\ X[y.k3] = T /\ SameLists(y.T, X, y.k3)
    BY <1>1, <2>1
  <2> DEFINE d == [y EXCEPT !.T = X, !.k3 = y.k3 + 1]
  <2>3. /\ d \in LongSet /\ d.T = X /\ d.k1 = y.k1 /\ d.k2 = y.k2 /\ d.k3 = y.k3 + 1
        /\ d.z = y.z /\ d.R = y.R /\ d.r1 = y.r1 /\ d.r2 = y.r2
    BY <2>1, <2>2 DEF LongSet
  <2> HIDE DEF d
  <2> QED
    BY <2>2, <2>3 DEF MoreCommands
<1> QED
  BY <1>2, <1>3

\* vd_scheduler takes the first request that is not scheduled.
LEMMA Taken ==
  ASSUME NEW f \in FrontSet, Requests(f), Dispatch
  PROVE  f.s < f.e /\ Head(input) = f.H[f.s] /\ Holds(Tail(input), f.H, f.s + 1, f.e, 0, None)
<1>1. input # <<>>
  BY DEF Dispatch
<1>2. Holds(input, f.H, f.s, f.e, 0, None)
  BY DEF Requests
<1>3. f.s \in Nat /\ f.e \in Nat
  BY FrontFields
<1> QED
  BY <1>1, <1>2, <1>3, StreamPop

\* The next request is taken.
LEMMA DispatchNext ==
  ASSUME NEW f \in FrontSet, Requests(f), Numbering(f), Dispatch, UNCHANGED <<pending, update_id>>,
         sync_burst_id' = f.B[f.s + 1] % IdMod
  PROVE  /\ f.s < f.e /\ Head(input) = f.H[f.s] /\ sync_id = f.s % IdMod
         /\ vs_pc = "run" /\ vs_pc' \in {"run", "stop_single"}
         /\ \E h \in FrontSet :
              /\ h.H = f.H /\ h.B = f.B /\ h.S = f.S /\ h.b = f.b /\ h.e = f.e /\ h.s = f.s + 1
              /\ Requests(h)' /\ Numbering(h)
<1>1. /\ vs_pc = "run" /\ input # <<>> /\ input' = Tail(input) /\ sync_id' = (sync_id + 1) % IdMod
      /\ vs_pc' = IF Head(input).last THEN "stop_single" ELSE "run"
  BY DEF Dispatch, Succ
<1>2. /\ FirstId \in Nat /\ f.b \in Nat /\ f.s \in Nat /\ f.e \in Nat
      /\ FirstId <= f.b /\ f.b <= f.s /\ f.s <= f.e /\ FirstId <= f.s /\ f.e - f.b <= MaxInFlight
  BY FrontOrder
<1>3. Holds(input, f.H, f.s, f.e, 0, None) /\ Holds(pending, f.H, f.b, f.e, 0, None)
  BY DEF Requests
<1>4. f.s < f.e /\ Head(input) = f.H[f.s] /\ Holds(input', f.H, f.s + 1, f.e, 0, None)
  BY <1>1, Taken
<1>5. sync_id = f.s % IdMod /\ sync_id' = (f.s + 1) % IdMod
  <2>1. sync_id = f.s % IdMod
    BY DEF Requests
  <2>2. IdMod \in Nat /\ IdMod > 0
    BY Sizes
  <2> QED
    BY <1>1, <1>2, <2>1, <2>2, NextRemainder
<1>6. vs_pc' # "run" => f.s + 1 = f.e
  <2>1. f.s \in f.b .. f.e - 1
    BY <1>2, <1>4
  <2>2. f.H[f.s].last => f.s = f.e - 1
    BY <2>1 DEF Requests
  <2> QED
    BY <1>1, <1>2, <1>4, <2>2
<1>7. PICK h \in FrontSet : /\ h.H = f.H /\ h.B = f.B /\ h.S = f.S /\ h.b = f.b /\ h.e = f.e
                            /\ h.s = f.s + 1
  <2> DEFINE h == [f EXCEPT !.s = f.s + 1]
  <2>1. f.s + 1 \in Nat
    BY <1>2
  <2>2. /\ h \in FrontSet /\ h.H = f.H /\ h.B = f.B /\ h.S = f.S /\ h.b = f.b /\ h.e = f.e
        /\ h.s = f.s + 1
    BY <2>1 DEF FrontSet
  <2> QED
    BY <2>2
<1>8. Numbering(h)
  BY <1>7 DEF Numbering
<1>9. Requests(h)'
  <2>1. f.b <= f.s + 1 /\ f.s + 1 <= f.e
    BY <1>2, <1>4
  <2>2. update_id = f.b % IdMod /\ \A a \in f.b .. f.e - 1 : f.H[a].last => a = f.e - 1
    BY DEF Requests
  <2> QED
    BY <1>2, <1>3, <1>4, <1>5, <1>6, <1>7, <2>1, <2>2 DEF Requests
<1>10. vs_pc' \in {"run", "stop_single"}
  BY <1>1
<1> QED
  BY <1>1, <1>4, <1>5, <1>7, <1>8, <1>9, <1>10

\* The requests without a list, when one more has been scheduled.
LEMMA EmptiesStay ==
  ASSUME NEW f \in FrontSet, Requests(f), NEW w \in Seq(Nat), Empties(f, w), UNCHANGED update,
         NEW h, h.H = f.H, h.b = f.b, h.s = f.s + 1
  PROVE  Empties(h, w)'
<1>1. f.b \in Nat /\ f.s \in Nat
  BY FrontOrder
<1>2. \A r : r \in f.b .. f.s - 1 => r \in h.b .. h.s - 1
  BY <1>1
<1>3. /\ IsSeq(update') /\ Len(update') = Len(w)
      /\ \A n, m \in 1 .. Len(w) : n < m => w[n] < w[m]
  BY DEF Empties
<1>4. ASSUME NEW n \in 1 .. Len(w)
      PROVE  /\ w[n] \in h.b .. h.s - 1 /\ ~Sized(h.H[w[n]])
             /\ update'[n] = [to |-> Dead, id |-> w[n] % IdMod, last |-> h.H[w[n]].last]
  <2>1. /\ w[n] \in f.b .. f.s - 1 /\ ~Sized(f.H[w[n]])
        /\ update[n] = [to |-> Dead, id |-> w[n] % IdMod, last |-> f.H[w[n]].last]
    BY DEF Empties
  <2>2. h.H[w[n]] = f.H[w[n]] /\ update'[n] = update[n]
    OBVIOUS
  <2>3. w[n] \in h.b .. h.s - 1
    BY <1>2, <2>1
  <2> QED
    BY <2>1, <2>2, <2>3
<1> QED
  BY <1>3, <1>4 DEF Empties

\* vd_scheduler runs: nothing is stopped.
LEMMA NoStops ==
  ASSUME NEW u \in EngineSet, NEW v \in VdSet, NEW a \in EngineSet, NEW y \in LongSet,
         Stops(u, v, a, y), vs_pc \in {"run", "stop_single"}
  PROVE  /\ u.z = 0 /\ v.z = 0 /\ a.z = 0 /\ y.z = 0
         /\ running["single"] /\ running["one"] /\ running["long"]
<1>1. u.z \in {0, 1} /\ v.z \in {0, 1} /\ a.z \in {0, 1} /\ y.z \in {0, 1}
  BY VdFields, EngineFields, LongFields DEF Bit
<1>2. vs_pc # "done" /\ vs_pc \notin {"stop_dynamic", "done"}
  OBVIOUS
<1> QED
  BY <1>1, <1>2 DEF Stops

\* and nothing is stopped by it.
LEMMA StillNoStops ==
  ASSUME NEW u, NEW v, NEW a, NEW y, vs_pc' \in {"run", "stop_single"}, UNCHANGED running,
         u.z = 0, v.z = 0, a.z = 0, y.z = 0, running["single"], running["one"], running["long"]
  PROVE  Stops(u, v, a, y)'
BY DEF Stops

\* A vertex without neighbours.
LEMMA ScheduleEmptyStep ==
  ASSUME Rest, NEW f \in FrontSet, NEW w \in Seq(Nat), NEW u \in EngineSet, NEW v \in VdSet,
         NEW a \in EngineSet, NEW y \in LongSet, NEW c \in NumberSet, NEW g \in MergedSet,
         NEW o \in OutSet, Parts(f, w, u, v, a, y, c, g, o), ScheduleEmpty
  PROVE  BurstInv'
<1>1. /\ Dispatch /\ Head(input).vertex.size = 0
      /\ update' = Append(update, [to |-> Dead, id |-> sync_id, last |-> Head(input).last])
      /\ UNCHANGED <<asked, sync_burst_id, burst_vd, curr, dynamic_burst_id, cmd, running, j,
                     sync, intra_id, inter_id, inter_out, selected, next_vertex, update_id,
                     pending, shown>>
  BY DEF ScheduleEmpty, cgVars, engineVars, mergeVars, outVars, history
<1>2. Requests(f) /\ Numbering(f) /\ Empties(f, w)
  BY DEF Parts
<1>3. /\ FirstId \in Nat /\ f.b \in Nat /\ f.s \in Nat /\ f.e \in Nat /\ FirstId <= f.s
      /\ f.b <= f.s
  BY <1>2, FrontOrder
<1>4. f.s < f.e /\ Head(input) = f.H[f.s]
  BY <1>1, <1>2, Taken
<1>5. ~Sized(f.H[f.s])
  BY <1>1, <1>4 DEF Sized
<1>6. f.B[f.s + 1] = f.B[f.s]
  BY <1>2, <1>3, <1>4, <1>5, HistoryStep
<1>7. sync_burst_id' = f.B[f.s + 1] % IdMod
  <2>1. sync_burst_id = f.B[f.s] % IdMod
    BY <1>2 DEF Requests
  <2> QED
    BY <1>1, <1>6, <2>1
<1>8. /\ sync_id = f.s % IdMod /\ vs_pc = "run" /\ vs_pc' \in {"run", "stop_single"}
      /\ \E h \in FrontSet :
           /\ h.H = f.H /\ h.B = f.B /\ h.S = f.S /\ h.b = f.b /\ h.e = f.e /\ h.s = f.s + 1
           /\ Requests(h)' /\ Numbering(h)
  BY <1>1, <1>2, <1>7, DispatchNext
<1>9. PICK h \in FrontSet :
        /\ h.H = f.H /\ h.B = f.B /\ h.S = f.S /\ h.b = f.b /\ h.e = f.e /\ h.s = f.s + 1
        /\ Requests(h)' /\ Numbering(h)
  BY <1>8
<1>10. PICK p, x : /\ p = [to |-> Dead, id |-> f.s % IdMod, last |-> f.H[f.s].last]
                   /\ x = Append(w, f.s)
  OBVIOUS
<1>11. update' = Append(update, p)
  BY <1>1, <1>4, <1>8, <1>10
<1>12. /\ x \in Seq(Nat) /\ Len(w) \in Nat /\ Len(x) = Len(w) + 1 /\ x[Len(w) + 1] = f.s
       /\ \A m \in 1 .. Len(w) : x[m] = w[m]
  BY <1>3, <1>10
<1>13. Empties(h, x)'
  <2>1. IsSeq(update) /\ Len(update) = Len(w)
    BY <1>2 DEF Empties
  <2>2. /\ IsSeq(update') /\ Len(update') = Len(w) + 1 /\ update'[Len(w) + 1] = p
        /\ \A m \in 1 .. Len(w) : update'[m] = update[m]
    BY <1>11, <2>1, PushIsSeq
  <2>3. ASSUME NEW m \in 1 .. Len(w)
        PROVE  /\ w[m] \in Nat /\ w[m] \in f.b .. f.s - 1 /\ ~Sized(f.H[w[m]])
               /\ update[m] = [to |-> Dead, id |-> w[m] % IdMod, last |-> f.H[w[m]].last]
    BY <1>2 DEF Empties
  <2>4. ASSUME NEW m \in 1 .. Len(w) + 1
        PROVE  /\ x[m] \in f.b .. f.s + 1 - 1 /\ ~Sized(f.H[x[m]])
               /\ update'[m] = [to |-> Dead, id |-> x[m] % IdMod, last |-> f.H[x[m]].last]
    <3>1. CASE m = Len(w) + 1
      <4>1. x[m] = f.s /\ update'[m] = p
        BY <1>12, <2>2, <3>1
      <4>2. f.s \in f.b .. f.s + 1 - 1
        BY <1>3
      <4> QED
        BY <1>5, <1>10, <4>1, <4>2
    <3>2. CASE m # Len(w) + 1
      <4>1. m \in 1 .. Len(w)
        BY <1>12, <3>2
      <4>2. x[m] = w[m] /\ update'[m] = update[m]
        BY <1>12, <2>2, <4>1
      <4>3. \A r : r \in f.b .. f.s - 1 => r \in f.b .. f.s + 1 - 1
        BY <1>3
      <4> QED
        BY <2>3, <4>1, <4>2, <4>3
    <3> QED
      BY <3>1, <3>2
  <2>5. ASSUME NEW m \in 1 .. Len(w) + 1, NEW k \in 1 .. Len(w) + 1, m < k PROVE x[m] < x[k]
    <3>4. m \in 1 .. Len(w)
      <4>1. Len(w) \in Nat
        BY <1>12
      <4> QED
        BY <2>5, <4>1
    <3>1. m \in 1 .. Len(w) /\ x[m] = w[m] /\ w[m] \in f.b .. f.s - 1
      BY <1>12, <2>3, <3>4
    <3>2. CASE k = Len(w) + 1
      <4>1. x[k] = f.s
        BY <1>12, <3>2
      <4> QED
        BY <1>3, <3>1, <4>1
    <3>3. CASE k # Len(w) + 1
      <4>1. k \in 1 .. Len(w)
        BY <1>12, <3>3
      <4>2. x[k] = w[k] /\ w[m] < w[k]
        BY <1>2, <1>12, <2>5, <3>1, <4>1 DEF Empties
      <4> QED
        BY <3>1, <4>2
    <3> QED
      BY <3>2, <3>3
  <2> QED
    BY <1>9, <1>12, <2>2, <2>4, <2>5, SMTT(30) DEF Empties
<1>14. Stops(u, v, a, y)'
  <2>1. /\ u.z = 0 /\ v.z = 0 /\ a.z = 0 /\ y.z = 0
        /\ running["single"] /\ running["one"] /\ running["long"]
    BY <1>8, NoStops DEF Parts
  <2> QED
    BY <1>1, <1>8, <2>1, StillNoStops
<1>15. Rest'
  BY <1>1, <1>8 DEF Rest
<1>16. Parts(h, x, u, v, a, y, c, g, o)'
  <2>1. h.B[h.s] = f.B[f.s] /\ h.B[h.b] = f.B[f.b]
    BY <1>6, <1>9
  <2>2. UNCHANGED <<cmd["single"], cmd["one"], cmd["long"], sync["single"], sync["one"],
                    sync["long"], sync["dynamic"]>>
    BY <1>1
  <2>3. Numbering(h)' /\ Requests(h)'
    BY <1>9, KeepFront
  <2> QED
    BY <1>1, <1>9, <1>13, <1>14, <2>1, <2>2, <2>3, KeepFront, KeepBack DEF Parts
<1> QED
  BY <1>9, <1>12, <1>15, <1>16 DEF BurstInv

\* List n of the history is packet p, under the numbers vd_scheduler gives it.
Given(f, n, p) ==
    /\ sync_id = f.S[n].a % IdMod /\ sync_burst_id = n % IdMod /\ f.S[n].p = p

\* A tag is a list of the history.
LEMMA TagPlace ==
  ASSUME NEW S, NEW i, NEW n, NEW T, VdTagged(S, i, n, T) \/ SingleTag(S, i, n, T)
  PROVE  T.l \in i .. n - 1
<1>1. Listed(S, i, n, T.l, T.p)
  BY Zenon DEF VdTagged, SingleTag
<1> QED
  BY <1>1, Zenon DEF Listed

\* Packet p is a vertex with neighbours, and list n is made of it.
NewListOf(f, g, o, n, p) ==
    /\ n = f.B[f.s] /\ p = Head(input)
    /\ n \in Nat /\ n + 1 \in Nat /\ o.i <= n /\ o.i \in Nat
    /\ p.vertex \in Descs /\ p.vertex.start \in Nat /\ p.vertex.size \in Nat
    /\ p.last \in BOOLEAN
    /\ Given(f, n, p)
    /\ sync_id \in Nat /\ sync_burst_id \in Nat
    /\ vs_pc = "run" /\ vs_pc' \in {"run", "stop_single"}
    /\ Regrown(f.S, f.S, o.i, n, n + 1) /\ Joined(f.S, n + 1, g, o)
    /\ Out(f.S, n + 1, o) /\ Sampled(f.S, f.B[f.b], n + 1, o)
    /\ \E h \in FrontSet :
         /\ h.H = f.H /\ h.B = f.B /\ h.S = f.S /\ h.b = f.b /\ h.e = f.e /\ h.s = f.s + 1
         /\ h.B[h.s] = n + 1 /\ h.B[h.b] = f.B[f.b]
         /\ Requests(h)' /\ Numbering(h)

\* There is such a list when vd_scheduler takes a vertex with neighbours.
LEMMA NewList ==
  ASSUME Rest, NEW f \in FrontSet, NEW w \in Seq(Nat), NEW u \in EngineSet, NEW v \in VdSet,
         NEW a \in EngineSet, NEW y \in LongSet, NEW c \in NumberSet, NEW g \in MergedSet,
         NEW o \in OutSet, Parts(f, w, u, v, a, y, c, g, o), Dispatch, Head(input).vertex.size # 0,
         UNCHANGED <<pending, update_id>>, sync_burst_id' = Succ(sync_burst_id)
  PROVE  \E n, p : NewListOf(f, g, o, n, p)
<1>1. PICK n, p : n = f.B[f.s] /\ p = Head(input)
  OBVIOUS
<1>2. Requests(f) /\ Numbering(f)
  BY DEF Parts
<1>3. /\ FirstId \in Nat /\ f.b \in Nat /\ f.s \in Nat /\ f.e \in Nat /\ FirstId <= f.s
      /\ f.b <= f.s
  BY <1>2, FrontOrder
<1>4. f.s < f.e /\ Head(input) = f.H[f.s]
  BY <1>2, Taken
<1>5. Sized(f.H[f.s])
  BY <1>4 DEF Sized
<1>6. /\ f.B[f.s + 1] = n + 1 /\ f.S[n].a = f.s /\ f.S[n].p = p /\ p.vertex \in Descs
      /\ p \in Pkg
  <2>1. /\ f.B[f.s + 1] = f.B[f.s] + 1 /\ f.S[f.B[f.s]].a = f.s /\ f.S[f.B[f.s]].p = f.H[f.s]
        /\ f.H[f.s].vertex \in Descs /\ f.H[f.s] \in Pkg
    BY <1>2, <1>3, <1>4, <1>5, HistoryStep
  <2> QED
    BY <1>1, <1>4, <2>1
<1>7. n \in Nat /\ n + 1 \in Nat /\ n <= n + 1
  <2>1. n \in Nat
    BY <1>1, <1>3, FrontFields
  <2> QED
    BY <2>1
<1>8. sync_burst_id = n % IdMod /\ sync_burst_id' = f.B[f.s + 1] % IdMod /\ sync_burst_id \in Nat
  <2>1. sync_burst_id = n % IdMod
    BY <1>1, <1>2 DEF Requests
  <2>2. IdMod \in Nat /\ IdMod > 0
    BY Sizes
  <2>3. n % IdMod \in 0 .. IdMod - 1 /\ ((n % IdMod) + 1) % IdMod = (n + 1) % IdMod
    BY <1>7, <2>2, NextRemainder
  <2> QED
    BY <1>6, <2>1, <2>3 DEF Succ
<1>9. /\ sync_id = f.s % IdMod /\ vs_pc = "run" /\ vs_pc' \in {"run", "stop_single"}
      /\ \E h \in FrontSet :
           /\ h.H = f.H /\ h.B = f.B /\ h.S = f.S /\ h.b = f.b /\ h.e = f.e /\ h.s = f.s + 1
           /\ Requests(h)' /\ Numbering(h)
  BY <1>2, <1>8, DispatchNext
<1>10. PICK h \in FrontSet :
         /\ h.H = f.H /\ h.B = f.B /\ h.S = f.S /\ h.b = f.b /\ h.e = f.e /\ h.s = f.s + 1
         /\ Requests(h)' /\ Numbering(h)
  BY <1>9
<1>11. h.B[h.s] = n + 1 /\ h.B[h.b] = f.B[f.b]
  BY <1>6, <1>10
<1>12. sync_id \in Nat
  <2>1. IdMod \in Nat /\ IdMod > 0
    BY Sizes
  <2>2. f.s % IdMod \in 0 .. IdMod - 1
    BY <1>3, <2>1, NextRemainder
  <2> QED
    BY <1>9, <2>2
<1>13. p.vertex.start \in Nat /\ p.vertex.size \in Nat /\ p.last \in BOOLEAN
  BY <1>6 DEF Pkg
<1>14. o.i \in Nat /\ o.i <= n /\ FirstId <= o.i
  <2>1. o.t <= o.i /\ o.i <= n /\ f.B[f.b] <= o.t
    BY <1>1 DEF Parts, Out, Sampled
  <2>2. o.i \in Nat /\ o.t \in Nat
    BY PlaceFields
  <2>3. f.B[f.b] \in Nat /\ FirstId <= f.B[f.b]
    BY <1>2, ListWindow
  <2> QED
    BY <1>3, <2>1, <2>2, <2>3
<1>15. SameLists(f.S, f.S, n)
  BY DEF SameLists
<1>16. Regrown(f.S, f.S, o.i, n, n + 1)
  BY <1>7, <1>14, <1>15, ListsGrow
<1>17. Joined(f.S, n + 1, g, o) /\ Out(f.S, n + 1, o) /\ Sampled(f.S, f.B[f.b], n + 1, o)
  <2>1. Joined(f.S, n, g, o) /\ Out(f.S, n, o) /\ Sampled(f.S, f.B[f.b], n, o)
    BY <1>1 DEF Parts
  <2>2. f.B[f.b] \in Nat
    BY <1>3, FrontFields
  <2> QED
    BY <1>7, <1>14, <1>15, <2>1, <2>2, OutGrows
<1> QED
  <2>1. p.vertex \in Descs /\ Given(f, n, p)
    <3>1. f.S[n].a = f.s /\ f.S[n].p = p /\ sync_id = f.s % IdMod
      BY <1>6, <1>9
    <3> QED
      BY <1>6, <1>8, <3>1 DEF Given
  <2>2. NewListOf(f, g, o, n, p)
    BY <1>1, <1>7, <1>8, <1>9, <1>10, <1>11, <1>12, <1>13, <1>14, <1>16, <1>17, <2>1 DEF NewListOf
  <2> QED
    BY <2>2

\* The command for a line.
SingleCmd(d, id, bid, last) ==
    [addr |-> LineOf(d.start), start |-> d.start, end |-> d.start + d.size, id |-> id,
     burst_id |-> bid, end_of_burst |-> FALSE, dynamic_id |-> 0, last |-> last]

\* The command vd_scheduler makes of list n, whose neighbours are in one line.
LEMMA SingleMade ==
  ASSUME NEW f, NEW g, NEW o, NEW n, NEW p, NewListOf(f, g, o, n, p), p.vertex.size # 0,
         LineOf(p.vertex.start) = LineOf(p.vertex.start + p.vertex.size - 1)
  PROVE  \E T \in CmdTag :
           /\ T.l = n /\ SingleTag(f.S, o.i, n + 1, T)
           /\ T.p = SingleCmd(p.vertex, sync_id, sync_burst_id, p.last)
<1>20. PICK d, last, id, bid, S, i :
         /\ d = p.vertex /\ last = p.last /\ id = sync_id /\ bid = sync_burst_id
         /\ S = f.S /\ i = o.i
  OBVIOUS
<1>21. /\ d = S[n].p.vertex /\ d.start \in Nat /\ d.size \in Nat /\ d.size # 0
       /\ LineOf(d.start) = LineOf(d.start + d.size - 1)
  BY <1>20 DEF NewListOf, Given
<1>22. /\ last \in BOOLEAN /\ S[n].p.last = last /\ id \in Nat /\ id = S[n].a % IdMod
       /\ bid \in Nat /\ bid = n % IdMod /\ n \in Nat /\ i \in Nat /\ i <= n
  BY <1>20 DEF NewListOf, Given
<1>1. Lines(d) = 1
  BY <1>21, OneLineList
<1>2. PICK r \in Nat :
        /\ LineOf(d.start) = LineWords * r
        /\ LineWords * r <= d.start /\ d.start < LineWords * r + LineWords
        /\ EndAddr(d) = LineWords * (r + Lines(d))
        /\ d.start + d.size <= EndAddr(d)
  BY <1>21, ListLines
<1>3. LineWords \in Nat /\ LineWords > 0
  BY Sizes
<1>4. PICK ad \in Nat : /\ ad = LineOf(d.start) /\ ad <= d.start
                        /\ d.start + d.size <= ad + 1 * LineWords
                        /\ ad = LineOf(d.start) + 0 * LineWords
  <2>1. LineWords * r \in Nat /\ LineWords * (r + 1) = LineWords * r + LineWords
    <3>1. LineWords * r \in Nat /\ LineWords * (r + 1) = LineWords * r + LineWords * 1
      BY <1>3, Products
    <3> QED
      BY <1>3, <3>1
  <2> QED
    BY <1>1, <1>2, <1>3, <1>21, <2>1
<1>5. PICK q : q = [addr |-> ad, start |-> d.start, end |-> d.start + d.size,
                    id |-> id, burst_id |-> bid, end_of_burst |-> FALSE, dynamic_id |-> 0,
                    last |-> last]
  OBVIOUS
<1>6. q \in CmdPkg
  <2>1. d.start + d.size \in Nat /\ FALSE \in BOOLEAN /\ 0 \in Nat
    BY <1>21
  <2> QED
    BY <1>4, <1>5, <1>21, <1>22, <2>1 DEF CmdPkg
<1>7. /\ q.addr = ad /\ q.start = d.start /\ q.end = d.start + d.size /\ q.id = id
      /\ q.burst_id = bid /\ q.dynamic_id = 0 /\ q.last = last
  BY <1>5
<1>8. Shows(d, 0, Unmasked(q, 0))
  <2>1. q.start = IF q.addr < d.start THEN d.start ELSE q.addr
    BY <1>4, <1>7, <1>21
  <2>2. q.end = IF q.addr + 1 * LineWords > d.start + d.size THEN d.start + d.size
                ELSE q.addr + 1 * LineWords
    <3>1. CASE ad + 1 * LineWords > d.start + d.size
      BY <1>7, <3>1
    <3>2. CASE ~(ad + 1 * LineWords > d.start + d.size)
      <4>1. ad + 1 * LineWords = d.start + d.size
        BY <1>3, <1>4, <1>21, <3>2
      <4> QED
        BY <1>7, <3>2, <4>1
    <3> QED
      BY <3>1, <3>2
  <2>3. 0 + 1 <= Lines(d) /\ q.addr = LineOf(d.start) + 0 * LineWords
    BY <1>1, <1>4, <1>7
  <2> QED
    BY <1>21, <2>1, <2>2, <2>3, LineShows
<1>9. PICK T \in CmdTag : T = [l |-> n, m |-> 0, x |-> 0, p |-> q]
  BY <1>6, <1>22 DEF CmdTag
<1>10. T.l = n /\ T.p = q
  BY <1>9
<1>11. Listed(S, i, n + 1, T.l, T.p)
  BY <1>7, <1>10, <1>22 DEF Listed
<1>12. 0 \in Ids
  BY Sizes DEF Ids
<1>13. SingleTag(S, i, n + 1, T)
  BY <1>1, <1>7, <1>8, <1>10, <1>11, <1>12, <1>21, <1>22 DEF SingleTag, InOneLine
<1> QED
  BY <1>4, <1>5, <1>10, <1>13, <1>20 DEF SingleCmd

\* A list in one line.
LEMMA ScheduleSingleStep ==
  ASSUME Rest, NEW f \in FrontSet, NEW w \in Seq(Nat), NEW u \in EngineSet, NEW v \in VdSet,
         NEW a \in EngineSet, NEW y \in LongSet, NEW c \in NumberSet, NEW g \in MergedSet,
         NEW o \in OutSet, Parts(f, w, u, v, a, y, c, g, o), ScheduleSingle
  PROVE  BurstInv'
<1>1. PICK p, q :
        /\ Dispatch /\ p = Head(input) /\ p.vertex.size # 0
        /\ LineOf(p.vertex.start) = LineOf(p.vertex.start + p.vertex.size - 1)
        /\ q = SingleCmd(p.vertex, sync_id, sync_burst_id, p.last)
        /\ cmd' = [cmd EXCEPT !["single"] = Append(cmd["single"], q)]
        /\ sync_burst_id' = Succ(sync_burst_id)
        /\ UNCHANGED <<asked, update, burst_vd, curr, dynamic_burst_id, running, j,
                       sync, intra_id, inter_id, inter_out, selected, next_vertex, update_id,
                       pending, shown>>
  BY DEF ScheduleSingle, SingleCmd, cgVars, engineVars, mergeVars, outVars, history
<1>2. PICK n : NewListOf(f, g, o, n, p)
  <2>1. /\ Head(input).vertex.size # 0 /\ UNCHANGED <<pending, update_id>>
        /\ Dispatch /\ sync_burst_id' = Succ(sync_burst_id) /\ p = Head(input)
    BY <1>1
  <2>2. PICK n, q2 : NewListOf(f, g, o, n, q2)
    BY <2>1, NewList
  <2>3. q2 = p
    BY <2>1, <2>2 DEF NewListOf
  <2> QED
    BY <2>2, <2>3
<1>3. /\ n = f.B[f.s]
      /\ n \in Nat /\ n + 1 \in Nat /\ o.i <= n /\ o.i \in Nat
      /\ p.vertex \in Descs /\ p.vertex.start \in Nat /\ p.vertex.size \in Nat
      /\ p.last \in BOOLEAN
      /\ Given(f, n, p)
      /\ sync_id \in Nat /\ sync_burst_id \in Nat
      /\ vs_pc = "run" /\ vs_pc' \in {"run", "stop_single"}
      /\ Regrown(f.S, f.S, o.i, n, n + 1) /\ Joined(f.S, n + 1, g, o)
      /\ Out(f.S, n + 1, o) /\ Sampled(f.S, f.B[f.b], n + 1, o)
      /\ \E h \in FrontSet :
           /\ h.H = f.H /\ h.B = f.B /\ h.S = f.S /\ h.b = f.b /\ h.e = f.e /\ h.s = f.s + 1
           /\ h.B[h.s] = n + 1 /\ h.B[h.b] = f.B[f.b]
           /\ Requests(h)' /\ Numbering(h)
  BY <1>2 DEF NewListOf
<1>4. PICK h \in FrontSet :
        /\ h.H = f.H /\ h.B = f.B /\ h.S = f.S /\ h.b = f.b /\ h.e = f.e /\ h.s = f.s + 1
        /\ h.B[h.s] = n + 1 /\ h.B[h.b] = f.B[f.b]
        /\ Requests(h)' /\ Numbering(h)
  BY <1>3
<1>5. PICK T \in CmdTag : T.l = n /\ SingleTag(f.S, o.i, n + 1, T) /\ T.p = q
  <2>1. \E T \in CmdTag :
          /\ T.l = n /\ SingleTag(f.S, o.i, n + 1, T)
          /\ T.p = SingleCmd(p.vertex, sync_id, sync_burst_id, p.last)
    BY <1>1, <1>2, SingleMade
  <2> QED
    BY <1>1, <2>1
<1>6. PICK d \in EngineSet : MoreCommands(u, d, T)
  BY <1>5, CommandsGrow
<1>7. /\ d.T[u.k3] = T /\ SameLists(u.T, d.T, u.k3)
      /\ d.k1 = u.k1 /\ d.k2 = u.k2 /\ d.k3 = u.k3 + 1 /\ d.z = u.z
  BY <1>6 DEF MoreCommands
<1>8. /\ DOMAIN cmd' = Engines /\ cmd'["single"] = Append(cmd["single"], q)
      /\ cmd'["one"] = cmd["one"] /\ cmd'["long"] = cmd["long"]
  BY <1>1, StreamPut
<1>9. /\ u.z = 0 /\ v.z = 0 /\ a.z = 0 /\ y.z = 0
      /\ running["single"] /\ running["one"] /\ running["long"]
  BY <1>3, NoStops DEF Parts
<1>10. u.k1 \in Nat /\ u.k2 \in Nat /\ u.k3 \in Nat
  BY EngineFields
<1>11. /\ Holds(sync["single"], SingleOf(u.T), u.k1, u.k2, 0, None)
       /\ Holds(cmd["single"], PkgOf(u.T), u.k2, u.k3, 0, StopCmd)
       /\ \A k, m \in u.k1 .. u.k3 - 1 : k < m => u.T[k].l < u.T[m].l
       /\ \A k \in u.k1 .. u.k3 - 1 : SingleTag(f.S, o.i, n, u.T[k])
  BY <1>3, <1>9 DEF Parts, Singles
<1>12. u.k1 <= u.k2 /\ u.k2 <= u.k3
  BY <1>11 DEF Holds
<1>13. Singles(f.S, o.i, n + 1, u)
  BY <1>3 DEF Parts, Regrown
<1>14. Singles(f.S, o.i, n + 1, d)'
  <2>1. SameLists(PkgOf(u.T), PkgOf(d.T), u.k3) /\ SameLists(SingleOf(u.T), SingleOf(d.T), u.k3)
    BY <1>7, SameTags
  <2>2. Holds(sync["single"], SingleOf(d.T), u.k1, u.k2, 0, None)
    <3>1. 0 \in Bit
      BY DEF Bit
    <3> QED
      BY <1>10, <1>11, <1>12, <2>1, <3>1, HoldsOld
  <2>3. Holds(Append(cmd["single"], q), PkgOf(d.T), u.k2, u.k3 + 1, 0, StopCmd)
    <3>1. PkgOf(d.T)[u.k3] = q
      BY <1>5, <1>7, <1>10 DEF PkgOf
    <3> QED
      BY <1>10, <1>11, <2>1, <3>1, HoldsBehind
  <2>4. ASSUME NEW k \in u.k1 .. u.k3
        PROVE  /\ SingleTag(f.S, o.i, n + 1, d.T[k])
               /\ k < u.k3 => k \in u.k1 .. u.k3 - 1 /\ d.T[k] = u.T[k] /\ d.T[k].l < n
               /\ k >= u.k3 => d.T[k].l = n
    <3>1. CASE k < u.k3
      <4>1. k \in u.k1 .. u.k3 - 1 /\ k \in Nat
        BY <1>10, <3>1
      <4>2. d.T[k] = u.T[k]
        BY <1>7, <3>1, <4>1 DEF SameLists
      <4>3. SingleTag(f.S, o.i, n + 1, u.T[k])
        BY <1>13, <4>1 DEF Singles
      <4>4. u.T[k].l \in o.i .. n - 1
        BY <1>11, <4>1, TagPlace
      <4>5. u.T[k].l < n
        BY <1>3, <4>4
      <4>6. ~(k >= u.k3)
        BY <1>10, <3>1
      <4> QED
        BY <4>1, <4>2, <4>3, <4>5, <4>6
    <3>2. CASE ~(k < u.k3)
      <4>1. k = u.k3
        BY <1>10, <3>2
      <4> QED
        BY <1>5, <1>7, <3>2, <4>1
    <3> QED
      BY <3>1, <3>2
  <2>5. ASSUME NEW k \in u.k1 .. u.k3, NEW m \in u.k1 .. u.k3, k < m
        PROVE  d.T[k].l < d.T[m].l
    <3>1. k < u.k3
      BY <1>10, <2>5
    <3>2. k \in u.k1 .. u.k3 - 1 /\ d.T[k] = u.T[k] /\ d.T[k].l < n
      BY <2>4, <3>1
    <3>3. CASE m < u.k3
      BY <1>11, <2>4, <2>5, <3>2, <3>3
    <3>4. CASE ~(m < u.k3)
      <4>1. m >= u.k3
        BY <1>10, <3>4
      <4> QED
        BY <2>4, <3>2, <4>1
    <3> QED
      BY <3>3, <3>4
  <2>6. d.k1 = u.k1 /\ d.k2 = u.k2 /\ d.k3 - 1 = u.k3 /\ d.k3 = u.k3 + 1 /\ d.z = 0
    BY <1>7, <1>9, <1>10
  <2>7. sync'["single"] = sync["single"]
    BY <1>1
  <2> QED
    BY <1>8, <2>2, <2>3, <2>4, <2>5, <2>6, <2>7 DEF Singles
<1>15. Stops(d, v, a, y)'
  <2>1. vs_pc' \in {"run", "stop_single"}
    BY <1>3, Zenon
  <2>2. UNCHANGED running
    BY <1>1, Zenon
  <2>3. d.z = 0
    BY <1>7, <1>9, Zenon
  <2> QED
    BY <1>9, <2>1, <2>2, <2>3, StillNoStops
<1>16. Rest'
  BY <1>1, <1>3, <1>8 DEF Rest
<1>17. Empties(h, w)'
  BY <1>1, <1>4, EmptiesStay DEF Parts
<1>18. Ordered(n + 1, v, c)'
  <2>1. Ordered(n, v, c)
    BY <1>3 DEF Parts
  <2>2. c.P[c.hi].l <= n + 1
    <3>1. c.P[c.hi].l \in Nat
      BY PlaceFields
    <3>2. c.P[c.hi].l <= n
      BY <2>1 DEF Ordered
    <3> QED
      BY <1>3, <3>1, <3>2
  <2> QED
    BY <1>1, <2>1, <2>2 DEF Ordered
<1>19. Parts(h, w, d, v, a, y, c, g, o)'
  <2>1. UNCHANGED <<cmd["one"], cmd["long"], sync["one"], sync["long"], sync["dynamic"]>>
    BY <1>1, <1>8
  <2>2. Numbering(h)'
    BY <1>4, KeepFront
  <2>3. Vds(f.S, o.i, n + 1, v)' /\ Generated(v)'
    <3>1. Vds(f.S, o.i, n + 1, v) /\ Generated(v)
      BY <1>3 DEF Parts, Regrown
    <3> QED
      BY <1>1, <3>1, KeepFront
  <2>4. OneStreams(a)' /\ LongStreams(y)' /\ LongLines(y)' /\ Counted(a, y, c)' /\ Linked(y, c, g)'
    BY <1>1, <2>1, KeepBack DEF Parts
  <2>5. /\ Commands(f.S, o.i, n + 1, c, a, 1)' /\ Commands(f.S, o.i, n + 1, c, y, MaxBurst)'
        /\ Merged(f.S, o.i, n + 1, g)'
    <3>1. /\ Commands(f.S, o.i, n + 1, c, a, 1) /\ Commands(f.S, o.i, n + 1, c, y, MaxBurst)
          /\ Merged(f.S, o.i, n + 1, g)
      BY <1>3 DEF Parts, Regrown
    <3> QED
      BY <2>1, <3>1, KeepBack
  <2>6. Joined(f.S, n + 1, g, o)' /\ Out(f.S, n + 1, o)' /\ Sampled(f.S, f.B[f.b], n + 1, o)'
    BY <1>1, <1>3, KeepBack
  <2>7. Singles(f.S, o.i, n + 1, d)' /\ Stops(d, v, a, y)' /\ Empties(h, w)' /\ Ordered(n + 1, v, c)'
    BY <1>14, <1>15, <1>17, <1>18
  <2> QED
    BY <1>4, <2>2, <2>3, <2>4, <2>5, <2>6, <2>7 DEF Parts
<1> QED
  BY <1>4, <1>16, <1>19 DEF BurstInv

\* Record d is record v with the descriptor T behind it.
MoreVds(v, d, T) ==
    /\ d.T[v.q] = T /\ SameLists(v.T, d.T, v.q)
    /\ d.p = v.p /\ d.q = v.q + 1 /\ d.z = v.z

\* There is such a record.
LEMMA VdsGrow ==
  ASSUME NEW T \in VdTag, NEW v \in VdSet
  PROVE  \E d \in VdSet : MoreVds(v, d, T)
<1>1. v.T \in [Nat -> VdTag] /\ v.q \in Nat /\ v.q + 1 \in Nat
  BY VdFields
<1>2. PICK X, e : X = [v.T EXCEPT ![e] = T] /\ e = v.q /\ e \in Nat
  BY <1>1
<1>3. X \in [Nat -> VdTag] /\ X[e] = T /\ \A r \in Nat : r # e => X[r] = v.T[r]
  BY <1>1, <1>2, Entered
<1>4. \A r \in Nat : r < e => r # e
  BY <1>2
<1>5. SameLists(v.T, X, v.q)
  BY <1>2, <1>3, <1>4 DEF SameLists
<1> DEFINE d == [v EXCEPT !.T = X, !.q = v.q + 1]
<1>6. d \in VdSet /\ d.T = X /\ d.p = v.p /\ d.q = v.q + 1 /\ d.z = v.z
  BY <1>1, <1>3 DEF VdSet
<1> HIDE DEF d
<1> QED
  BY <1>2, <1>3, <1>5, <1>6 DEF MoreVds

\* The descriptor vd_scheduler sends for list n, whose neighbours are in several lines.
LEMMA VdMade ==
  ASSUME NEW f, NEW i \in Nat, NEW n \in Nat, NEW p, NEW q, NEW T, Given(f, n, p), i <= n,
         ~InOneLine(f.S, n), T.l = n, T.p = q, q.id = sync_id, q.burst_id = sync_burst_id,
         q.last = p.last, q.start = p.vertex.start, q.size = p.vertex.size
  PROVE  VdTagged(f.S, i, n + 1, T)
<1>1. PICK S : S = f.S
  OBVIOUS
<1>2. S[n].p = p /\ q.id = S[n].a % IdMod /\ q.burst_id = n % IdMod
  BY <1>1 DEF Given
<1>3. n \in i .. (n + 1) - 1
  OBVIOUS
<1>4. Listed(S, i, n + 1, T.l, T.p)
  BY <1>2, <1>3, Zenon DEF Listed
<1>5. ~InOneLine(S, T.l) /\ S[T.l].p = p
  BY <1>1, <1>2, Zenon
<1>6. T.p.last = S[T.l].p.last
  BY <1>5, Zenon
<1>7. T.p.start = S[T.l].p.vertex.start /\ T.p.size = S[T.l].p.vertex.size
  BY <1>5, Zenon
<1>8. VdTagged(S, i, n + 1, T)
  BY <1>4, <1>5, <1>6, <1>7, Zenon DEF VdTagged
<1> QED
  BY <1>1, <1>8, Zenon

\* A list of several lines.
LEMMA ScheduleDynamicStep ==
  ASSUME Rest, NEW f \in FrontSet, NEW w \in Seq(Nat), NEW u \in EngineSet, NEW v \in VdSet,
         NEW a \in EngineSet, NEW y \in LongSet, NEW c \in NumberSet, NEW g \in MergedSet,
         NEW o \in OutSet, Parts(f, w, u, v, a, y, c, g, o), ScheduleDynamic
  PROVE  BurstInv'
<1>1. PICK p, q :
        /\ Dispatch /\ p = Head(input) /\ p.vertex.size # 0
        /\ LineOf(p.vertex.start) # LineOf(p.vertex.start + p.vertex.size - 1)
        /\ q = [start |-> p.vertex.start, size |-> p.vertex.size, id |-> sync_id,
                burst_id |-> sync_burst_id, last |-> p.last]
        /\ burst_vd' = Append(burst_vd, q)
        /\ sync_burst_id' = Succ(sync_burst_id)
        /\ UNCHANGED <<asked, update, cmd, curr, dynamic_burst_id, running, j,
                       sync, intra_id, inter_id, inter_out, selected, next_vertex, update_id,
                       pending, shown>>
  BY DEF ScheduleDynamic, engineVars, mergeVars, outVars, history
<1>2. PICK n : NewListOf(f, g, o, n, p)
  <2>1. /\ Head(input).vertex.size # 0 /\ UNCHANGED <<pending, update_id>>
        /\ Dispatch /\ sync_burst_id' = Succ(sync_burst_id) /\ p = Head(input)
    BY <1>1
  <2>2. PICK n, q2 : NewListOf(f, g, o, n, q2)
    BY <2>1, NewList
  <2>3. q2 = p
    BY <2>1, <2>2 DEF NewListOf
  <2> QED
    BY <2>2, <2>3
<1>3. /\ n = f.B[f.s]
      /\ n \in Nat /\ n + 1 \in Nat /\ o.i <= n /\ o.i \in Nat
      /\ p.vertex.start \in Nat /\ p.vertex.size \in Nat
      /\ p.last \in BOOLEAN
      /\ Given(f, n, p)
      /\ sync_id \in Nat /\ sync_burst_id \in Nat
      /\ vs_pc = "run" /\ vs_pc' \in {"run", "stop_single"}
      /\ Regrown(f.S, f.S, o.i, n, n + 1) /\ Joined(f.S, n + 1, g, o)
      /\ Out(f.S, n + 1, o) /\ Sampled(f.S, f.B[f.b], n + 1, o)
  BY <1>2 DEF NewListOf
<1>4. PICK h \in FrontSet :
        /\ h.H = f.H /\ h.B = f.B /\ h.S = f.S /\ h.b = f.b /\ h.e = f.e /\ h.s = f.s + 1
        /\ h.B[h.s] = n + 1 /\ h.B[h.b] = f.B[f.b]
        /\ Requests(h)' /\ Numbering(h)
  BY <1>2 DEF NewListOf
<1>20. PICK d : d = p.vertex /\ d.start \in Nat /\ d.size \in Nat /\ d.size # 0
  BY <1>1, <1>3
<1>21. Lines(d) \in Nat /\ Lines(d) > 1 /\ ~InOneLine(f.S, n)
  <2>1. LineOf(d.start) # LineOf(d.start + d.size - 1)
    BY <1>1, <1>20
  <2>2. Lines(d) # 1 /\ Lines(d) \in Nat /\ Lines(d) >= 1
    BY <1>20, <2>1, OneLineList, ListLines
  <2>3. f.S[n].p.vertex = d
    BY <1>3, <1>20, Zenon DEF Given
  <2> QED
    BY <2>2, <2>3 DEF InOneLine
<1>5. PICK T \in VdTag : T.l = n /\ T.p = q
  <2>1. q \in VdPkg
    BY <1>1, <1>3 DEF VdPkg
  <2>2. PICK T \in VdTag : T = [l |-> n, p |-> q]
    BY <1>3, <2>1 DEF VdTag
  <2> QED
    BY <2>2
<1>22. VdTagged(f.S, o.i, n + 1, T)
  <2>1. /\ q.id = sync_id /\ q.burst_id = sync_burst_id /\ q.last = p.last
        /\ q.start = p.vertex.start /\ q.size = p.vertex.size
    BY <1>1
  <2>2. n \in Nat /\ o.i \in Nat /\ o.i <= n /\ Given(f, n, p)
    BY <1>3
  <2> QED
    BY <1>5, <1>21, <2>1, <2>2, VdMade
<1>6. PICK k \in VdSet : MoreVds(v, k, T)
  BY <1>5, VdsGrow
<1>7. /\ k.T[v.q] = T /\ SameLists(v.T, k.T, v.q)
      /\ k.p = v.p /\ k.q = v.q + 1 /\ k.z = v.z
  BY <1>6 DEF MoreVds
<1>9. /\ u.z = 0 /\ v.z = 0 /\ a.z = 0 /\ y.z = 0
      /\ running["single"] /\ running["one"] /\ running["long"]
  BY <1>3, NoStops DEF Parts
<1>10. v.p \in Nat /\ v.q \in Nat
  BY VdFields
<1>11. /\ Holds(burst_vd, PkgOf(v.T), v.p, v.q, 0, StopVd)
       /\ \A r, m \in v.p .. v.q - 1 : r < m => v.T[r].l < v.T[m].l
       /\ \A r \in v.p .. v.q - 1 : VdTagged(f.S, o.i, n, v.T[r])
  BY <1>3, <1>9 DEF Parts, Vds
<1>12. v.p <= v.q
  BY <1>11 DEF Holds
<1>13. Vds(f.S, o.i, n + 1, v)
  BY <1>3 DEF Parts, Regrown
<1>14. Vds(f.S, o.i, n + 1, k)'
  <2>1. SameLists(PkgOf(v.T), PkgOf(k.T), v.q)
    BY <1>7, SameTags
  <2>3. Holds(Append(burst_vd, q), PkgOf(k.T), v.p, v.q + 1, 0, StopVd)
    <3>1. PkgOf(k.T)[v.q] = q
      BY <1>5, <1>7, <1>10 DEF PkgOf
    <3> QED
      BY <1>10, <1>11, <2>1, <3>1, HoldsBehind
  <2>4. ASSUME NEW r \in v.p .. v.q
        PROVE  /\ VdTagged(f.S, o.i, n + 1, k.T[r])
               /\ r < v.q => r \in v.p .. v.q - 1 /\ k.T[r] = v.T[r] /\ k.T[r].l < n
               /\ r >= v.q => k.T[r].l = n
    <3>1. CASE r < v.q
      <4>1. r \in v.p .. v.q - 1 /\ r \in Nat
        BY <1>10, <3>1
      <4>2. k.T[r] = v.T[r]
        BY <1>7, <3>1, <4>1 DEF SameLists
      <4>3. VdTagged(f.S, o.i, n + 1, v.T[r])
        BY <1>13, <4>1 DEF Vds
      <4>4. v.T[r].l \in o.i .. n - 1
        BY <1>11, <4>1, TagPlace
      <4>5. v.T[r].l < n
        BY <1>3, <4>4
      <4>6. ~(r >= v.q)
        BY <1>10, <3>1
      <4> QED
        BY <4>1, <4>2, <4>3, <4>5, <4>6
    <3>2. CASE ~(r < v.q)
      <4>1. r = v.q
        BY <1>10, <3>2
      <4> QED
        BY <1>5, <1>7, <1>22, <3>2, <4>1
    <3> QED
      BY <3>1, <3>2
  <2>5. ASSUME NEW r \in v.p .. v.q, NEW m \in v.p .. v.q, r < m
        PROVE  k.T[r].l < k.T[m].l
    <3>1. r < v.q
      BY <1>10, <2>5
    <3>2. r \in v.p .. v.q - 1 /\ k.T[r] = v.T[r] /\ k.T[r].l < n
      BY <2>4, <3>1
    <3>3. CASE m < v.q
      BY <1>11, <2>4, <2>5, <3>2, <3>3
    <3>4. CASE ~(m < v.q)
      <4>1. m >= v.q
        BY <1>10, <3>4
      <4> QED
        BY <2>4, <3>2, <4>1
    <3> QED
      BY <3>3, <3>4
  <2>6. k.p = v.p /\ k.q - 1 = v.q /\ k.q = v.q + 1 /\ k.z = 0
    BY <1>7, <1>9, <1>10
  <2> QED
    BY <1>1, <2>3, <2>4, <2>5, <2>6 DEF Vds
<1>23. Generated(k)' /\ Ordered(n + 1, k, c)'
  <2>1. Generated(v) /\ Ordered(n, v, c)
    BY <1>3 DEF Parts
  <2>2. c.P[c.hi].l \in Nat /\ c.P[c.hi].m \in Nat /\ c.P[c.hi].l <= n
    BY <2>1, PlaceFields DEF Ordered
  <2>3. k.p < k.q /\ c.P[c.hi].l <= n + 1
    <3>1. k.p < k.q
      BY <1>7, <1>10, <1>12
    <3>2. PICK l : l = c.P[c.hi].l /\ l \in Nat /\ l <= n
      BY <2>2
    <3>3. \A e \in Nat : l <= e => l <= e + 1
      BY <3>2
    <3>4. l <= n + 1
      BY <1>3, <3>2, <3>3, Zenon
    <3> QED
      BY <3>1, <3>2, <3>4, Zenon
  <2>4. CASE v.p < v.q
    <3>1. k.T[v.p] = v.T[v.p]
      BY <1>7, <1>10, <2>4 DEF SameLists
    <3>2. Generated(k)'
      <4>1. k.T[k.p] = v.T[v.p] /\ curr' = curr /\ ~(k.p = k.q)
        BY <1>1, <1>7, <1>10, <2>3, <3>1
      <4>2. curr \in Nat /\ v.p < v.q
        BY <2>1, <2>4 DEF Generated
      <4>3. /\ curr < Lines(v.T[v.p].p)
            /\ curr + MaxBurst <= Lines(v.T[v.p].p) => \E r \in Nat : curr = r * MaxBurst
        BY <2>1, <2>4 DEF Generated
      <4> QED
        BY <4>1, <4>2, <4>3 DEF Generated
    <3>3. Ordered(n + 1, k, c)'
      BY <1>1, <1>7, <2>1, <2>3, <2>4, <3>1 DEF Ordered
    <3> QED
      BY <3>2, <3>3
  <2>5. CASE v.p = v.q
    <3>1. k.T[k.p] = T /\ curr = 0 /\ k.T[k.p].l = n /\ k.T[k.p].p = q
      BY <1>5, <1>7, <1>9, <2>1, <2>5 DEF Generated
    <3>2. Lines(q) = Lines(d)
      <4>1. q.start = d.start /\ q.size = d.size
        BY <1>1, <1>20
      <4> QED
        BY <4>1 DEF Lines, EndAddr
    <3>3. MaxBurst \in Nat /\ 0 = 0 * MaxBurst
      BY Sizes
    <3>4. 0 \in Nat /\ 0 < Lines(q)
      BY <1>21, <3>2
    <3>5. Generated(k)'
      <4>1. curr' = 0 /\ k.p # k.q
        BY <1>1, <1>7, <1>10, <2>5, <3>1
      <4> QED
        BY <3>1, <3>3, <3>4, <4>1 DEF Generated
    <3>6. c.P[c.hi].m = 0
      BY <1>10, <2>1, <2>5 DEF Ordered
    <3>7. At(c.P[c.hi], n, 0)
      BY <2>2, <3>6 DEF At
    <3>8. Ordered(n + 1, k, c)'
      BY <1>1, <2>3, <3>1, <3>7 DEF Ordered
    <3> QED
      BY <3>5, <3>8
  <2> QED
    BY <1>10, <1>12, <2>4, <2>5
<1>15. Stops(u, k, a, y)'
  <2>1. vs_pc' \in {"run", "stop_single"}
    BY <1>3, Zenon
  <2>2. UNCHANGED running
    BY <1>1, Zenon
  <2>3. k.z = 0
    BY <1>7, <1>9, Zenon
  <2> QED
    BY <1>9, <2>1, <2>2, <2>3, StillNoStops
<1>16. Rest'
  BY <1>1, <1>3 DEF Rest
<1>17. Empties(h, w)'
  BY <1>1, <1>4, EmptiesStay DEF Parts
<1>19. Parts(h, w, u, k, a, y, c, g, o)'
  <2>1. UNCHANGED <<cmd["single"], cmd["one"], cmd["long"], sync["single"], sync["one"],
                    sync["long"], sync["dynamic"]>>
    BY <1>1
  <2>2. Numbering(h)'
    BY <1>4, KeepFront
  <2>3. Singles(f.S, o.i, n + 1, u)'
    <3>1. Singles(f.S, o.i, n + 1, u)
      BY <1>3 DEF Parts, Regrown
    <3> QED
      BY <2>1, <3>1, KeepFront
  <2>4. OneStreams(a)' /\ LongStreams(y)' /\ LongLines(y)' /\ Counted(a, y, c)' /\ Linked(y, c, g)'
    BY <1>1, <2>1, KeepBack DEF Parts
  <2>5. /\ Commands(f.S, o.i, n + 1, c, a, 1)' /\ Commands(f.S, o.i, n + 1, c, y, MaxBurst)'
        /\ Merged(f.S, o.i, n + 1, g)'
    <3>1. /\ Commands(f.S, o.i, n + 1, c, a, 1) /\ Commands(f.S, o.i, n + 1, c, y, MaxBurst)
          /\ Merged(f.S, o.i, n + 1, g)
      BY <1>3 DEF Parts, Regrown
    <3> QED
      BY <2>1, <3>1, KeepBack
  <2>6. Joined(f.S, n + 1, g, o)' /\ Out(f.S, n + 1, o)' /\ Sampled(f.S, f.B[f.b], n + 1, o)'
    BY <1>1, <1>3, KeepBack
  <2>7. /\ Vds(f.S, o.i, n + 1, k)' /\ Stops(u, k, a, y)' /\ Empties(h, w)'
        /\ Generated(k)' /\ Ordered(n + 1, k, c)'
    BY <1>14, <1>15, <1>17, <1>23
  <2> QED
    BY <1>4, <2>2, <2>3, <2>4, <2>5, <2>6, <2>7 DEF Parts
<1> QED
  BY <1>4, <1>16, <1>19 DEF BurstInv

-----------------------------------------------------------------------------
(* cmd_generator                                                           *)

\* A multiple of a number.
LEMMA Multiple ==
  ASSUME NEW M \in Nat, M > 0, NEW h \in Nat
  PROVE  h * M + M \in Nat /\ h * M + M = (h + 1) * M /\ (h * M + M) % M = 0
<1>1. /\ M * h \in Nat /\ M * (h + 1) = M * h + M * 1 /\ h * M = M * h
      /\ (h + 1) * M = M * (h + 1)
  BY Products
<1>2. PICK x \in Nat : x = h * M + M /\ x = M * (h + 1)
  BY <1>1
<1>3. PICK q, r : r = x % M /\ q = x \div M
  OBVIOUS
<1>9. q \in Nat /\ r \in 0 .. M - 1 /\ x = M * q + r
  BY <1>3, QuotientRemainder
<1>4. M * q \in Nat
  BY <1>9, Products
<1>5. ~(q < h + 1)
  <2>1. SUFFICES ASSUME q < h + 1 PROVE FALSE
    OBVIOUS
  <2>2. h + 1 \in Nat
    OBVIOUS
  <2>3. M * q + M <= M * (h + 1)
    BY <1>9, <2>1, <2>2, Products
  <2> QED
    BY <1>2, <1>4, <1>9, <2>3
<1>6. ~(h + 1 < q)
  <2>1. SUFFICES ASSUME h + 1 < q PROVE FALSE
    OBVIOUS
  <2>2. h + 1 \in Nat
    OBVIOUS
  <2>3. M * (h + 1) + M <= M * q
    BY <1>9, <2>1, <2>2, Products
  <2> QED
    BY <1>2, <1>4, <1>9, <2>3
<1>7. q = h + 1
  BY <1>5, <1>6, <1>9
<1>8. r = 0
  <2>1. x = M * (h + 1) + r
    BY <1>7, <1>9
  <2> QED
    BY <1>2, <1>9, <2>1
<1> QED
  BY <1>1, <1>2, <1>3, <1>8

\* The command for the next k lines of the list of cmd_generator, from line m on.
LEMMA CmdMade ==
  ASSUME NEW S, NEW i, NEW n, NEW V \in VdTag, VdTagged(S, i, n, V),
         S[V.l].p.vertex \in Descs, S[V.l].p.vertex.size # 0,
         NEW m \in Nat, NEW k \in Nat, m + k <= Lines(V.p),
         k = 1 \/ (k = MaxBurst /\ \E h \in Nat : m = h * MaxBurst),
         dynamic_burst_id \in Nat
  PROVE  \E q \in CmdPkg :
           /\ q = DynamicCmd(V.p, LineOf(V.p.start) + m * LineWords, k)
           /\ CmdOfList(S, i, n, V.l, m, k, q) /\ q.dynamic_id = dynamic_burst_id
           /\ q.end_of_burst \in BOOLEAN /\ (q.end_of_burst <=> m + k = Lines(V.p))
<1>1. PICK d, vd, l : d = S[V.l].p.vertex /\ vd = V.p /\ l = V.l
  OBVIOUS
<1>2. d \in Descs /\ d.start \in Nat /\ d.size \in Nat /\ d.size # 0
  <2>1. d \in Descs
    BY <1>1
  <2>2. d \in [start: Nat, size: Nat]
    BY <2>1, BurstAssumption
  <2> QED
    BY <1>1, <2>1, <2>2
<1>3. /\ Listed(S, i, n, l, vd) /\ vd.last = S[l].p.last /\ vd.start = d.start
      /\ vd.size = d.size
  BY <1>1 DEF VdTagged
<1>4. vd \in VdPkg
  BY <1>1 DEF VdTag
<1>5. vd.id \in Nat /\ vd.burst_id \in Nat /\ vd.last \in BOOLEAN
  BY <1>4 DEF VdPkg
<1>6. Lines(vd) = Lines(d) /\ EndAddr(vd) = EndAddr(d)
  BY <1>3 DEF Lines, EndAddr
<1>7. /\ LineWords \in Nat /\ LineWords > 0 /\ MaxBurst \in Nat /\ MaxBurst > 1
  BY Sizes
<1>8. PICK ad : ad = LineOf(d.start) + m * LineWords
  OBVIOUS
<1>9. PICK nx : nx = ad + k * LineWords
  OBVIOUS
<1>10. /\ ad \in Nat /\ nx \in Nat /\ (nx = EndAddr(d) <=> m + k = Lines(d))
  BY <1>2, <1>8, <1>9, CommandLines
<1>11. PICK e \in BOOLEAN : e <=> nx = EndAddr(d)
  OBVIOUS
<1>12. PICK st \in Nat, en \in Nat :
         /\ st = IF ad < d.start THEN d.start ELSE ad
         /\ en = IF nx > d.start + d.size THEN d.start + d.size ELSE nx
  BY <1>2, <1>10
<1>13. PICK q : q = [addr |-> ad, start |-> st, end |-> en, id |-> vd.id, burst_id |-> vd.burst_id,
                     end_of_burst |-> e, dynamic_id |-> dynamic_burst_id, last |-> e /\ vd.last]
  OBVIOUS
<1>14. /\ q.addr = ad /\ q.start = st /\ q.end = en /\ q.id = vd.id /\ q.burst_id = vd.burst_id
       /\ q.end_of_burst = e /\ q.dynamic_id = dynamic_burst_id /\ q.last = (e /\ vd.last)
  BY <1>13
<1>15. q \in CmdPkg
  <2>1. (e /\ vd.last) \in BOOLEAN
    OBVIOUS
  <2> QED
    BY <1>5, <1>10, <1>11, <1>12, <1>13, <2>1 DEF CmdPkg
<1>16. q = DynamicCmd(V.p, LineOf(V.p.start) + m * LineWords, k)
  <2>1. DynamicCmd(vd, ad, k) =
          [addr |-> ad, start |-> IF ad < d.start THEN d.start ELSE ad,
           end |-> IF nx > d.start + d.size THEN d.start + d.size ELSE nx,
           id |-> vd.id, burst_id |-> vd.burst_id, end_of_burst |-> nx = EndAddr(d),
           dynamic_id |-> dynamic_burst_id, last |-> nx = EndAddr(d) /\ vd.last]
    BY <1>3, <1>6, <1>9 DEF DynamicCmd
  <2>2. (nx = EndAddr(d)) = e
    BY <1>11
  <2>3. DynamicCmd(vd, ad, k) =
          [addr |-> ad, start |-> st, end |-> en, id |-> vd.id, burst_id |-> vd.burst_id,
           end_of_burst |-> e, dynamic_id |-> dynamic_burst_id, last |-> e /\ vd.last]
    BY <1>12, <2>1, <2>2
  <2> QED
    BY <1>1, <1>3, <1>8, <1>13, <2>3
<1>17. ASSUME NEW h \in 0 .. k - 1 PROVE Shows(d, m + h, Unmasked(q, h))
  <2>1. CASE k = 1
    <3>1. h = 0 /\ m + h = m
      BY <2>1
    <3>2. m + 1 <= Lines(d)
      BY <1>1, <1>6, <2>1
    <3>3. /\ q.addr = LineOf(d.start) + m * LineWords
          /\ q.start = IF q.addr < d.start THEN d.start ELSE q.addr
          /\ q.end = IF q.addr + 1 * LineWords > d.start + d.size THEN d.start + d.size
                     ELSE q.addr + 1 * LineWords
      BY <1>8, <1>9, <1>12, <1>14, <2>1
    <3>4. Shows(d, m, Unmasked(q, 0))
      BY <1>2, <3>2, <3>3, LineShows
    <3> QED
      BY <3>1, <3>4
  <2>2. CASE k = MaxBurst /\ \E r \in Nat : m = r * MaxBurst
    <3>1. PICK r \in Nat : m = r * MaxBurst
      BY <2>2
    <3>2. (r * MaxBurst + MaxBurst) % MaxBurst = 0
      BY <1>7, Multiple
    <3>3. m + MaxBurst <= Lines(d)
      BY <1>1, <1>6, <2>2
    <3>4. m + MaxBurst = Lines(d) => Lines(d) % MaxBurst = 0
      BY <3>1, <3>2
    <3>5. /\ q.addr = LineOf(d.start) + m * LineWords
          /\ q.start = IF q.addr < d.start THEN d.start ELSE q.addr
          /\ q.end = IF q.addr + MaxBurst * LineWords > d.start + d.size THEN d.start + d.size
                     ELSE q.addr + MaxBurst * LineWords
      BY <1>8, <1>9, <1>12, <1>14, <2>2
    <3>6. h \in 0 .. MaxBurst - 1
      BY <2>2
    <3> QED
      BY <1>2, <3>3, <3>4, <3>5, <3>6, BurstShows
  <2> QED
    BY <2>1, <2>2
<1>18. q.end_of_burst \in BOOLEAN /\ (q.end_of_burst <=> m + k = Lines(d))
  BY <1>10, <1>11, <1>14
<1>19. CmdOfList(S, i, n, V.l, m, k, q)
  <2>1. Listed(S, i, n, V.l, q)
    BY <1>1, <1>3, <1>14 DEF Listed
  <2>2. q.end_of_burst = (m + k = Lines(d))
    BY <1>18
  <2>3. q.end_of_burst => q.last = S[V.l].p.last
    <3>1. e => (e /\ vd.last) = vd.last
      BY <1>5
    <3> QED
      BY <1>1, <1>3, <1>14, <3>1
  <2>4. m + k <= Lines(d)
    BY <1>1, <1>6
  <2> QED
    BY <1>1, <1>17, <2>1, <2>2, <2>3, <2>4 DEF CmdOfList
<1> QED
  BY <1>1, <1>6, <1>14, <1>15, <1>16, <1>18, <1>19

\* Record d is record c with the place q behind its last command.
MoreNumbers(c, d, q) ==
    /\ d.lo = c.lo /\ d.hi = c.hi + 1
    /\ d.P[c.hi + 1] = q /\ SameLists(c.P, d.P, c.hi + 1)

\* There is such a record.
LEMMA NumbersGrow ==
  ASSUME NEW q \in PlaceSet, NEW c \in NumberSet
  PROVE  \E d \in NumberSet : MoreNumbers(c, d, q)
<1>1. c.P \in [Nat -> PlaceSet] /\ c.hi \in Nat
  BY PlaceFields
<1>2. PICK e : e = c.hi + 1 /\ e \in Nat
  BY <1>1
<1>7. PICK X : X = [c.P EXCEPT ![e] = q]
  OBVIOUS
<1>3. X \in [Nat -> PlaceSet] /\ X[e] = q /\ \A r \in Nat : r # e => X[r] = c.P[r]
  BY <1>1, <1>2, <1>7, Entered
<1>4. \A r \in Nat : r < e => r # e
  BY <1>2
<1>5. SameLists(c.P, X, e)
  BY <1>3, <1>4 DEF SameLists
<1> DEFINE d == [c EXCEPT !.P = X, !.hi = e]
<1>6. d \in NumberSet /\ d.P = X /\ d.lo = c.lo /\ d.hi = e
  BY <1>2, <1>3 DEF NumberSet
<1> HIDE DEF d
<1> QED
  BY <1>2, <1>3, <1>5, <1>6 DEF MoreNumbers

\* The numbers of the commands.
LEMMA CommandNumbers ==
  ASSUME NEW S, NEW i, NEW n, NEW c \in NumberSet, NEW a, NEW k, Commands(S, i, n, c, a, k),
         NEW h \in a.k1 .. a.k3 - 1
  PROVE  /\ a.T[h].x \in Nat /\ c.lo <= a.T[h].x /\ a.T[h].x < c.hi /\ a.T[h].x \in c.lo .. c.hi - 1
         /\ a.T[h].p.dynamic_id = a.T[h].x % IdMod
<1>1. a.T[h].x \in c.lo .. c.hi - 1 /\ a.T[h].p.dynamic_id = a.T[h].x % IdMod
  BY DEF Commands, CmdTagged
<1>2. c.lo \in Nat /\ c.hi \in Nat
  BY PlaceFields
<1> QED
  BY <1>1, <1>2

\* There is a number more: the commands keep theirs.
LEMMA CommandsKeep ==
  ASSUME NEW S, NEW i, NEW n, NEW c \in NumberSet, NEW d, NEW q, MoreNumbers(c, d, q),
         NEW a, NEW k, Commands(S, i, n, c, a, k)
  PROVE  Commands(S, i, n, d, a, k)
<1>1. c.lo \in Nat /\ c.hi \in Nat
  BY PlaceFields
<1>2. d.lo = c.lo /\ d.hi = c.hi + 1 /\ \A r \in Nat : r < c.hi + 1 => d.P[r] = c.P[r]
  BY DEF MoreNumbers, SameLists
<1>3. ASSUME NEW h \in a.k1 .. a.k3 - 1
      PROVE  CmdTagged(S, i, n, d, a.T[h], k)
  <2>1. PICK T : T = a.T[h]
    OBVIOUS
  <2>2. CmdTagged(S, i, n, c, T, k)
    BY <2>1 DEF Commands
  <2>3. T.x \in c.lo .. c.hi - 1
    BY <2>2 DEF CmdTagged
  <2>4. PICK x : x = T.x /\ x \in Nat /\ x < c.hi + 1 /\ x + 1 \in Nat /\ x + 1 < c.hi + 1
                 /\ x \in c.lo .. c.hi + 1 - 1
    BY <1>1, <2>3
  <2>5. d.P[x] = c.P[x] /\ d.P[x + 1] = c.P[x + 1]
    BY <1>2, <2>4
  <2>7. T.x \in d.lo .. d.hi - 1
    <3>1. x \in d.lo .. d.hi - 1
      BY <1>1, <1>2, <2>4
    <3> QED
      BY <2>4, <3>1
  <2>8. d.P[T.x] = c.P[T.x] /\ d.P[T.x + 1] = c.P[T.x + 1]
    BY <2>4, <2>5
  <2>6. CmdTagged(S, i, n, d, T, k)
    BY <2>2, <2>7, <2>8 DEF CmdTagged
  <2> QED
    BY <2>1, <2>6
<1> QED
  BY <1>3 DEF Commands

\* An engine gets the command with the last number.
LEMMA CommandsPut ==
  ASSUME NEW S, NEW i, NEW n, NEW d, NEW a, NEW k, Commands(S, i, n, d, a, k),
         a.k1 \in Nat, a.k3 \in Nat, a.k1 <= a.k3,
         NEW T, NEW b, MoreCommands(a, b, T), CmdTagged(S, i, n, d, T, k),
         \A h \in a.k1 .. a.k3 - 1 : a.T[h].x < T.x
  PROVE  Commands(S, i, n, d, b, k)
<1>1. /\ b.T[a.k3] = T /\ \A r \in Nat : r < a.k3 => b.T[r] = a.T[r]
      /\ b.k1 = a.k1 /\ b.k3 = a.k3 + 1
  BY DEF MoreCommands, SameLists
<1>2. ASSUME NEW h \in b.k1 .. b.k3 - 1
      PROVE  /\ (h \in a.k1 .. a.k3 - 1 /\ b.T[h] = a.T[h] /\ h < a.k3)
                \/ (h = a.k3 /\ b.T[h] = T)
  <2>1. h \in a.k1 .. a.k3 + 1 - 1
    BY <1>1
  <2>2. (h \in a.k1 .. a.k3 - 1 /\ h \in Nat /\ h < a.k3) \/ h = a.k3
    BY <2>1
  <2> QED
    BY <1>1, <2>2
<1>3. ASSUME NEW h \in b.k1 .. b.k3 - 1 PROVE CmdTagged(S, i, n, d, b.T[h], k)
  BY <1>2 DEF Commands
<1>4. ASSUME NEW h \in b.k1 .. b.k3 - 1, NEW m \in b.k1 .. b.k3 - 1, h < m
      PROVE  b.T[h].x < b.T[m].x
  <2>1. h \in a.k1 .. a.k3 - 1 /\ b.T[h] = a.T[h]
    <3>1. SUFFICES ASSUME h = a.k3 PROVE FALSE
      BY <1>2
    <3>2. m <= a.k3
      BY <1>1
    <3> QED
      BY <1>4, <3>1, <3>2
  <2>2. CASE m = a.k3 /\ b.T[m] = T
    BY <2>1, <2>2
  <2>3. CASE m \in a.k1 .. a.k3 - 1 /\ b.T[m] = a.T[m]
    BY <1>4, <2>1, <2>3 DEF Commands
  <2> QED
    BY <1>2, <2>2, <2>3
<1> QED
  BY <1>3, <1>4 DEF Commands

\* It is counted.
LEMMA CountedPut ==
  ASSUME NEW c \in NumberSet, NEW d \in NumberSet, NEW q, MoreNumbers(c, d, q), c.P[c.hi].l <= q.l,
         NEW a, a.k1 \in Nat, a.k3 \in Nat, a.k1 <= a.k3,
         NEW y, y.k1 \in Nat, y.k3 \in Nat, y.k1 <= y.k3,
         NEW S, NEW i, NEW n, Commands(S, i, n, c, a, 1), Commands(S, i, n, c, y, MaxBurst),
         Counted(a, y, c), NEW T, T.x = c.hi, dynamic_burst_id' = Succ(dynamic_burst_id),
         UNCHANGED intra_id
  PROVE  /\ \A b : MoreCommands(a, b, T) => Counted(b, y, d)'
         /\ \A b : MoreCommands(y, b, T) => Counted(a, b, d)'
<1>1. /\ c.lo \in Nat /\ c.hi \in Nat /\ d.lo = c.lo /\ d.hi = c.hi + 1
      /\ d.P[c.hi + 1] = q /\ \A r \in Nat : r < c.hi + 1 => d.P[r] = c.P[r]
  BY PlaceFields DEF MoreNumbers, SameLists
<1>2. /\ dynamic_burst_id = c.hi % IdMod /\ intra_id = c.lo % IdMod
      /\ c.lo <= c.hi /\ c.hi - c.lo = (a.k3 - a.k1) + (y.k3 - y.k1)
      /\ \A h \in a.k1 .. a.k3 - 1, m \in y.k1 .. y.k3 - 1 : a.T[h].x # y.T[m].x
      /\ \A h, m \in c.lo .. c.hi : h <= m => c.P[h].l <= c.P[m].l
  BY DEF Counted
<1>3. dynamic_burst_id' = d.hi % IdMod /\ intra_id' = d.lo % IdMod /\ d.lo <= d.hi
  <2>1. ((c.hi % IdMod) + 1) % IdMod = (c.hi + 1) % IdMod
    BY <1>1, NextRemainder, Sizes
  <2> QED
    BY <1>1, <1>2, <2>1 DEF Succ
<1>4. ASSUME NEW h \in d.lo .. d.hi, NEW m \in d.lo .. d.hi, h <= m
      PROVE  d.P[h].l <= d.P[m].l
  <2>1. h \in c.lo .. c.hi + 1 /\ m \in c.lo .. c.hi + 1 /\ h \in Nat /\ m \in Nat
    BY <1>1
  <2>2. /\ d.P[h].l \in Nat /\ d.P[m].l \in Nat /\ c.P[h].l \in Nat /\ c.P[c.hi].l \in Nat
        /\ d.P[c.hi + 1].l \in Nat
    BY <1>1, <2>1, PlaceFields
  <2>3. CASE m <= c.hi
    <3>1. h \in c.lo .. c.hi /\ m \in c.lo .. c.hi /\ h < c.hi + 1 /\ m < c.hi + 1
      BY <1>1, <1>4, <2>1, <2>3
    <3> QED
      BY <1>1, <1>2, <1>4, <2>1, <3>1
  <2>4. CASE m = c.hi + 1 /\ h <= c.hi
    <3>1. h \in c.lo .. c.hi /\ c.hi \in c.lo .. c.hi /\ h < c.hi + 1
      BY <1>1, <1>2, <2>1, <2>4
    <3>2. c.P[h].l <= c.P[c.hi].l /\ d.P[h] = c.P[h] /\ d.P[m] = q
      BY <1>1, <1>2, <2>1, <2>4, <3>1
    <3> QED
      BY <1>1, <2>2, <3>2
  <2>5. CASE m = c.hi + 1 /\ h = c.hi + 1
    BY <2>2, <2>5
  <2> QED
    BY <1>1, <1>4, <2>1, <2>3, <2>4, <2>5
<1>5. /\ \A h \in a.k1 .. a.k3 - 1 : a.T[h].x \in Nat /\ a.T[h].x < c.hi /\ a.T[h].x # c.hi
      /\ \A h \in y.k1 .. y.k3 - 1 : y.T[h].x \in Nat /\ y.T[h].x < c.hi /\ y.T[h].x # c.hi
  <2>1. ASSUME NEW h \in a.k1 .. a.k3 - 1 PROVE a.T[h].x \in Nat /\ a.T[h].x < c.hi
    BY CommandNumbers
  <2>2. ASSUME NEW h \in y.k1 .. y.k3 - 1 PROVE y.T[h].x \in Nat /\ y.T[h].x < c.hi
    BY CommandNumbers
  <2> QED
    BY <1>1, <2>1, <2>2
<1>6. ASSUME NEW b, MoreCommands(a, b, T)
      PROVE  Counted(b, y, d)'
  <2>1. /\ b.T[a.k3] = T /\ \A r \in Nat : r < a.k3 => b.T[r] = a.T[r]
        /\ b.k1 = a.k1 /\ b.k3 = a.k3 + 1
    BY <1>6 DEF MoreCommands, SameLists
  <2>2. ASSUME NEW h \in b.k1 .. b.k3 - 1, NEW m \in y.k1 .. y.k3 - 1 PROVE b.T[h].x # y.T[m].x
    <3>1. (h \in a.k1 .. a.k3 - 1 /\ h \in Nat /\ h < a.k3) \/ h = a.k3
      BY <2>1
    <3>2. CASE h \in a.k1 .. a.k3 - 1 /\ h \in Nat /\ h < a.k3
      <4>1. b.T[h] = a.T[h]
        BY <2>1, <3>2
      <4> QED
        BY <1>2, <3>2, <4>1
    <3>3. CASE h = a.k3
      <4>1. b.T[h] = T
        BY <2>1, <3>3
      <4> QED
        BY <1>2, <1>5, <4>1
    <3> QED
      BY <3>1, <3>2, <3>3
  <2>3. d.hi - d.lo = (b.k3 - b.k1) + (y.k3 - y.k1)
    BY <1>1, <1>2, <2>1
  <2> QED
    BY <1>3, <1>4, <2>2, <2>3 DEF Counted
<1>7. ASSUME NEW b, MoreCommands(y, b, T)
      PROVE  Counted(a, b, d)'
  <2>1. /\ b.T[y.k3] = T /\ \A r \in Nat : r < y.k3 => b.T[r] = y.T[r]
        /\ b.k1 = y.k1 /\ b.k3 = y.k3 + 1
    BY <1>7 DEF MoreCommands, SameLists
  <2>2. ASSUME NEW h \in a.k1 .. a.k3 - 1, NEW m \in b.k1 .. b.k3 - 1 PROVE a.T[h].x # b.T[m].x
    <3>1. (m \in y.k1 .. y.k3 - 1 /\ m \in Nat /\ m < y.k3) \/ m = y.k3
      BY <2>1
    <3> QED
      BY <1>2, <1>5, <2>1, <3>1
  <2>3. d.hi - d.lo = (a.k3 - a.k1) + (b.k3 - b.k1)
    BY <1>1, <1>2, <2>1
  <2> QED
    BY <1>3, <1>4, <2>2, <2>3 DEF Counted
<1> QED
  BY <1>6, <1>7

\* What cmd_generator does, by lines.
Sent(vd, e, k) ==
    /\ e \in {"one", "long"} /\ k = IF e = "long" THEN MaxBurst ELSE 1
    /\ e = "long" <=> curr + MaxBurst <= Lines(vd)
    /\ burst_vd # <<>> /\ Len(cmd[e]) < CmdDepth
    /\ cmd' = [cmd EXCEPT ![e] =
                 Append(cmd[e], DynamicCmd(vd, LineOf(vd.start) + curr * LineWords, k))]
    /\ curr + k = Lines(vd) => burst_vd' = Tail(burst_vd) /\ curr' = 0
    /\ curr + k # Lines(vd) => burst_vd' = burst_vd /\ curr' = curr + k
    /\ dynamic_burst_id' = NumberAfter(vd)
    /\ UNCHANGED <<asked, input, vs_pc, sync_id, sync_burst_id, update, running, j, sync,
                   intra_id, inter_id, inter_out, selected, next_vertex, update_id, pending,
                   shown>>

\* cmd_generator sends a long command or one line.
LEMMA CmdSends ==
  ASSUME CmdGenerator, NEW vd, vd = Head(burst_vd), vd.start \in Nat, vd.size \in Nat, vd.size # 0,
         curr \in Nat
  PROVE  \E e, k : Sent(vd, e, k)
<1>1. MaxBurst \in Nat
  BY Sizes
<1>2. PICK addr : addr = LineOf(vd.start) + curr * LineWords
  OBVIOUS
<1>3. /\ EndAddr(vd) >= addr + MaxBurst * LineWords <=> curr + MaxBurst <= Lines(vd)
      /\ addr + MaxBurst * LineWords = EndAddr(vd) <=> curr + MaxBurst = Lines(vd)
  BY <1>1, <1>2, CommandLines, ZenonT(60)
<1>4. addr + 1 * LineWords = EndAddr(vd) <=> curr + 1 = Lines(vd)
  <2>1. PICK k \in Nat : k = 1
    OBVIOUS
  <2>2. addr + k * LineWords = EndAddr(vd) <=> curr + k = Lines(vd)
    BY <1>2, CommandLines, ZenonT(60)
  <2> QED
    BY <2>1, <2>2
<1> DEFINE long == EndAddr(vd) >= addr + MaxBurst * LineWords
           n == IF long THEN MaxBurst ELSE 1
           e == IF long THEN "long" ELSE "one"
           done == addr + n * LineWords = EndAddr(vd)
<1>5. /\ burst_vd # <<>> /\ Len(cmd[e]) < CmdDepth
      /\ cmd' = [cmd EXCEPT ![e] = Append(cmd[e], DynamicCmd(vd, addr, n))]
      /\ burst_vd' = IF done THEN Tail(burst_vd) ELSE burst_vd
      /\ curr' = IF done THEN 0 ELSE curr + n
      /\ dynamic_burst_id' = NumberAfter(vd)
  BY <1>2 DEF CmdGenerator
<1>6. UNCHANGED <<asked, input, vs_pc, sync_id, sync_burst_id, update, running, j, sync,
                  intra_id, inter_id, inter_out, selected, next_vertex, update_id, pending,
                  shown>>
  BY DEF CmdGenerator, feedVars, schedVars, engineVars, mergeVars, outVars, history
<1>7. e \in {"one", "long"} /\ (e = "long" <=> long) /\ n = IF e = "long" THEN MaxBurst ELSE 1
  OBVIOUS
<1>8. done <=> curr + n = Lines(vd)
  <2>1. CASE long
    <3>1. n = MaxBurst
      BY <2>1
    <3> QED
      BY <1>3, <3>1
  <2>2. CASE ~long
    <3>1. n = 1
      BY <2>2
    <3> QED
      BY <1>4, <3>1
  <2> QED
    BY <2>1, <2>2
<1>9. long <=> curr + MaxBurst <= Lines(vd)
  BY <1>3
<1> HIDE DEF long, n, e, done
<1>10. Sent(vd, e, n)
  BY <1>2, <1>5, <1>6, <1>7, <1>8, <1>9 DEF Sent
<1> QED
  BY <1>10

\* The descriptor that stops the engines makes one long burst and one line.
LEMMA StopList ==
  /\ StopVd.start = 0 /\ StopVd.size \in Nat /\ StopVd.size # 0 /\ StopVd.id = StopId
  /\ Lines(StopVd) = MaxBurst + 1
<1>1. LineWords \in Nat /\ LineWords > 0 /\ MaxBurst \in Nat /\ MaxBurst > 1
  BY Sizes
<1>2. PICK h, x : h = MaxBurst + 1 /\ h \in Nat /\ h > 0 /\ x = h * LineWords
  BY <1>1
<1>3. /\ LineWords * h = x /\ x \in Nat
      /\ 0 < h <=> LineWords * 0 < LineWords * h
  <2>1. 0 \in Nat
    OBVIOUS
  <2> QED
    BY <1>1, <1>2, <2>1, Products
<1>4. x # 0 /\ x + 0 = x
  BY <1>1, <1>2, <1>3
<1>5. StopVd.start = 0 /\ StopVd.size = x /\ StopVd.id = StopId
  BY <1>2 DEF StopVd, StopLines
<1>6. Lines(StopVd) \in Nat
  BY <1>3, <1>4, <1>5, ListLines
<1>7. PICK q \in Nat : /\ LineWords * q <= 0
                       /\ EndAddr(StopVd) = LineWords * (q + Lines(StopVd))
                       /\ 0 + x <= EndAddr(StopVd) /\ EndAddr(StopVd) < 0 + x + LineWords
  BY <1>3, <1>4, <1>5, ListLines
<1>8. q = 0
  <2>1. 0 < q => LineWords * 0 + LineWords <= LineWords * q
    BY <1>1, Products
  <2> QED
    BY <1>1, <1>7, <2>1
<1>9. PICK n \in Nat : n = Lines(StopVd)
  BY <1>6
<1>10. /\ LineWords * h <= LineWords * n
       /\ LineWords * n < LineWords * h + LineWords
       /\ LineWords * n \in Nat
  <2>1. q + Lines(StopVd) = n
    BY <1>8, <1>9
  <2>2. LineWords * n \in Nat
    BY <1>1, Products
  <2>3. EndAddr(StopVd) = LineWords * n
    BY <1>7, <2>1
  <2> QED
    BY <1>3, <1>7, <2>2, <2>3
<1>11. h <= n
  BY <1>1, <1>2, <1>10, Products
<1>12. ~(h < n)
  <2>1. h < n => LineWords * h + LineWords <= LineWords * n
    BY <1>1, <1>2, Products
  <2> QED
    BY <1>1, <1>3, <1>10, <2>1
<1> QED
  BY <1>2, <1>3, <1>4, <1>5, <1>9, <1>11, <1>12

\* A descriptor is that of a list.
LEMMA VdList ==
  ASSUME NEW f \in FrontSet, Numbering(f), NEW i \in Nat, FirstId <= i, NEW n \in Nat, n <= f.B[f.e],
         NEW V \in VdTag, VdTagged(f.S, i, n, V)
  PROVE  /\ V.l \in Nat /\ i <= V.l /\ V.l < n
         /\ f.S[V.l].p.vertex \in Descs /\ f.S[V.l].p.vertex.size # 0
         /\ Lines(V.p) \in Nat /\ Lines(V.p) > 1
         /\ V.p.id \in Nat /\ V.p.start \in Nat /\ V.p.size \in Nat /\ V.p.size # 0
<1>1. V.l \in i .. n - 1 /\ V.l \in Nat /\ V.p \in VdPkg
  BY DEF VdTagged, Listed, VdTag
<1>2. f.B[f.e] \in Nat /\ FirstId \in Nat
  BY FrontFields, Sizes
<1>3. FirstId <= V.l /\ V.l < f.B[f.e] /\ i <= V.l /\ V.l < n
  BY <1>1, <1>2
<1>4. /\ f.S[V.l].p.vertex \in Descs /\ f.S[V.l].p.vertex.size # 0
      /\ f.S[V.l].p.vertex.start \in Nat /\ f.S[V.l].p.vertex.size \in Nat
  BY <1>1, <1>3, HistoryList
<1>5. /\ V.p.start = f.S[V.l].p.vertex.start /\ V.p.size = f.S[V.l].p.vertex.size
      /\ Lines(f.S[V.l].p.vertex) # 1
  BY DEF VdTagged, InOneLine
<1>6. Lines(V.p) = Lines(f.S[V.l].p.vertex)
  BY <1>5 DEF Lines, EndAddr
<1>7. Lines(f.S[V.l].p.vertex) \in Nat /\ Lines(f.S[V.l].p.vertex) >= 1
  BY <1>4, ListLines
<1>8. V.p.id \in Nat
  BY <1>1 DEF VdPkg
<1>9. Lines(V.p) \in Nat /\ Lines(V.p) > 1
  BY <1>5, <1>6, <1>7
<1> QED
  BY <1>1, <1>3, <1>4, <1>5, <1>8, <1>9

\* cmd_generator has sent the command T for k lines to engine e; x is its list now
\* and d the record of the numbers.
NewCommand(f, i, n, v, c, e, k, x, d, T) ==
    /\ e \in {"one", "long"} /\ k = IF e = "long" THEN MaxBurst ELSE 1
    /\ Len(cmd[e]) < CmdDepth /\ cmd' = [cmd EXCEPT ![e] = Append(cmd[e], T.p)]
    /\ T.x = c.hi /\ CmdTagged(f.S, i, n, d, T, k)
    /\ \E q : MoreNumbers(c, d, q) /\ c.P[c.hi].l <= q.l
    /\ dynamic_burst_id' = Succ(dynamic_burst_id)
    /\ x.z = v.z /\ Vds(f.S, i, n, x)' /\ Generated(x)' /\ Ordered(n, x, d)'
    /\ UNCHANGED <<asked, input, vs_pc, sync_id, sync_burst_id, update, running, j, sync,
                   intra_id, inter_id, inter_out, selected, next_vertex, update_id, pending,
                   shown>>

\* Place b is the one behind k lines, from line m of list l on: it is in the next
\* list when the list is finished.
PlaceBehind(b, l, m, k, e) ==
    /\ b \in PlaceSet /\ b.l \in Nat /\ b.m \in Nat /\ l <= b.l /\ b.l <= l + 1
    /\ e => b.l = l + 1 /\ b.m = 0
    /\ ~e => b.l = l /\ b.m = m + k

\* The place behind some lines is such a place.
LEMMA BehindPlace ==
  ASSUME NEW l \in Nat, NEW m \in Nat, NEW k \in Nat, NEW e \in BOOLEAN
  PROVE  PlaceBehind(Behind(l, m, k, e), l, m, k, e)
<1>1. PICK b : b = Behind(l, m, k, e)
  OBVIOUS
<1>2. CASE e
  <2>1. b = [l |-> l + 1, m |-> 0]
    BY <1>1, <1>2 DEF Behind
  <2>2. l + 1 \in Nat /\ 0 \in Nat
    OBVIOUS
  <2>3. b \in PlaceSet /\ b.l = l + 1 /\ b.m = 0
    BY <2>1, <2>2 DEF PlaceSet
  <2>4. b.l \in Nat /\ b.m \in Nat /\ l <= b.l /\ b.l <= l + 1
    BY <2>3
  <2> QED
    BY <1>1, <1>2, <2>3, <2>4 DEF PlaceBehind
<1>3. CASE ~e
  <2>1. b = [l |-> l, m |-> m + k]
    BY <1>1, <1>3 DEF Behind
  <2>2. m + k \in Nat
    OBVIOUS
  <2>3. b \in PlaceSet /\ b.l = l /\ b.m = m + k
    BY <2>1, <2>2 DEF PlaceSet
  <2>4. b.l \in Nat /\ b.m \in Nat /\ l <= b.l /\ b.l <= l + 1
    BY <2>3
  <2> QED
    BY <1>1, <1>3, <2>3, <2>4 DEF PlaceBehind
<1> QED
  BY <1>2, <1>3

\* A command of a list is sent.
LEMMA CommandSent ==
  ASSUME NEW f \in FrontSet, Numbering(f), NEW i \in Nat, FirstId <= i, NEW n \in Nat, n <= f.B[f.e],
         NEW v \in VdSet, Vds(f.S, i, n, v), Generated(v), v.p < v.q,
         NEW c \in NumberSet, Ordered(n, v, c), c.lo <= c.hi, dynamic_burst_id = c.hi % IdMod,
         CmdGenerator
  PROVE  \E e, k : \E x \in VdSet, d \in NumberSet, T \in CmdTag :
           NewCommand(f, i, n, v, c, e, k, x, d, T)
<1>1. /\ v.p \in Nat /\ v.q \in Nat /\ v.z \in Bit /\ c.lo \in Nat /\ c.hi \in Nat
      /\ MaxBurst \in Nat /\ MaxBurst > 1 /\ IdMod \in Nat /\ IdMod > 0
  BY VdFields, PlaceFields, Sizes
<1>2. PICK V : V = v.T[v.p]
  OBVIOUS
<1>3. V \in VdTag /\ VdTagged(f.S, i, n, V)
  <2>1. v.p \in v.p .. v.q - 1
    BY <1>1
  <2> QED
    BY <1>1, <1>2, <2>1, VdFields DEF Vds
<1>4. /\ V.l \in Nat /\ i <= V.l /\ V.l < n
      /\ f.S[V.l].p.vertex \in Descs /\ f.S[V.l].p.vertex.size # 0
      /\ Lines(V.p) \in Nat /\ Lines(V.p) > 1
      /\ V.p.id \in Nat /\ V.p.start \in Nat /\ V.p.size \in Nat /\ V.p.size # 0
  BY <1>3, VdList
<1>5. burst_vd # <<>> /\ Holds(burst_vd, PkgOf(v.T), v.p, v.q, v.z, StopVd)
  BY DEF CmdGenerator, Vds
<1>6. Head(burst_vd) = V.p /\ Holds(Tail(burst_vd), PkgOf(v.T), v.p + 1, v.q, v.z, StopVd)
  <2>1. PkgOf(v.T)[v.p] = V.p
    BY <1>1, <1>2 DEF PkgOf
  <2> QED
    BY <1>1, <1>5, <2>1, HoldsPop
<1>7. /\ curr \in Nat /\ curr < Lines(V.p)
      /\ curr + MaxBurst <= Lines(V.p) => \E h \in Nat : curr = h * MaxBurst
  BY <1>2 DEF Generated
<1>8. PICK e, k : Sent(V.p, e, k)
  BY <1>4, <1>6, <1>7, CmdSends
<1>9. /\ e \in {"one", "long"} /\ k = IF e = "long" THEN MaxBurst ELSE 1
      /\ e = "long" <=> curr + MaxBurst <= Lines(V.p)
  BY <1>8 DEF Sent
<1>10. /\ k \in Nat /\ curr + k <= Lines(V.p)
       /\ k = 1 \/ (k = MaxBurst /\ \E h \in Nat : curr = h * MaxBurst)
  <2>1. PICK L : L = Lines(V.p) /\ L \in Nat /\ curr < L
    BY <1>4, <1>7
  <2>2. CASE e = "long"
    <3>1. k = MaxBurst /\ curr + MaxBurst <= Lines(V.p)
      BY <1>9, <2>2
    <3> QED
      BY <1>1, <1>7, <3>1
  <2>3. CASE e # "long"
    <3>1. k = 1
      BY <1>9, <2>3
    <3>2. curr + 1 <= L
      BY <1>7, <2>1
    <3> QED
      BY <2>1, <3>1, <3>2
  <2> QED
    BY <2>2, <2>3
<1>11. dynamic_burst_id \in Nat
  <2>1. c.hi % IdMod \in Nat
    BY <1>1, NextRemainder
  <2> QED
    BY <2>1
<1>12. PICK q \in CmdPkg :
         /\ q = DynamicCmd(V.p, LineOf(V.p.start) + curr * LineWords, k)
         /\ CmdOfList(f.S, i, n, V.l, curr, k, q) /\ q.dynamic_id = dynamic_burst_id
         /\ q.end_of_burst \in BOOLEAN /\ (q.end_of_burst <=> curr + k = Lines(V.p))
  BY <1>3, <1>4, <1>7, <1>10, <1>11, CmdMade
<1>13. PICK b : b = Behind(V.l, curr, k, q.end_of_burst)
  OBVIOUS
<1>14. /\ b \in PlaceSet /\ b.l \in Nat /\ V.l <= b.l /\ b.l <= n
       /\ q.end_of_burst => b.l = V.l + 1 /\ b.m = 0
       /\ ~q.end_of_burst => b.l = V.l /\ b.m = curr + k
  <2>1. /\ b \in PlaceSet /\ b.l \in Nat /\ V.l <= b.l /\ b.l <= V.l + 1
        /\ q.end_of_burst => b.l = V.l + 1 /\ b.m = 0
        /\ ~q.end_of_burst => b.l = V.l /\ b.m = curr + k
    <3>1. V.l \in Nat /\ curr \in Nat /\ k \in Nat /\ q.end_of_burst \in BOOLEAN
      BY <1>4, <1>7, <1>10, <1>12
    <3>2. PlaceBehind(Behind(V.l, curr, k, q.end_of_burst), V.l, curr, k, q.end_of_burst)
      BY <3>1, BehindPlace
    <3>3. PlaceBehind(b, V.l, curr, k, q.end_of_burst)
      BY <1>13, <3>2
    <3> QED
      BY <3>3 DEF PlaceBehind
  <2>2. b.l <= n
    BY <1>4, <2>1
  <2> QED
    BY <2>1, <2>2
<1>15. PICK d \in NumberSet : MoreNumbers(c, d, b)
  BY <1>14, NumbersGrow
<1>16. /\ d.lo = c.lo /\ d.hi = c.hi + 1 /\ d.P[c.hi + 1] = b /\ d.P[c.hi] = c.P[c.hi]
  BY <1>1, <1>15 DEF MoreNumbers, SameLists
<1>17. At(c.P[c.hi], V.l, curr) /\ c.P[c.hi].l <= V.l /\ c.P[c.hi].l \in Nat
  <2>1. At(c.P[c.hi], V.l, curr)
    BY <1>2 DEF Ordered
  <2> QED
    BY <1>1, <2>1, PlaceFields DEF At
<1>18. PICK T : T \in CmdTag /\ T.l = V.l /\ T.m = curr /\ T.x = c.hi /\ T.p = q
  <2>1. PICK T : T = [l |-> V.l, m |-> curr, x |-> c.hi, p |-> q]
    OBVIOUS
  <2>2. T \in CmdTag
    BY <1>1, <1>4, <1>7, <2>1 DEF CmdTag
  <2> QED
    BY <2>1, <2>2
<1>19. CmdTagged(f.S, i, n, d, T, k)
  <2>1. ~InOneLine(f.S, V.l)
    BY <1>3 DEF VdTagged
  <2>2. c.hi \in d.lo .. d.hi - 1
    BY <1>1, <1>16
  <2>3. At(d.P[c.hi], V.l, curr) /\ d.P[c.hi + 1] = Behind(V.l, curr, k, q.end_of_burst)
    BY <1>13, <1>16, <1>17
  <2>4. q.dynamic_id = c.hi % IdMod
    BY <1>12
  <2> QED
    BY <1>12, <1>18, <2>1, <2>2, <2>3, <2>4 DEF CmdTagged
<1>20. dynamic_burst_id' = Succ(dynamic_burst_id)
  <2>1. V.p.id # StopId
    BY <1>4, Sizes
  <2> QED
    BY <1>8, <2>1 DEF Sent, NumberAfter
<1>21. /\ Len(cmd[e]) < CmdDepth /\ cmd' = [cmd EXCEPT ![e] = Append(cmd[e], T.p)]
       /\ UNCHANGED <<asked, input, vs_pc, sync_id, sync_burst_id, update, running, j, sync,
                      intra_id, inter_id, inter_out, selected, next_vertex, update_id, pending,
                      shown>>
  BY <1>8, <1>12, <1>18 DEF Sent
<1>22. \E q2 : MoreNumbers(c, d, q2) /\ c.P[c.hi].l <= q2.l
  <2>1. c.P[c.hi].l <= b.l
    BY <1>4, <1>14, <1>17
  <2> QED
    BY <1>15, <2>1
<1>23. CASE curr + k = Lines(V.p)
  <2>1. burst_vd' = Tail(burst_vd) /\ curr' = 0 /\ b.l = V.l + 1 /\ b.m = 0
    BY <1>8, <1>12, <1>14, <1>23 DEF Sent
  <2>2. PICK x \in VdSet : x.T = v.T /\ x.p = v.p + 1 /\ x.q = v.q /\ x.z = v.z
    <3> DEFINE x == [v EXCEPT !.p = v.p + 1]
    <3>1. v.p + 1 \in Nat
      BY <1>1
    <3>2. x \in VdSet /\ x.T = v.T /\ x.p = v.p + 1 /\ x.q = v.q /\ x.z = v.z
      BY <3>1 DEF VdSet
    <3> QED
      BY <3>2
  <2>3. Vds(f.S, i, n, x)'
    <3>1. \A r : r \in v.p + 1 .. v.q - 1 => r \in v.p .. v.q - 1
      BY <1>1
    <3>2. /\ \A r \in v.p .. v.q - 1 : VdTagged(f.S, i, n, v.T[r])
          /\ \A r, m \in v.p .. v.q - 1 : r < m => v.T[r].l < v.T[m].l
      BY DEF Vds
    <3> QED
      BY <1>6, <2>1, <2>2, <3>1, <3>2 DEF Vds
  <2>4. Generated(x)'
    <3>1. ASSUME x.p < x.q
          PROVE  0 < Lines(x.T[x.p].p) /\ \E h \in Nat : 0 = h * MaxBurst
      <4>1. v.p + 1 \in v.p .. v.q - 1 /\ v.p + 1 \in Nat
        BY <1>1, <2>2, <3>1
      <4>2. v.T[v.p + 1] \in VdTag /\ VdTagged(f.S, i, n, v.T[v.p + 1])
        BY <4>1, VdFields DEF Vds
      <4>3. Lines(v.T[v.p + 1].p) \in Nat /\ Lines(v.T[v.p + 1].p) > 1
        BY <4>2, VdList
      <4>4. 0 < Lines(v.T[v.p + 1].p)
        BY <4>3
      <4>5. 0 = 0 * MaxBurst /\ 0 \in Nat
        BY <1>1
      <4> QED
        BY <2>2, <4>4, <4>5
    <3>2. 0 \in Nat
      OBVIOUS
    <3> QED
      BY <2>1, <3>1, <3>2 DEF Generated
  <2>5. Ordered(n, x, d)'
    <3>1. d.P[d.hi] = b /\ b.l <= n /\ b.m = 0
      BY <1>14, <1>16, <2>1
    <3>2. ASSUME x.p < x.q PROVE At(b, x.T[x.p].l, 0)
      <4>1. v.p \in v.p .. v.q - 1 /\ v.p + 1 \in v.p .. v.q - 1 /\ v.p < v.p + 1 /\ v.p + 1 \in Nat
        BY <1>1, <2>2, <3>2
      <4>2. v.T[v.p].l < v.T[v.p + 1].l /\ v.T[v.p + 1].l \in Nat
        BY <4>1, VdFields DEF Vds
      <4>3. V.l + 1 <= v.T[v.p + 1].l
        BY <1>2, <1>4, <4>2
      <4> QED
        BY <2>1, <2>2, <4>3 DEF At
    <3> QED
      BY <2>1, <3>1, <3>2 DEF Ordered
  <2>6. NewCommand(f, i, n, v, c, e, k, x, d, T)
    BY <1>9, <1>18, <1>19, <1>20, <1>21, <1>22, <2>2, <2>3, <2>4, <2>5 DEF NewCommand
  <2> QED
    BY <1>15, <1>18, <2>2, <2>6
<1>24. CASE curr + k # Lines(V.p)
  <2>1. burst_vd' = burst_vd /\ curr' = curr + k /\ b.l = V.l /\ b.m = curr + k
    BY <1>8, <1>12, <1>14, <1>24 DEF Sent
  <2>2. Vds(f.S, i, n, v)'
    BY <2>1, KeepFront
  <2>3. Generated(v)'
    <3>1. curr + k \in Nat /\ curr + k < Lines(V.p)
      BY <1>4, <1>7, <1>10, <1>24
    <3>2. ASSUME curr + k + MaxBurst <= Lines(V.p) PROVE \E h \in Nat : curr + k = h * MaxBurst
      <4>1. curr + MaxBurst <= Lines(V.p)
        BY <1>1, <1>4, <1>7, <1>10, <3>2
      <4>2. k = MaxBurst
        BY <1>9, <4>1
      <4>3. PICK h \in Nat : curr = h * MaxBurst
        BY <1>7, <4>1
      <4>4. h * MaxBurst + MaxBurst = (h + 1) * MaxBurst
        BY <1>1, Multiple
      <4>5. h + 1 \in Nat
        OBVIOUS
      <4> QED
        BY <4>2, <4>3, <4>4, <4>5
    <3>3. v.p # v.q
      BY <1>1
    <3> QED
      BY <1>2, <2>1, <3>1, <3>2, <3>3 DEF Generated
  <2>4. Ordered(n, v, d)'
    <3>1. d.P[d.hi] = b /\ b.l <= n
      BY <1>14, <1>16
    <3>2. At(b, V.l, curr + k)
      BY <1>4, <1>14, <2>1 DEF At
    <3> QED
      BY <1>2, <2>1, <3>1, <3>2 DEF Ordered
  <2>5. NewCommand(f, i, n, v, c, e, k, v, d, T)
    BY <1>9, <1>18, <1>19, <1>20, <1>21, <1>22, <2>2, <2>3, <2>4 DEF NewCommand
  <2> QED
    BY <1>15, <1>18, <2>5
<1> QED
  BY <1>23, <1>24

\* cmd_generator has a list: nothing behind it is stopped.
LEMMA NotStopped ==
  ASSUME NEW u, NEW v \in VdSet, NEW a \in EngineSet, NEW y \in LongSet, Stops(u, v, a, y), v.p < v.q
  PROVE  /\ a.z = 0 /\ y.z = 0 /\ (vs_pc = "done" => v.z = 1)
         /\ UNCHANGED <<running, vs_pc>> =>
              \A x, b, d : x.z = v.z /\ b.z = 0 /\ d.z = 0 => Stops(u, x, b, d)'
<1>1. a.z \in {0, 1} /\ y.z \in {0, 1} /\ v.z \in {0, 1} /\ v.p # v.q
  <2>1. v.p # v.q
    BY VdFields
  <2> QED
    BY <2>1, VdFields, EngineFields, LongFields DEF Bit
<1>2. a.z = 0 /\ y.z = 0 /\ running["one"] /\ running["long"] /\ (vs_pc = "done" => v.z = 1)
  BY <1>1 DEF Stops
<1>3. ASSUME UNCHANGED <<running, vs_pc>>, NEW x, NEW b, NEW d, x.z = v.z, b.z = 0, d.z = 0
      PROVE  Stops(u, x, b, d)'
  <2>1. /\ u.z = 1 => running["single"]
        /\ u.z = 1 \/ ~running["single"] => vs_pc \in {"stop_dynamic", "done"}
        /\ ~running["single"] => u.k2 = u.k3
        /\ v.z = 1 => vs_pc = "done"
    BY DEF Stops
  <2>2. running' = running /\ vs_pc' = vs_pc
    BY <1>3
  <2> QED
    BY <1>2, <1>3, <2>1, <2>2 DEF Stops
<1> QED
  BY <1>2, <1>3

\* A command is written behind the others.
LEMMA CommandedPut ==
  ASSUME NEW s, NEW a, a.k2 \in Nat, a.k3 \in Nat, a.z = 0, Commanded(s, a),
         NEW T, NEW b, MoreCommands(a, b, T)
  PROVE  Commanded(Append(s, T.p), b) /\ IsSeq(s)
<1>1. PICK stop : Holds(s, PkgOf(a.T), a.k2, a.k3, 0, stop) /\ stop.id = StopId
  BY DEF Commanded
<1>2. /\ b.T[a.k3] = T /\ SameLists(a.T, b.T, a.k3)
      /\ b.k2 = a.k2 /\ b.k3 = a.k3 + 1 /\ b.z = 0
  BY DEF MoreCommands
<1>3. SameLists(PkgOf(a.T), PkgOf(b.T), a.k3) /\ PkgOf(b.T)[a.k3] = T.p
  BY <1>2, SameTags DEF PkgOf
<1>4. Holds(Append(s, T.p), PkgOf(b.T), a.k2, a.k3 + 1, 0, stop)
  BY <1>1, <1>3, HoldsBehind
<1>5. IsSeq(s)
  BY <1>1 DEF Holds
<1> QED
  BY <1>1, <1>2, <1>4, <1>5 DEF Commanded

\* A long burst whose lines are in the stream, or that is being read, is one of
\* the commands.
LEMMA LongPlace ==
  ASSUME NEW y \in LongSet, LongLines(y), y.r1 <= y.r2
  PROVE  y.r1 < y.r2 \/ y.R[y.r1].n # 0 => y.k1 < y.k3
<1>1. y.r1 \in Nat /\ y.r2 \in Nat /\ y.k1 \in Nat /\ y.k3 \in Nat
  BY LongFields
<1>2. CASE y.r1 < y.r2
  <2>1. y.r1 \in y.r1 .. y.r2 - 1
    BY <1>1, <1>2
  <2> QED
    BY <2>1 DEF LongLines, LinesFollow
<1>3. CASE ~(y.r1 < y.r2)
  <2>1. y.r1 = y.r2
    BY <1>1, <1>3
  <2>2. y.R[y.r2].k = y.k2 /\ y.R[y.r2].n = j /\ y.R[y.r1].k = y.k1 /\ (j # 0 => y.k2 < y.k3)
    BY DEF LongLines
  <2> QED
    BY <1>3, <2>1, <2>2
<1> QED
  BY <1>2, <1>3

\* The records of the numbers and of the commands have grown: intra_merge is at
\* the same place.
LEMMA LinkedStay ==
  ASSUME NEW y \in LongSet, NEW c \in NumberSet, c.lo <= c.hi, NEW g, Linked(y, c, g),
         NEW d, NEW q, MoreNumbers(c, d, q)
  PROVE  /\ Linked(y, d, g)
         /\ LongLines(y) /\ y.r1 <= y.r2 =>
              \A b, T : MoreCommands(y, b, T) /\ b.R = y.R /\ b.r1 = y.r1 => Linked(b, d, g)
<1>1. c.lo \in Nat /\ c.hi \in Nat
  BY PlaceFields
<1>2. c.lo < c.hi + 1
  BY <1>1
<1>3. d.lo = c.lo /\ d.P[c.lo] = c.P[c.lo]
  BY <1>1, <1>2 DEF MoreNumbers, SameLists
<1>4. Linked(y, d, g)
  BY <1>3 DEF Linked
<1>5. ASSUME LongLines(y), y.r1 <= y.r2, NEW b, NEW T, MoreCommands(y, b, T), b.R = y.R, b.r1 = y.r1
      PROVE  Linked(b, d, g)
  <2>1. b.k1 = y.k1 /\ \A r \in Nat : r < y.k3 => b.T[r] = y.T[r]
    BY <1>5 DEF MoreCommands, SameLists
  <2>2. y.R[y.r1].n # 0 => y.k1 < y.k3
    BY <1>5, LongPlace
  <2>3. y.k1 \in Nat
    BY LongFields
  <2>4. y.R[y.r1].n # 0 => b.T[b.k1] = y.T[y.k1]
    BY <2>1, <2>2, <2>3
  <2> QED
    BY <1>4, <1>5, <2>4 DEF Linked
<1> QED
  BY <1>4, <1>5

\* cmd_generator sends a line.
LEMMA CmdOneStep ==
  ASSUME Rest, NEW f \in FrontSet, NEW w \in Seq(Nat), NEW u \in EngineSet, NEW v \in VdSet,
         NEW a \in EngineSet, NEW y \in LongSet, NEW c \in NumberSet, NEW g \in MergedSet,
         NEW o \in OutSet, Parts(f, w, u, v, a, y, c, g, o), v.p < v.q,
         NEW k, NEW x \in VdSet, NEW d \in NumberSet, NEW T \in CmdTag,
         NewCommand(f, o.i, f.B[f.s], v, c, "one", k, x, d, T)
  PROVE  BurstInv'
<1>1. PICK S, i, n : S = f.S /\ i = o.i /\ n = f.B[f.s]
  OBVIOUS
<1>2. /\ k = 1 /\ Len(cmd["one"]) < CmdDepth /\ cmd' = [cmd EXCEPT !["one"] = Append(cmd["one"], T.p)]
      /\ T.x = c.hi /\ CmdTagged(S, i, n, d, T, 1)
      /\ dynamic_burst_id' = Succ(dynamic_burst_id)
      /\ x.z = v.z /\ Vds(S, i, n, x)' /\ Generated(x)' /\ Ordered(n, x, d)'
      /\ UNCHANGED <<asked, input, vs_pc, sync_id, sync_burst_id, update, running, j, sync,
                     intra_id, inter_id, inter_out, selected, next_vertex, update_id, pending,
                     shown>>
  BY <1>1 DEF NewCommand
<1>3. PICK q : MoreNumbers(c, d, q) /\ c.P[c.hi].l <= q.l
  BY DEF NewCommand
<1>4. PICK b \in EngineSet : MoreCommands(a, b, T)
  BY CommandsGrow
<1>5. /\ Stops(u, v, a, y) /\ OneStreams(a) /\ Commands(S, i, n, c, a, 1)
      /\ Commands(S, i, n, c, y, MaxBurst) /\ Counted(a, y, c) /\ Linked(y, c, g)
  BY <1>1 DEF Parts
<1>6. a.k1 \in Nat /\ a.k2 \in Nat /\ a.k3 \in Nat /\ y.k1 \in Nat /\ y.k3 \in Nat
  BY EngineFields, LongFields
<1>7. a.k1 <= a.k3 /\ a.k2 <= a.k3 /\ y.k1 <= y.k3
  <2>1. /\ Holds(sync["one"], OneOf(a.T), a.k1, a.k2, 0, None)
        /\ \E stop : Holds(cmd["one"], PkgOf(a.T), a.k2, a.k3, a.z, stop)
    BY <1>5 DEF OneStreams, Commanded
  <2>2. a.k1 <= a.k2 /\ a.k2 <= a.k3
    BY <2>1 DEF Holds
  <2>3. y.k1 <= y.k2 /\ y.k2 <= y.k3 /\ y.k2 \in Nat
    BY LongFields DEF Parts, LongLines
  <2> QED
    BY <1>6, <2>2, <2>3
<1>8. a.z = 0 /\ b.z = 0 /\ y.z = 0
  BY <1>4, <1>5, NotStopped DEF MoreCommands
<1>9. /\ DOMAIN cmd' = Engines /\ cmd'["one"] = Append(cmd["one"], T.p)
      /\ cmd'["single"] = cmd["single"] /\ cmd'["long"] = cmd["long"]
  BY <1>2, StreamPut
<1>10. OneStreams(b)' /\ IsSeq(cmd["one"])
  <2>1. Commanded(Append(cmd["one"], T.p), b) /\ IsSeq(cmd["one"])
    BY <1>4, <1>5, <1>6, <1>8, CommandedPut DEF OneStreams
  <2>2. Holds(sync["one"], OneOf(b.T), b.k1, b.k2, 0, None)
    <3>1. SameLists(OneOf(a.T), OneOf(b.T), a.k3) /\ b.k1 = a.k1 /\ b.k2 = a.k2
      BY <1>4, SameTags DEF MoreCommands
    <3>2. 0 \in Bit
      BY DEF Bit
    <3>3. Holds(sync["one"], OneOf(a.T), a.k1, a.k2, 0, None)
      BY <1>5 DEF OneStreams
    <3>4. Holds(sync["one"], OneOf(b.T), a.k1, a.k2, 0, None)
      BY <1>6, <1>7, <3>1, <3>2, <3>3, HoldsOld
    <3> QED
      BY <3>1, <3>4
  <2>3. sync'["one"] = sync["one"]
    BY <1>2
  <2> QED
    BY <1>9, <2>1, <2>2, <2>3 DEF OneStreams, Commanded
<1>11. Commands(S, i, n, d, a, 1) /\ Commands(S, i, n, d, y, MaxBurst)
  BY <1>3, <1>5, CommandsKeep
<1>12. Commands(S, i, n, d, b, 1)
  <2>1. \A h \in a.k1 .. a.k3 - 1 : a.T[h].x < T.x
    <3>1. \A h \in a.k1 .. a.k3 - 1 : a.T[h].x < c.hi
      BY <1>5, CommandNumbers
    <3> QED
      BY <1>2, <3>1
  <2> QED
    BY <1>2, <1>4, <1>6, <1>7, <1>11, <2>1, CommandsPut
<1>13. Counted(b, y, d)'
  <2>1. /\ Commands(S, i, n, c, a, 1) /\ Commands(S, i, n, c, y, MaxBurst) /\ Counted(a, y, c)
        /\ MoreNumbers(c, d, q) /\ c.P[c.hi].l <= q.l /\ T.x = c.hi
        /\ dynamic_burst_id' = Succ(dynamic_burst_id) /\ UNCHANGED intra_id
    BY <1>2, <1>3, <1>5
  <2> QED
    BY <1>4, <1>6, <1>7, <2>1, CountedPut
<1>14. Linked(y, d, g)
  <2>1. c.lo <= c.hi
    BY <1>5 DEF Counted
  <2> QED
    BY <1>3, <1>5, <2>1, LinkedStay
<1>15. Stops(u, x, b, y)'
  BY <1>2, <1>5, <1>8, NotStopped
<1>16. Rest'
  <2>1. Len(cmd'["one"]) <= CmdDepth
    BY <1>2, <1>9, <1>10, Sizes, WithinDepth
  <2> QED
    BY <1>2, <1>9, <2>1 DEF Rest
<1>17. Parts(f, w, u, x, b, y, d, g, o)'
  <2>1. UNCHANGED <<cmd["single"], cmd["long"], sync["single"], sync["long"], sync["dynamic"]>>
    BY <1>2, <1>9
  <2>2. Requests(f)' /\ Numbering(f)' /\ Empties(f, w)' /\ Singles(f.S, o.i, f.B[f.s], u)'
    BY <1>2, <2>1, KeepFront DEF Parts
  <2>3. /\ LongStreams(y)'
        /\ LongLines(y)'
        /\ Merged(f.S, o.i, f.B[f.s], g)'
        /\ Joined(f.S, f.B[f.s], g, o)'
    BY <1>2, <2>1, KeepBack DEF Parts
  <2>4. Out(f.S, f.B[f.s], o)' /\ Sampled(f.S, f.B[f.b], f.B[f.s], o)'
    BY <1>2, KeepBack DEF Parts
  <2>5. Vds(f.S, o.i, f.B[f.s], x)' /\ Generated(x)' /\ Ordered(f.B[f.s], x, d)'
    BY <1>1, <1>2
  <2>6. /\ Commands(f.S, o.i, f.B[f.s], d, b, 1)' /\ Commands(f.S, o.i, f.B[f.s], d, y, MaxBurst)'
        /\ Linked(y, d, g)'
    BY <1>1, <1>11, <1>12, <1>14, KeepBack
  <2> QED
    BY <1>10, <1>13, <1>15, <2>2, <2>3, <2>4, <2>5, <2>6 DEF Parts
<1> QED
  BY <1>16, <1>17 DEF BurstInv

\* The lines of long bursts, when there is a burst more.
LEMMA LongLinesPut ==
  ASSUME NEW y \in LongSet, LongLines(y), NEW T, NEW b, MoreCommands(y, b, T),
         b.R = y.R, b.r1 = y.r1, b.r2 = y.r2
  PROVE  /\ LongLines(b)
         /\ \A r \in y.r1 .. y.r2 - 1 : LongOf(b.T, b.R)[r] = LongOf(y.T, y.R)[r]
<1>1. /\ y.k1 \in Nat /\ y.k2 \in Nat /\ y.k3 \in Nat /\ y.r1 \in Nat /\ y.r2 \in Nat
      /\ \A r \in Nat : y.R[r].k \in Nat
  BY LongFields
<1>2. /\ b.k1 = y.k1 /\ b.k2 = y.k2 /\ b.k3 = y.k3 + 1
      /\ \A h \in Nat : h < y.k3 => b.T[h] = y.T[h]
  BY DEF MoreCommands, SameLists
<1>3. /\ y.k1 <= y.k2 /\ y.k2 <= y.k3 /\ y.R[y.r1].k = y.k1
      /\ y.R[y.r2] = [k |-> y.k2, n |-> j]
      /\ j \in 0 .. MaxBurst - 1 /\ (j # 0 => y.k2 < y.k3)
      /\ LinesFollow(y.R, y.r1, y.r2, y.k3)
  BY DEF LongLines
<1>4. /\ \A r \in y.r1 .. y.r2 - 1 :
           y.R[r].k < y.k3 /\ y.R[r].n \in 0 .. MaxBurst - 1 /\ y.R[r + 1] = LineBehind(y.R[r])
      /\ \A r, m \in y.r1 .. y.r2 : r <= m => y.R[r].k <= y.R[m].k /\ y.R[m].k - y.R[r].k <= m - r
  BY <1>3 DEF LinesFollow
<1>5. \A r \in y.r1 .. y.r2 - 1 : r \in Nat /\ y.R[r].k \in Nat /\ y.R[r].k < y.k3 + 1
  <2>1. \A r \in y.r1 .. y.r2 - 1 : r \in Nat
    BY <1>1
  <2>2. \A h \in Nat : h < y.k3 => h < y.k3 + 1
    BY <1>1
  <2> QED
    BY <1>1, <1>4, <2>1, <2>2
<1>6. LinesFollow(y.R, y.r1, y.r2, y.k3 + 1)
  BY <1>4, <1>5 DEF LinesFollow
<1>7. y.k2 <= y.k3 + 1 /\ (j # 0 => y.k2 < y.k3 + 1)
  BY <1>1, <1>3
<1>8. LongLines(b)
  BY <1>2, <1>3, <1>6, <1>7 DEF LongLines
<1>9. ASSUME NEW r \in y.r1 .. y.r2 - 1 PROVE LongOf(b.T, b.R)[r] = LongOf(y.T, y.R)[r]
  <2>1. b.T[y.R[r].k] = y.T[y.R[r].k] /\ r \in Nat
    BY <1>2, <1>4, <1>5
  <2> QED
    BY <2>1 DEF LongOf
<1> QED
  BY <1>8, <1>9

\* cmd_generator sends a long burst.
LEMMA CmdLongStep ==
  ASSUME Rest, NEW f \in FrontSet, NEW w \in Seq(Nat), NEW u \in EngineSet, NEW v \in VdSet,
         NEW a \in EngineSet, NEW y \in LongSet, NEW c \in NumberSet, NEW g \in MergedSet,
         NEW o \in OutSet, Parts(f, w, u, v, a, y, c, g, o), v.p < v.q,
         NEW k, NEW x \in VdSet, NEW d \in NumberSet, NEW T \in CmdTag,
         NewCommand(f, o.i, f.B[f.s], v, c, "long", k, x, d, T)
  PROVE  BurstInv'
<1>1. PICK S, i, n : S = f.S /\ i = o.i /\ n = f.B[f.s]
  OBVIOUS
<1>2. /\ k = MaxBurst /\ Len(cmd["long"]) < CmdDepth
      /\ cmd' = [cmd EXCEPT !["long"] = Append(cmd["long"], T.p)]
      /\ T.x = c.hi /\ CmdTagged(S, i, n, d, T, MaxBurst)
      /\ dynamic_burst_id' = Succ(dynamic_burst_id)
      /\ x.z = v.z /\ Vds(S, i, n, x)' /\ Generated(x)' /\ Ordered(n, x, d)'
      /\ UNCHANGED <<asked, input, vs_pc, sync_id, sync_burst_id, update, running, j, sync,
                     intra_id, inter_id, inter_out, selected, next_vertex, update_id, pending,
                     shown>>
  BY <1>1 DEF NewCommand
<1>3. PICK q : MoreNumbers(c, d, q) /\ c.P[c.hi].l <= q.l
  BY DEF NewCommand
<1>4. PICK b \in LongSet : MoreCommands(y, b, T) /\ b.R = y.R /\ b.r1 = y.r1 /\ b.r2 = y.r2
  BY CommandsGrow
<1>5. /\ Stops(u, v, a, y) /\ OneStreams(a) /\ Commands(S, i, n, c, a, 1)
      /\ Commands(S, i, n, c, y, MaxBurst) /\ Counted(a, y, c) /\ Linked(y, c, g)
      /\ LongStreams(y) /\ LongLines(y)
  BY <1>1 DEF Parts
<1>6. /\ a.k1 \in Nat /\ a.k2 \in Nat /\ a.k3 \in Nat
      /\ y.k1 \in Nat /\ y.k2 \in Nat /\ y.k3 \in Nat /\ y.r1 \in Nat /\ y.r2 \in Nat
  BY EngineFields, LongFields
<1>7. a.k1 <= a.k3 /\ y.k1 <= y.k3 /\ y.r1 <= y.r2
  <2>1. /\ Holds(sync["one"], OneOf(a.T), a.k1, a.k2, 0, None)
        /\ \E stop : Holds(cmd["one"], PkgOf(a.T), a.k2, a.k3, a.z, stop)
    BY <1>5 DEF OneStreams, Commanded
  <2>2. a.k1 <= a.k2 /\ a.k2 <= a.k3
    BY <2>1 DEF Holds
  <2>3. y.k1 <= y.k2 /\ y.k2 <= y.k3
    BY <1>5 DEF LongLines
  <2>4. y.r1 <= y.r2
    BY <1>5 DEF LongStreams, Holds
  <2> QED
    BY <1>6, <2>2, <2>3, <2>4
<1>8. y.z = 0 /\ b.z = 0 /\ a.z = 0
  BY <1>4, <1>5, NotStopped DEF MoreCommands
<1>9. /\ DOMAIN cmd' = Engines /\ cmd'["long"] = Append(cmd["long"], T.p)
      /\ cmd'["single"] = cmd["single"] /\ cmd'["one"] = cmd["one"]
  BY <1>2, StreamPut
<1>18. LongLines(b) /\ \A r \in y.r1 .. y.r2 - 1 : LongOf(b.T, b.R)[r] = LongOf(y.T, y.R)[r]
  BY <1>4, <1>5, LongLinesPut
<1>10. LongStreams(b)' /\ IsSeq(cmd["long"])
  <2>1. Commanded(Append(cmd["long"], T.p), b) /\ IsSeq(cmd["long"])
    BY <1>4, <1>5, <1>6, <1>8, CommandedPut DEF LongStreams
  <2>2. Holds(sync["long"], LongOf(b.T, b.R), b.r1, b.r2, 0, None)
    <3>2. 0 \in Bit
      BY DEF Bit
    <3>3. Holds(sync["long"], LongOf(y.T, y.R), y.r1, y.r2, 0, None)
      BY <1>5 DEF LongStreams
    <3>4. Holds(sync["long"], LongOf(b.T, b.R), y.r1, y.r2, 0, None)
      BY <1>6, <1>18, <3>2, <3>3, HoldsSame
    <3> QED
      BY <1>4, <3>4
  <2>3. sync'["long"] = sync["long"]
    BY <1>2
  <2> QED
    BY <1>9, <2>1, <2>2, <2>3 DEF LongStreams, Commanded
<1>11. Commands(S, i, n, d, a, 1) /\ Commands(S, i, n, d, y, MaxBurst)
  BY <1>3, <1>5, CommandsKeep
<1>12. Commands(S, i, n, d, b, MaxBurst)
  <2>1. \A h \in y.k1 .. y.k3 - 1 : y.T[h].x < T.x
    <3>1. \A h \in y.k1 .. y.k3 - 1 : y.T[h].x < c.hi
      BY <1>5, CommandNumbers
    <3> QED
      BY <1>2, <3>1
  <2> QED
    BY <1>2, <1>4, <1>6, <1>7, <1>11, <2>1, CommandsPut
<1>13. Counted(a, b, d)'
  <2>1. /\ Commands(S, i, n, c, a, 1) /\ Commands(S, i, n, c, y, MaxBurst) /\ Counted(a, y, c)
        /\ MoreNumbers(c, d, q) /\ c.P[c.hi].l <= q.l /\ T.x = c.hi
        /\ dynamic_burst_id' = Succ(dynamic_burst_id) /\ UNCHANGED intra_id
    BY <1>2, <1>3, <1>5
  <2> QED
    BY <1>4, <1>6, <1>7, <2>1, CountedPut
<1>14. Linked(b, d, g)
  <2>1. c.lo <= c.hi
    BY <1>5 DEF Counted
  <2> QED
    BY <1>3, <1>4, <1>5, <1>7, <2>1, LinkedStay
<1>15. Stops(u, x, a, b)'
  BY <1>2, <1>5, <1>8, NotStopped
<1>16. Rest'
  <2>1. Len(cmd'["long"]) <= CmdDepth
    BY <1>2, <1>9, <1>10, Sizes, WithinDepth
  <2> QED
    BY <1>2, <1>9, <2>1 DEF Rest
<1>17. Parts(f, w, u, x, a, b, d, g, o)'
  <2>1. UNCHANGED <<cmd["single"], cmd["one"], sync["single"], sync["one"], sync["dynamic"]>>
    BY <1>2, <1>9
  <2>2. Requests(f)' /\ Numbering(f)' /\ Empties(f, w)' /\ Singles(f.S, o.i, f.B[f.s], u)'
    BY <1>2, <2>1, KeepFront DEF Parts
  <2>3. OneStreams(a)' /\ Merged(f.S, o.i, f.B[f.s], g)' /\ Joined(f.S, f.B[f.s], g, o)'
    BY <1>2, <2>1, KeepBack DEF Parts
  <2>4. Out(f.S, f.B[f.s], o)' /\ Sampled(f.S, f.B[f.b], f.B[f.s], o)'
    BY <1>2, KeepBack DEF Parts
  <2>5. Vds(f.S, o.i, f.B[f.s], x)' /\ Generated(x)' /\ Ordered(f.B[f.s], x, d)'
    BY <1>1, <1>2
  <2>6. /\ Commands(f.S, o.i, f.B[f.s], d, a, 1)' /\ Commands(f.S, o.i, f.B[f.s], d, b, MaxBurst)'
        /\ Linked(b, d, g)'
    BY <1>1, <1>11, <1>12, <1>14, KeepBack
  <2>7. LongLines(b)'
    BY <1>2, <1>18, KeepBack
  <2> QED
    BY <1>10, <1>13, <1>15, <2>2, <2>3, <2>4, <2>5, <2>6, <2>7 DEF Parts
<1> QED
  BY <1>16, <1>17 DEF BurstInv

\* A stop packet is written behind the commands.
LEMMA StopPut ==
  ASSUME NEW s, NEW a, a.k2 \in Nat, a.k3 \in Nat, a.z = 0, Commanded(s, a),
         NEW p, p.id = StopId, NEW b, b.T = a.T, b.k2 = a.k2, b.k3 = a.k3, b.z = 1
  PROVE  Commanded(Append(s, p), b) /\ IsSeq(s)
<1>1. PICK stop : Holds(s, PkgOf(a.T), a.k2, a.k3, 0, stop)
  BY DEF Commanded
<1>2. Holds(s, PkgOf(a.T), a.k2, a.k3, 0, p)
  BY <1>1, NoStopHeld
<1>3. Holds(Append(s, p), PkgOf(a.T), a.k2, a.k3, 1, p)
  BY <1>2, HoldsPush
<1>4. IsSeq(s)
  BY <1>1 DEF Holds
<1> QED
  BY <1>3, <1>4 DEF Commanded

\* What cmd_generator does with the descriptor that stops the engines.
LEMMA StopSent ==
  ASSUME NEW S, NEW i, NEW n, NEW v \in VdSet, Vds(S, i, n, v), Generated(v), v.p = v.q, CmdGenerator
  PROVE  /\ v.z = 1 /\ dynamic_burst_id' = dynamic_burst_id
         /\ UNCHANGED <<asked, input, vs_pc, sync_id, sync_burst_id, update, running, j, sync,
                        intra_id, inter_id, inter_out, selected, next_vertex, update_id, pending,
                        shown>>
         /\ \E e, p : /\ p.id = StopId /\ Len(cmd[e]) < CmdDepth
                      /\ cmd' = [cmd EXCEPT ![e] = Append(cmd[e], p)]
                      /\ \/ e = "long" /\ curr = 0 /\ curr' = MaxBurst /\ burst_vd' = burst_vd
                         \/ /\ e = "one" /\ curr = MaxBurst /\ curr' = 0
                            /\ Holds(burst_vd', PkgOf(v.T), v.p, v.q, 0, StopVd)
<1>1. v.p \in Nat /\ v.z \in Bit /\ MaxBurst \in Nat /\ MaxBurst > 1
  BY VdFields, Sizes
<1>2. burst_vd # <<>> /\ Holds(burst_vd, PkgOf(v.T), v.p, v.p, v.z, StopVd)
  BY DEF CmdGenerator, Vds
<1>3. v.z = 1 /\ Head(burst_vd) = StopVd /\ Holds(Tail(burst_vd), PkgOf(v.T), v.p, v.p, 0, StopVd)
  BY <1>1, <1>2, StopPop
<1>4. curr \in {0, MaxBurst}
  BY <1>3 DEF Generated
<1>5. PICK e, k : Sent(StopVd, e, k)
  <2>1. curr \in Nat /\ StopVd.start \in Nat
    BY <1>1, <1>4, StopList
  <2> QED
    BY <1>3, <2>1, StopList, CmdSends
<1>6. /\ e \in {"one", "long"} /\ k = IF e = "long" THEN MaxBurst ELSE 1
      /\ e = "long" <=> curr + MaxBurst <= MaxBurst + 1
      /\ curr + k = MaxBurst + 1 => burst_vd' = Tail(burst_vd) /\ curr' = 0
      /\ curr + k # MaxBurst + 1 => burst_vd' = burst_vd /\ curr' = curr + k
  BY <1>5, StopList DEF Sent
<1>7. PICK p : p = DynamicCmd(StopVd, LineOf(StopVd.start) + curr * LineWords, k)
  OBVIOUS
<1>8. p.id = StopId
  BY <1>7, StopList DEF DynamicCmd
<1>9. /\ Len(cmd[e]) < CmdDepth /\ cmd' = [cmd EXCEPT ![e] = Append(cmd[e], p)]
      /\ UNCHANGED <<asked, input, vs_pc, sync_id, sync_burst_id, update, running, j, sync,
                     intra_id, inter_id, inter_out, selected, next_vertex, update_id, pending,
                     shown>>
  BY <1>5, <1>7 DEF Sent
<1>10. dynamic_burst_id' = dynamic_burst_id
  BY <1>5, StopList DEF Sent, NumberAfter
<1>11. CASE curr = 0
  <2>1. e = "long" /\ k = MaxBurst
    BY <1>1, <1>6, <1>11
  <2>2. curr + k # MaxBurst + 1 /\ curr + k = MaxBurst
    BY <1>1, <1>11, <2>1
  <2> QED
    BY <1>3, <1>6, <1>8, <1>9, <1>10, <1>11, <2>1, <2>2
<1>12. CASE curr = MaxBurst
  <2>1. e = "one" /\ k = 1
    BY <1>1, <1>6, <1>12
  <2>2. curr + k = MaxBurst + 1
    BY <1>1, <1>12, <2>1
  <2>3. Holds(burst_vd', PkgOf(v.T), v.p, v.q, 0, StopVd)
    BY <1>3, <1>6, <2>2
  <2> QED
    BY <1>3, <1>6, <1>8, <1>9, <1>10, <1>12, <2>1, <2>2, <2>3
<1> QED
  BY <1>4, <1>11, <1>12

\* cmd_generator stops the engines, dynamic_burst_32 first.
LEMMA CmdStopStep ==
  ASSUME Rest, NEW f \in FrontSet, NEW w \in Seq(Nat), NEW u \in EngineSet, NEW v \in VdSet,
         NEW a \in EngineSet, NEW y \in LongSet, NEW c \in NumberSet, NEW g \in MergedSet,
         NEW o \in OutSet, Parts(f, w, u, v, a, y, c, g, o), v.p = v.q, CmdGenerator
  PROVE  BurstInv'
<1>1. /\ Vds(f.S, o.i, f.B[f.s], v) /\ Generated(v) /\ OneStreams(a) /\ LongStreams(y)
      /\ Stops(u, v, a, y) /\ Ordered(f.B[f.s], v, c)
  BY DEF Parts
<1>2. /\ v.z = 1 /\ dynamic_burst_id' = dynamic_burst_id
      /\ UNCHANGED <<asked, input, vs_pc, sync_id, sync_burst_id, update, running, j, sync,
                     intra_id, inter_id, inter_out, selected, next_vertex, update_id, pending,
                     shown>>
  BY <1>1, StopSent
<1>3. PICK e, p :
        /\ p.id = StopId /\ Len(cmd[e]) < CmdDepth
        /\ cmd' = [cmd EXCEPT ![e] = Append(cmd[e], p)]
        /\ \/ e = "long" /\ curr = 0 /\ curr' = MaxBurst /\ burst_vd' = burst_vd
           \/ /\ e = "one" /\ curr = MaxBurst /\ curr' = 0
              /\ Holds(burst_vd', PkgOf(v.T), v.p, v.q, 0, StopVd)
  BY <1>1, StopSent
<1>4. MaxBurst \in Nat /\ MaxBurst > 1 /\ v.p \in Nat /\ CmdDepth \in Nat
  BY Sizes, VdFields
<1>10. /\ Requests(f)' /\ Numbering(f)' /\ Empties(f, w)'
       /\ Commands(f.S, o.i, f.B[f.s], c, a, 1)' /\ Commands(f.S, o.i, f.B[f.s], c, y, MaxBurst)'
       /\ LongLines(y)' /\ Counted(a, y, c)' /\ Linked(y, c, g)'
       /\ Joined(f.S, f.B[f.s], g, o)' /\ Out(f.S, f.B[f.s], o)' /\ Sampled(f.S, f.B[f.b], f.B[f.s], o)'
  BY <1>2, KeepFront, KeepBack DEF Parts
<1>5. CASE e = "long" /\ curr = 0 /\ curr' = MaxBurst /\ burst_vd' = burst_vd
  <2>1. y.z = 0 /\ running["long"]
    BY <1>1, <1>2, <1>5 DEF Stops
  <2>2. PICK b \in LongSet :
          /\ b.T = y.T /\ b.k1 = y.k1 /\ b.k2 = y.k2 /\ b.k3 = y.k3 /\ b.z = 1
          /\ b.R = y.R /\ b.r1 = y.r1 /\ b.r2 = y.r2
    <3> DEFINE b == [y EXCEPT !.z = 1]
    <3>1. /\ b \in LongSet /\ b.T = y.T /\ b.k1 = y.k1 /\ b.k2 = y.k2 /\ b.k3 = y.k3 /\ b.z = 1
          /\ b.R = y.R /\ b.r1 = y.r1 /\ b.r2 = y.r2
      BY DEF LongSet, Bit
    <3> QED
      BY <3>1
  <2>3. /\ DOMAIN cmd' = Engines /\ cmd'["long"] = Append(cmd["long"], p)
        /\ cmd'["single"] = cmd["single"] /\ cmd'["one"] = cmd["one"]
    <3>1. cmd' = [cmd EXCEPT !["long"] = Append(cmd["long"], p)]
      BY <1>3, <1>5
    <3> QED
      BY <3>1, StreamPut
  <2>4. Commanded(cmd'["long"], b) /\ IsSeq(cmd["long"])
    <3>1. Commanded(cmd["long"], y) /\ y.k2 \in Nat /\ y.k3 \in Nat /\ p.id = StopId
      BY <1>1, <1>3, LongFields DEF LongStreams
    <3> QED
      BY <2>1, <2>2, <2>3, <3>1, StopPut
  <2>5. LongStreams(b)'
    <3>1. Holds(sync["long"], LongOf(y.T, y.R), y.r1, y.r2, 0, None) /\ sync' = sync
      BY <1>1, <1>2 DEF LongStreams
    <3> QED
      BY <2>2, <2>4, <3>1 DEF LongStreams, Commanded
  <2>6. /\ Commands(f.S, o.i, f.B[f.s], c, b, MaxBurst)' /\ Counted(a, b, c)' /\ Linked(b, c, g)'
        /\ LongLines(b)'
    BY <1>10, <2>2 DEF Commands, Counted, Linked, LongLines
  <2>7. Vds(f.S, o.i, f.B[f.s], v)' /\ Generated(v)' /\ Ordered(f.B[f.s], v, c)'
    BY <1>1, <1>2, <1>4, <1>5 DEF Vds, Generated, Ordered
  <2>8. Stops(u, v, a, b)'
    BY <1>1, <1>2, <1>4, <1>5, <2>1, <2>2 DEF Stops
  <2>9. Rest'
    <3>1. Len(cmd["long"]) < CmdDepth
      BY <1>3, <1>5
    <3>2. Len(cmd'["long"]) <= CmdDepth
      BY <1>4, <2>3, <2>4, <3>1, WithinDepth
    <3> QED
      BY <1>2, <2>3, <3>2 DEF Rest
  <2>10. Parts(f, w, u, v, a, b, c, g, o)'
    <3>1. UNCHANGED <<cmd["single"], cmd["one"], sync["single"], sync["one"], sync["dynamic"]>>
      BY <1>2, <2>3
    <3>2. Singles(f.S, o.i, f.B[f.s], u)' /\ OneStreams(a)' /\ Merged(f.S, o.i, f.B[f.s], g)'
      BY <3>1, KeepFront, KeepBack DEF Parts
    <3> QED
      BY <1>10, <2>5, <2>6, <2>7, <2>8, <3>2 DEF Parts
  <2> QED
    BY <2>9, <2>10 DEF BurstInv
<1>6. CASE /\ e = "one" /\ curr = MaxBurst /\ curr' = 0
           /\ Holds(burst_vd', PkgOf(v.T), v.p, v.q, 0, StopVd)
  <2>1. a.z = 0 /\ running["one"]
    BY <1>1, <1>2, <1>6 DEF Stops
  <2>2. PICK b \in EngineSet :
          b.T = a.T /\ b.k1 = a.k1 /\ b.k2 = a.k2 /\ b.k3 = a.k3 /\ b.z = 1
    <3> DEFINE b == [a EXCEPT !.z = 1]
    <3>1. b \in EngineSet /\ b.T = a.T /\ b.k1 = a.k1 /\ b.k2 = a.k2 /\ b.k3 = a.k3 /\ b.z = 1
      BY DEF EngineSet, Bit
    <3> QED
      BY <3>1
  <2>11. PICK x \in VdSet : x.T = v.T /\ x.p = v.p /\ x.q = v.q /\ x.z = 0
    <3> DEFINE x == [v EXCEPT !.z = 0]
    <3>1. x \in VdSet /\ x.T = v.T /\ x.p = v.p /\ x.q = v.q /\ x.z = 0
      BY DEF VdSet, Bit
    <3> QED
      BY <3>1
  <2>3. /\ DOMAIN cmd' = Engines /\ cmd'["one"] = Append(cmd["one"], p)
        /\ cmd'["single"] = cmd["single"] /\ cmd'["long"] = cmd["long"]
    <3>1. cmd' = [cmd EXCEPT !["one"] = Append(cmd["one"], p)]
      BY <1>3, <1>6
    <3> QED
      BY <3>1, StreamPut
  <2>4. Commanded(cmd'["one"], b) /\ IsSeq(cmd["one"])
    <3>1. Commanded(cmd["one"], a) /\ a.k2 \in Nat /\ a.k3 \in Nat /\ p.id = StopId
      BY <1>1, <1>3, EngineFields DEF OneStreams
    <3> QED
      BY <2>1, <2>2, <2>3, <3>1, StopPut
  <2>5. OneStreams(b)'
    <3>1. Holds(sync["one"], OneOf(a.T), a.k1, a.k2, 0, None) /\ sync' = sync
      BY <1>1, <1>2 DEF OneStreams
    <3> QED
      BY <2>2, <2>4, <3>1 DEF OneStreams, Commanded
  <2>6. Commands(f.S, o.i, f.B[f.s], c, b, 1)' /\ Counted(b, y, c)'
    BY <1>10, <2>2 DEF Commands, Counted
  <2>7. Vds(f.S, o.i, f.B[f.s], x)' /\ Generated(x)' /\ Ordered(f.B[f.s], x, c)'
    BY <1>1, <1>2, <1>4, <1>6, <2>11 DEF Vds, Generated, Ordered
  <2>8. Stops(u, x, b, y)'
    BY <1>1, <1>2, <1>4, <1>6, <2>1, <2>2, <2>11 DEF Stops
  <2>9. Rest'
    <3>1. Len(cmd["one"]) < CmdDepth
      BY <1>3, <1>6
    <3>2. Len(cmd'["one"]) <= CmdDepth
      BY <1>4, <2>3, <2>4, <3>1, WithinDepth
    <3> QED
      BY <1>2, <2>3, <3>2 DEF Rest
  <2>10. Parts(f, w, u, x, b, y, c, g, o)'
    <3>1. UNCHANGED <<cmd["single"], cmd["long"], sync["single"], sync["long"], sync["dynamic"]>>
      BY <1>2, <2>3
    <3>2. Singles(f.S, o.i, f.B[f.s], u)' /\ LongStreams(y)' /\ Merged(f.S, o.i, f.B[f.s], g)'
      BY <3>1, KeepFront, KeepBack DEF Parts
    <3> QED
      BY <1>10, <2>5, <2>6, <2>7, <2>8, <3>2 DEF Parts
  <2> QED
    BY <2>9, <2>10 DEF BurstInv
<1> QED
  BY <1>3, <1>5, <1>6

\* cmd_generator writes a command.
LEMMA CmdGeneratorStep ==
  ASSUME Rest, NEW f \in FrontSet, NEW w \in Seq(Nat), NEW u \in EngineSet, NEW v \in VdSet,
         NEW a \in EngineSet, NEW y \in LongSet, NEW c \in NumberSet, NEW g \in MergedSet,
         NEW o \in OutSet, Parts(f, w, u, v, a, y, c, g, o), CmdGenerator
  PROVE  BurstInv'
<1>1. CASE v.p = v.q
  BY <1>1, CmdStopStep
<1>2. CASE v.p # v.q
  <2>1. /\ Requests(f) /\ Numbering(f) /\ Vds(f.S, o.i, f.B[f.s], v) /\ Generated(v)
        /\ Ordered(f.B[f.s], v, c) /\ c.lo <= c.hi /\ dynamic_burst_id = c.hi % IdMod
        /\ Out(f.S, f.B[f.s], o) /\ Sampled(f.S, f.B[f.b], f.B[f.s], o)
    BY DEF Parts, Counted
  <2>2. v.p < v.q
    <3>1. v.p \in Nat /\ v.q \in Nat
      BY VdFields
    <3>2. v.p <= v.q
      BY <2>1 DEF Vds, Holds
    <3> QED
      BY <1>2, <3>1, <3>2
  <2>3. PICK n : n = f.B[f.s] /\ n \in Nat /\ n <= f.B[f.e] /\ o.i \in Nat /\ FirstId <= o.i
    <3>1. /\ f.B[f.b] \in Nat /\ f.B[f.s] \in Nat /\ FirstId <= f.B[f.b] /\ f.B[f.s] <= f.B[f.e]
      BY <2>1, ListWindow
    <3>2. o.i \in Nat /\ o.t \in Nat /\ o.t <= o.i /\ f.B[f.b] <= o.t /\ FirstId \in Nat
      BY <2>1, PlaceFields, Sizes DEF Out, Sampled
    <3>3. FirstId <= o.i
      BY <3>1, <3>2
    <3> QED
      BY <3>1, <3>2, <3>3
  <2>4. \E e, k : \E x \in VdSet, d \in NumberSet, T \in CmdTag :
          NewCommand(f, o.i, n, v, c, e, k, x, d, T)
    BY <2>1, <2>2, <2>3, CommandSent
  <2>5. PICK e, k : \E x \in VdSet, d \in NumberSet, T \in CmdTag :
          NewCommand(f, o.i, f.B[f.s], v, c, e, k, x, d, T)
    BY <2>3, <2>4
  <2>6. PICK x \in VdSet, d \in NumberSet, T \in CmdTag :
          NewCommand(f, o.i, f.B[f.s], v, c, e, k, x, d, T)
    BY <2>5
  <2>7. e \in {"one", "long"}
    BY <2>6 DEF NewCommand
  <2>8. CASE e = "one"
    BY <2>2, <2>6, <2>8, CmdOneStep
  <2>9. CASE e = "long"
    BY <2>2, <2>6, <2>9, CmdLongStep
  <2> QED
    BY <2>7, <2>8, <2>9
<1> QED
  BY <1>1, <1>2

\* What is held is within the depth; a number is within a window.
LEMMA Within ==
  ASSUME NEW p \in Nat, NEW q \in Nat, NEW d \in Nat
  PROVE  /\ \A z \in Nat : \A n : n = (q - p) + z /\ n <= d => q - p <= d
         /\ \A x \in Nat : q - p <= d /\ x < q => x < p + d
OBVIOUS

\* There are no more commands behind cmd_generator than there are numbers.
LEMMA CommandWindow ==
  ASSUME Rest, NEW a \in EngineSet, NEW y \in LongSet, NEW c \in NumberSet,
         OneStreams(a), LongStreams(y), LongLines(y), Counted(a, y, c)
  PROVE  /\ c.hi - c.lo <= IdMod /\ c.lo \in Nat /\ c.hi \in Nat
         /\ a.k1 <= a.k2 /\ a.k2 <= a.k3 /\ y.r1 <= y.r2
<1>1. /\ a.k1 \in Nat /\ a.k2 \in Nat /\ a.k3 \in Nat /\ a.z \in Bit
      /\ y.k1 \in Nat /\ y.k2 \in Nat /\ y.k3 \in Nat /\ y.z \in Bit /\ y.r1 \in Nat /\ y.r2 \in Nat
      /\ c.lo \in Nat /\ c.hi \in Nat
  BY EngineFields, LongFields, PlaceFields
<1>2. a.z >= 0 /\ y.z >= 0 /\ a.z \in Nat /\ y.z \in Nat
  BY <1>1 DEF Bit
<1>3. PICK s1, s2 : /\ Holds(cmd["one"], PkgOf(a.T), a.k2, a.k3, a.z, s1)
                    /\ Holds(cmd["long"], PkgOf(y.T), y.k2, y.k3, y.z, s2)
  BY DEF OneStreams, LongStreams, Commanded
<1>4. a.k2 <= a.k3 /\ y.k2 <= y.k3 /\ a.k3 - a.k2 <= CmdDepth /\ y.k3 - y.k2 <= CmdDepth
  <2>1. /\ Len(cmd["one"]) = (a.k3 - a.k2) + a.z /\ Len(cmd["long"]) = (y.k3 - y.k2) + y.z
        /\ a.k2 <= a.k3 /\ y.k2 <= y.k3
    BY <1>3 DEF Holds
  <2>2. Len(cmd["one"]) <= CmdDepth /\ Len(cmd["long"]) <= CmdDepth
    BY DEF Rest
  <2> QED
    <3>1. CmdDepth \in Nat
      BY Sizes
    <3>2. a.k3 - a.k2 <= CmdDepth
      BY <1>1, <1>2, <2>1, <2>2, <3>1, Within
    <3>3. y.k3 - y.k2 <= CmdDepth
      BY <1>1, <1>2, <2>1, <2>2, <3>1, Within
    <3> QED
      BY <2>1, <3>2, <3>3
<1>5. a.k1 <= a.k2 /\ y.r1 <= y.r2 /\ a.k2 - a.k1 <= SyncDepth /\ y.r2 - y.r1 <= SyncDepth
  <2>1. /\ Len(sync["one"]) = (a.k2 - a.k1) + 0 /\ Len(sync["long"]) = (y.r2 - y.r1) + 0
        /\ a.k1 <= a.k2 /\ y.r1 <= y.r2
    BY DEF OneStreams, LongStreams, Holds
  <2>2. Len(sync["one"]) <= SyncDepth /\ Len(sync["long"]) <= SyncDepth
    BY DEF Rest
  <2> QED
    <3>1. SyncDepth \in Nat
      BY Sizes
    <3>2. a.k2 - a.k1 <= SyncDepth
      BY <1>1, <2>1, <2>2, <3>1, Within
    <3>3. y.r2 - y.r1 <= SyncDepth
      BY <1>1, <2>1, <2>2, <3>1, Within
    <3> QED
      BY <2>1, <3>2, <3>3
<1>6. y.k2 - y.k1 <= y.r2 - y.r1
  <2>1. y.r1 \in y.r1 .. y.r2 /\ y.r2 \in y.r1 .. y.r2
    BY <1>1, <1>5
  <2>2. y.R[y.r2].k - y.R[y.r1].k <= y.r2 - y.r1
    BY <1>5, <2>1 DEF LongLines, LinesFollow
  <2>3. y.R[y.r2].k = y.k2 /\ y.R[y.r1].k = y.k1
    BY DEF LongLines
  <2> QED
    BY <2>2, <2>3
<1>7. c.hi - c.lo = (a.k3 - a.k1) + (y.k3 - y.k1)
  BY DEF Counted
<1>8. c.hi - c.lo <= 2 * (CmdDepth + SyncDepth)
  BY <1>1, <1>4, <1>5, <1>6, <1>7, Sizes
<1>9. c.hi - c.lo <= IdMod
  BY <1>1, <1>8, Sizes
<1> QED
  BY <1>1, <1>4, <1>5, <1>9

\* so intra_merge finds the command it waits for.
LEMMA CommandFound ==
  ASSUME NEW c \in NumberSet, c.hi - c.lo <= IdMod, NEW x \in Nat, c.lo <= x, x < c.hi,
         x % IdMod = c.lo % IdMod
  PROVE  x = c.lo
<1>1. c.lo \in Nat /\ c.hi \in Nat /\ IdMod \in Nat /\ IdMod > 0
  BY PlaceFields, Sizes
<1>2. x < c.lo + IdMod
  BY <1>1, Within
<1> QED
  BY <1>1, <1>2, SameRemainder

\* Record h is record g with the line T behind it.
MoreLines(g, h, T) ==
    /\ h.G[g.g2] = T /\ SameLists(g.G, h.G, g.g2)
    /\ h.Q[g.g2 + 1] = Behind(T.l, T.m, 1, T.p.end_of_burst) /\ SameLists(g.Q, h.Q, g.g2 + 1)
    /\ h.g1 = g.g1 /\ h.g2 = g.g2 + 1

\* There is such a record.
LEMMA LinesGrow ==
  ASSUME NEW T \in LineTag, NEW g \in MergedSet
  PROVE  \E h \in MergedSet : MoreLines(g, h, T)
<1>1. g.G \in [Nat -> LineTag] /\ g.Q \in [Nat -> PlaceSet] /\ g.g2 \in Nat
  BY PlaceFields
<1>2. T.l \in Nat /\ T.m \in Nat /\ T.p.end_of_burst \in BOOLEAN
  BY DEF LineTag, LinePkg
<1>3. PICK b, e, k : b = Behind(T.l, T.m, 1, T.p.end_of_burst) /\ e = g.g2 + 1 /\ k = g.g2
  OBVIOUS
<1>4. b \in PlaceSet /\ e \in Nat /\ k \in Nat
  <2>1. 1 \in Nat
    OBVIOUS
  <2>2. PlaceBehind(Behind(T.l, T.m, 1, T.p.end_of_burst), T.l, T.m, 1, T.p.end_of_burst)
    BY <1>2, <2>1, BehindPlace
  <2> QED
    BY <1>1, <1>3, <2>2 DEF PlaceBehind
<1>5. PICK X, Y : X = [g.G EXCEPT ![k] = T] /\ Y = [g.Q EXCEPT ![e] = b]
  OBVIOUS
<1>6. /\ X \in [Nat -> LineTag] /\ X[k] = T /\ \A r \in Nat : r # k => X[r] = g.G[r]
      /\ Y \in [Nat -> PlaceSet] /\ Y[e] = b /\ \A r \in Nat : r # e => Y[r] = g.Q[r]
  BY <1>1, <1>4, <1>5, Entered
<1>7. SameLists(g.G, X, k) /\ SameLists(g.Q, Y, e)
  <2>1. \A r \in Nat : (r < k => r # k) /\ (r < e => r # e)
    BY <1>4
  <2> QED
    BY <1>6, <2>1 DEF SameLists
<1> DEFINE h == [g EXCEPT !.G = X, !.Q = Y, !.g2 = e]
<1>8. h \in MergedSet /\ h.G = X /\ h.Q = Y /\ h.g1 = g.g1 /\ h.g2 = e
  BY <1>4, <1>6 DEF MergedSet
<1> HIDE DEF h
<1>9. MoreLines(g, h, T)
  BY <1>3, <1>6, <1>7, <1>8 DEF MoreLines
<1> QED
  BY <1>8, <1>9

\* The lines behind intra_merge, when there is one more.
LEMMA MergedPut ==
  ASSUME NEW S, NEW i, NEW n, NEW g \in MergedSet, Merged(S, i, n, g), NEW T \in LineTag,
         MergedLine(S, i, n, T), At(g.Q[g.g2], T.l, T.m), NEW h, MoreLines(g, h, T),
         sync'["dynamic"] = Append(sync["dynamic"], T.p)
  PROVE  /\ Merged(S, i, n, h)'
         /\ \A o : Joined(S, n, g, o) => Joined(S, n, h, o)
<1>1. /\ g.g1 \in Nat /\ g.g2 \in Nat /\ T.l \in Nat /\ T.m \in Nat /\ T.p.end_of_burst \in BOOLEAN
      /\ \A r \in Nat : g.Q[r].l \in Nat
  BY PlaceFields DEF LineTag, LinePkg
<1>2. /\ h.G[g.g2] = T /\ \A r \in Nat : r < g.g2 => h.G[r] = g.G[r]
      /\ h.Q[g.g2 + 1] = Behind(T.l, T.m, 1, T.p.end_of_burst)
      /\ \A r \in Nat : r < g.g2 + 1 => h.Q[r] = g.Q[r]
      /\ h.g1 = g.g1 /\ h.g2 = g.g2 + 1
      /\ SameLists(g.G, h.G, g.g2)
  BY DEF MoreLines, SameLists
<1>3. /\ Holds(sync["dynamic"], PkgOf(g.G), g.g1, g.g2, 0, None) /\ g.g1 <= g.g2
      /\ \A r \in g.g1 .. g.g2 - 1 :
           /\ MergedLine(S, i, n, g.G[r])
           /\ At(g.Q[r], g.G[r].l, g.G[r].m)
           /\ g.Q[r + 1] = Behind(g.G[r].l, g.G[r].m, 1, g.G[r].p.end_of_burst)
      /\ \A r, m \in g.g1 .. g.g2 : r <= m => g.Q[r].l <= g.Q[m].l
  BY DEF Merged, Holds
<1>4. Holds(sync'["dynamic"], PkgOf(h.G), h.g1, h.g2, 0, None)
  <2>1. SameLists(PkgOf(g.G), PkgOf(h.G), g.g2) /\ PkgOf(h.G)[g.g2] = T.p
    BY <1>1, <1>2, SameTags DEF PkgOf
  <2>2. Holds(Append(sync["dynamic"], T.p), PkgOf(h.G), g.g1, g.g2 + 1, 0, None)
    BY <1>1, <1>3, <2>1, HoldsBehind
  <2> QED
    BY <1>2, <2>2
<1>5. ASSUME NEW r \in g.g1 .. g.g2
      PROVE  /\ MergedLine(S, i, n, h.G[r])
             /\ At(h.Q[r], h.G[r].l, h.G[r].m)
             /\ h.Q[r + 1] = Behind(h.G[r].l, h.G[r].m, 1, h.G[r].p.end_of_burst)
  <2>2. r \in Nat /\ r + 1 \in Nat /\ r < g.g2 + 1
    BY <1>1
  <2>3. CASE r < g.g2
    <3>1. r \in g.g1 .. g.g2 - 1 /\ r + 1 < g.g2 + 1
      BY <1>1, <2>3
    <3>2. h.G[r] = g.G[r] /\ h.Q[r] = g.Q[r] /\ h.Q[r + 1] = g.Q[r + 1]
      BY <1>2, <2>2, <2>3, <3>1
    <3> QED
      BY <1>3, <3>1, <3>2
  <2>4. CASE r = g.g2
    <3>1. h.G[r] = T /\ h.Q[r] = g.Q[g.g2] /\ h.Q[r + 1] = Behind(T.l, T.m, 1, T.p.end_of_burst)
      BY <1>2, <2>2, <2>4
    <3> QED
      BY <3>1
  <2> QED
    BY <1>1, <2>3, <2>4
<1>6. PICK b \in Nat : b = h.Q[g.g2 + 1].l /\ g.Q[g.g2].l <= b
  <2>1. 1 \in Nat
    OBVIOUS
  <2>2. PlaceBehind(Behind(T.l, T.m, 1, T.p.end_of_burst), T.l, T.m, 1, T.p.end_of_burst)
    BY <1>1, <2>1, BehindPlace
  <2>3. h.Q[g.g2 + 1].l \in Nat /\ T.l <= h.Q[g.g2 + 1].l
    BY <1>2, <2>2 DEF PlaceBehind
  <2>4. g.Q[g.g2].l <= T.l /\ g.Q[g.g2].l \in Nat
    BY <1>1 DEF At
  <2> QED
    BY <1>1, <2>3, <2>4
<1>7. ASSUME NEW r \in h.g1 .. h.g2, NEW m \in h.g1 .. h.g2, r <= m
      PROVE  h.Q[r].l <= h.Q[m].l
  <2>1. PICK e \in Nat : e = g.g2 + 1
    BY <1>1
  <2>2. r \in g.g1 .. e /\ m \in g.g1 .. e /\ r \in Nat /\ m \in Nat
    BY <1>1, <1>2, <2>1
  <2>3. CASE m < e
    <3>1. r \in g.g1 .. g.g2 /\ m \in g.g1 .. g.g2 /\ r < e
      BY <1>1, <1>7, <2>1, <2>2, <2>3
    <3>2. h.Q[r] = g.Q[r] /\ h.Q[m] = g.Q[m]
      BY <1>2, <2>1, <2>2, <2>3, <3>1
    <3> QED
      BY <1>3, <1>7, <3>1, <3>2
  <2>4. CASE m = e /\ r < e
    <3>1. r \in g.g1 .. g.g2 /\ g.g2 \in g.g1 .. g.g2 /\ r <= g.g2
      BY <1>1, <2>1, <2>2, <2>4
    <3>2. h.Q[r] = g.Q[r] /\ h.Q[m].l = b
      BY <1>2, <1>6, <2>1, <2>2, <2>4
    <3>3. g.Q[r].l <= g.Q[g.g2].l /\ g.Q[r].l \in Nat /\ g.Q[g.g2].l \in Nat
      BY <1>1, <1>3, <2>2, <3>1
    <3> QED
      BY <1>6, <3>2, <3>3
  <2>5. CASE m = e /\ r = e
    <3>1. h.Q[r].l = b /\ h.Q[m].l = b
      BY <1>6, <2>1, <2>5
    <3> QED
      BY <3>1
  <2>6. m < e \/ (m = e /\ r < e) \/ (m = e /\ r = e)
    BY <1>7, <2>1, <2>2
  <2> QED
    BY <2>3, <2>4, <2>5, <2>6
<1>8. \A o : Joined(S, n, g, o) => Joined(S, n, h, o)
  <2>1. g.g1 < g.g2 + 1
    BY <1>1, <1>3
  <2>2. h.Q[h.g1] = g.Q[g.g1]
    BY <1>1, <1>2, <2>1
  <2> QED
    BY <2>2 DEF Joined
<1>9. Merged(S, i, n, h)'
  <2>1. h.g2 - 1 = g.g2
    BY <1>1, <1>2
  <2>2. h.g1 = g.g1
    BY <1>2
  <2>3. h.g1 .. h.g2 - 1 = g.g1 .. g.g2
    BY <2>1, <2>2
  <2> QED
    BY <1>4, <1>5, <1>7, <2>3 DEF Merged
<1> QED
  BY <1>8, <1>9
\* Record d is record c when intra_merge is at the next command.
NextNumber(c, d) == d.lo = c.lo + 1 /\ d.hi = c.hi /\ d.P = c.P

\* There is such a record.
LEMMA NumbersPass ==
  ASSUME NEW c \in NumberSet
  PROVE  \E d \in NumberSet : NextNumber(c, d)
<1> DEFINE d == [c EXCEPT !.lo = c.lo + 1]
<1>1. c.lo + 1 \in Nat
  BY PlaceFields
<1>2. d \in NumberSet /\ d.lo = c.lo + 1 /\ d.hi = c.hi /\ d.P = c.P
  BY <1>1 DEF NumberSet
<1> QED
  BY <1>2 DEF NextNumber

\* Those of the commands that intra_merge has not yet seen are the commands of
\* the rest of the numbers.
LEMMA CommandsPass ==
  ASSUME NEW S, NEW i, NEW n, NEW c \in NumberSet, NEW d, NextNumber(c, d),
         NEW a, NEW k, Commands(S, i, n, c, a, k),
         NEW b, \A h \in b.k1 .. b.k3 - 1 : h \in a.k1 .. a.k3 - 1, b.T = a.T,
         \A h \in b.k1 .. b.k3 - 1 : b.T[h].x # c.lo
  PROVE  Commands(S, i, n, d, b, k)
<1>1. c.lo \in Nat /\ c.hi \in Nat
  BY PlaceFields
<1>2. d.lo = c.lo + 1 /\ d.hi = c.hi /\ d.P = c.P
  BY DEF NextNumber
<1>3. ASSUME NEW h \in b.k1 .. b.k3 - 1
      PROVE  CmdTagged(S, i, n, d, b.T[h], k)
  <2>1. PICK T : T = a.T[h]
    OBVIOUS
  <2>2. CmdTagged(S, i, n, c, T, k) /\ T.x # c.lo /\ b.T[h] = T
    BY <2>1 DEF Commands
  <2>3. T.x \in c.lo .. c.hi - 1
    BY <2>2 DEF CmdTagged
  <2>4. PICK x : x = T.x /\ x \in c.lo + 1 .. c.hi - 1
    BY <1>1, <2>2, <2>3
  <2>5. T.x \in d.lo .. d.hi - 1
    BY <1>2, <2>4
  <2>6. CmdTagged(S, i, n, d, T, k)
    BY <1>2, <2>2, <2>5 DEF CmdTagged
  <2> QED
    BY <2>2, <2>6
<1>4. \A h, m \in b.k1 .. b.k3 - 1 : h < m => b.T[h].x < b.T[m].x
  BY DEF Commands
<1> QED
  BY <1>3, <1>4 DEF Commands

\* What intra_merge does with the packet p of engine e.
Merges(e, p) ==
    /\ e \in {"one", "long"} /\ sync[e] # <<>> /\ p = Head(sync[e]) /\ p.dynamic_id = intra_id
    /\ DOMAIN sync' = Sources /\ sync'[e] = Tail(sync[e])
    /\ sync'["dynamic"] = Append(sync["dynamic"], p)
    /\ UNCHANGED sync["single"]
    /\ e = "one" => UNCHANGED sync["long"]
    /\ e = "long" => UNCHANGED sync["one"]
    /\ p.end_of_dynamic => intra_id' = Succ(intra_id)
    /\ ~p.end_of_dynamic => UNCHANGED intra_id
    /\ UNCHANGED <<asked, input, vs_pc, sync_id, sync_burst_id, update, burst_vd, curr,
                   dynamic_burst_id, cmd, running, j, inter_id, inter_out, selected, next_vertex,
                   update_id, pending, shown>>

\* intra_merge hands a packet on.
LEMMA IntraMerges ==
  ASSUME Rest, IntraMerge
  PROVE  \E e, p : Merges(e, p)
<1>1. DOMAIN sync = Sources /\ Sources = {"one", "long", "single", "dynamic"}
  BY DEF Rest, Engines, Sources
<1>e. PICK e \in {"one", "long"} :
        /\ IntraTurn(e)
        /\ LET p == Head(sync[e])
           IN  /\ sync' = [sync EXCEPT ![e] = Tail(@), !["dynamic"] = Append(@, p)]
               /\ intra_id' = IF p.end_of_dynamic THEN Succ(intra_id) ELSE intra_id
        /\ UNCHANGED <<feedVars, schedVars, update, cgVars, cmd, engineVars,
                       inter_id, inter_out, outVars, history>>
  BY DEF IntraMerge
<1>p. PICK p : p = Head(sync[e])
  OBVIOUS
<1>2. /\ IntraTurn(e) /\ p = Head(sync[e])
      /\ sync' = [sync EXCEPT ![e] = Tail(sync[e]), !["dynamic"] = Append(sync["dynamic"], p)]
      /\ intra_id' = IF p.end_of_dynamic THEN Succ(intra_id) ELSE intra_id
      /\ UNCHANGED <<feedVars, schedVars, update, cgVars, cmd, engineVars,
                     inter_id, inter_out, outVars, history>>
  <2>1. e # "dynamic"
    OBVIOUS
  <2>2. sync' = [sync EXCEPT ![e] = Tail(@), !["dynamic"] = Append(@, p)]
    BY <1>e, <1>p
  <2>3. sync' = [sync EXCEPT ![e] = Tail(sync[e]), !["dynamic"] = Append(sync["dynamic"], p)]
    BY <1>1, <2>1, <2>2
  <2> QED
    BY <1>e, <1>p, <2>3
<1>3. /\ DOMAIN sync' = Sources /\ sync'[e] = Tail(sync[e])
      /\ sync'["dynamic"] = Append(sync["dynamic"], p)
      /\ sync'["single"] = sync["single"]
      /\ e = "one" => sync'["long"] = sync["long"]
      /\ e = "long" => sync'["one"] = sync["one"]
  BY <1>1, <1>2
<1>4. sync[e] # <<>> /\ p.dynamic_id = intra_id
  BY <1>2 DEF IntraTurn
<1>5. UNCHANGED <<asked, input, vs_pc, sync_id, sync_burst_id, update, burst_vd, curr,
                  dynamic_burst_id, cmd, running, j, inter_id, inter_out, selected, next_vertex,
                  update_id, pending, shown>>
  BY <1>2 DEF feedVars, schedVars, cgVars, engineVars, outVars, history
<1>6. /\ p.end_of_dynamic => intra_id' = Succ(intra_id)
      /\ ~p.end_of_dynamic => intra_id' = intra_id
  BY <1>2
<1>7. e \in {"one", "long"} /\ p = Head(sync[e])
  BY <1>2
<1> QED
  BY <1>3, <1>4, <1>5, <1>6, <1>7 DEF Merges

\* The next command of intra_merge is counted no more.
LEMMA CountedPass ==
  ASSUME NEW a, NEW y, NEW c \in NumberSet, Counted(a, y, c), c.lo < c.hi, NEW d, NextNumber(c, d),
         a.k1 \in Nat, a.k3 \in Nat, y.k1 \in Nat, y.k3 \in Nat,
         NEW b, NEW x, b.T = a.T, x.T = y.T, b.k3 = a.k3, x.k3 = y.k3,
         (b.k1 = a.k1 /\ x.k1 = y.k1 + 1) \/ (b.k1 = a.k1 + 1 /\ x.k1 = y.k1),
         intra_id' = Succ(intra_id), UNCHANGED dynamic_burst_id
  PROVE  Counted(b, x, d)'
<1>1. c.lo \in Nat /\ c.hi \in Nat /\ IdMod \in Nat /\ IdMod > 0
  BY PlaceFields, Sizes
<1>2. d.lo = c.lo + 1 /\ d.hi = c.hi /\ d.P = c.P
  BY DEF NextNumber
<1>3. /\ dynamic_burst_id = c.hi % IdMod /\ intra_id = c.lo % IdMod
      /\ c.hi - c.lo = (a.k3 - a.k1) + (y.k3 - y.k1)
      /\ \A h \in a.k1 .. a.k3 - 1, m \in y.k1 .. y.k3 - 1 : a.T[h].x # y.T[m].x
      /\ \A h, m \in c.lo .. c.hi : h <= m => c.P[h].l <= c.P[m].l
  BY DEF Counted
<1>4. dynamic_burst_id' = d.hi % IdMod /\ intra_id' = d.lo % IdMod
  <2>1. ((c.lo % IdMod) + 1) % IdMod = (c.lo + 1) % IdMod
    BY <1>1, NextRemainder
  <2> QED
    BY <1>2, <1>3, <2>1 DEF Succ
<1>5. d.lo <= d.hi
  BY <1>1, <1>2
<1>6. \A h, m \in d.lo .. d.hi : h <= m => d.P[h].l <= d.P[m].l
  <2>1. \A h \in c.lo + 1 .. c.hi : h \in c.lo .. c.hi
    BY <1>1
  <2>2. d.lo .. d.hi = c.lo + 1 .. c.hi
    BY <1>2
  <2> QED
    BY <1>2, <1>3, <2>1, <2>2
<1>7. /\ \A h \in b.k1 .. b.k3 - 1 : h \in a.k1 .. a.k3 - 1
      /\ \A h \in x.k1 .. x.k3 - 1 : h \in y.k1 .. y.k3 - 1
  <2>1. /\ \A h \in a.k1 + 1 .. a.k3 - 1 : h \in a.k1 .. a.k3 - 1
        /\ \A h \in y.k1 + 1 .. y.k3 - 1 : h \in y.k1 .. y.k3 - 1
    OBVIOUS
  <2> QED
    BY <2>1
<1>8. d.hi - d.lo = (b.k3 - b.k1) + (x.k3 - x.k1)
  <2>1. CASE b.k1 = a.k1 /\ x.k1 = y.k1 + 1
    BY <1>1, <1>2, <1>3, <2>1
  <2>2. CASE b.k1 = a.k1 + 1 /\ x.k1 = y.k1
    BY <1>1, <1>2, <1>3, <2>2
  <2> QED
    BY <2>1, <2>2
<1>9. \A h \in b.k1 .. b.k3 - 1, m \in x.k1 .. x.k3 - 1 : b.T[h].x # x.T[m].x
  BY <1>3, <1>7
<1> QED
  BY <1>4, <1>5, <1>6, <1>8, <1>9 DEF Counted

\* The packet an engine makes of a line.
LEMMA LinePacket ==
  ASSUME NEW q \in CmdPkg, NEW h \in Nat, NEW e \in BOOLEAN, NEW t \in BOOLEAN
  PROVE  SyncPkg(q, h, e, t) \in LinePkg
<1>1. /\ q.addr \in Nat /\ q.id \in Nat /\ q.burst_id \in Nat /\ q.dynamic_id \in Nat
      /\ q.last \in BOOLEAN
  BY DEF CmdPkg
<1>2. Unmasked(q, h) \in SUBSET Int
  <2>1. h * LineWords \in Int
    BY Sizes
  <2>2. \A r \in 0 .. LineWords - 1 : q.addr + h * LineWords + r \in Int
    BY <1>1, <2>1
  <2> QED
    BY <2>2 DEF Unmasked
<1> QED
  BY <1>1, <1>2 DEF SyncPkg, LinePkg

\* A line of a command is the last one of the list, or not.
LEMMA EndOfList ==
  ASSUME NEW m \in Nat, NEW k \in Nat, NEW N \in Nat, m + k <= N, NEW h \in 0 .. k - 1,
         NEW b \in BOOLEAN, b <=> m + k = N, NEW e \in BOOLEAN, e <=> h = k - 1 /\ b
  PROVE  m + h \in Nat /\ (m + h) + 1 <= N /\ (e <=> (m + h) + 1 = N)
OBVIOUS

\* A command for k lines makes line h of them, packet p, and this is the place
\* behind it.
LineMade(S, i, n, c, T, k, h, p, L) ==
    /\ L.p = p /\ L.l = T.l /\ L.m = T.m + h /\ MergedLine(S, i, n, L)
    /\ h = k - 1 => Behind(L.l, L.m, 1, p.end_of_burst) = c.P[T.x + 1]
    /\ h # k - 1 => Behind(L.l, L.m, 1, p.end_of_burst) = [l |-> T.l, m |-> T.m + (h + 1)]

\* Every line an engine reads for a command is a line of the list.
LEMMA LineOfCommand ==
  ASSUME NEW S, NEW i, NEW n, NEW c, NEW T \in CmdTag, NEW k \in Nat, CmdTagged(S, i, n, c, T, k),
         Lines(S[T.l].p.vertex) \in Nat, NEW h \in 0 .. k - 1,
         NEW e \in BOOLEAN, e <=> h = k - 1 /\ T.p.end_of_burst, NEW t \in BOOLEAN,
         NEW p, p = SyncPkg(T.p, h, e, t)
  PROVE  \E L \in LineTag : LineMade(S, i, n, c, T, k, h, p, L)
<1>1. T.l \in Nat /\ T.m \in Nat /\ T.x \in Nat /\ T.p \in CmdPkg
  BY DEF CmdTag
<1>2. /\ T.p.addr \in Nat /\ T.p.id \in Nat /\ T.p.burst_id \in Nat /\ T.p.end_of_burst \in BOOLEAN
      /\ T.p.dynamic_id \in Nat /\ T.p.last \in BOOLEAN
  BY <1>1 DEF CmdPkg
<1>3. PICK N \in Nat : N = Lines(S[T.l].p.vertex)
  OBVIOUS
<1>4. /\ CmdOfList(S, i, n, T.l, T.m, k, T.p) /\ ~InOneLine(S, T.l)
      /\ T.p.dynamic_id = T.x % IdMod
      /\ c.P[T.x + 1] = Behind(T.l, T.m, k, T.p.end_of_burst)
  BY DEF CmdTagged
<1>5. /\ Listed(S, i, n, T.l, T.p) /\ T.m + k <= N
      /\ T.p.end_of_burst = (T.m + k = N)
      /\ T.p.end_of_burst => T.p.last = S[T.l].p.last
      /\ Shows(S[T.l].p.vertex, T.m + h, Unmasked(T.p, h))
  BY <1>3, <1>4 DEF CmdOfList
<1>6. T.p.dynamic_id \in Ids
  BY <1>1, <1>4, Sizes DEF Ids
<1>7. /\ p.words = Unmasked(T.p, h) /\ p.id = T.p.id /\ p.burst_id = T.p.burst_id
      /\ p.end_of_burst = e /\ p.dynamic_id = T.p.dynamic_id /\ p.end_of_dynamic = t
      /\ p.last = T.p.last
  BY DEF SyncPkg
<1>8. p \in LinePkg
  BY <1>1, LinePacket
<1>9. PICK m \in Nat : m = T.m + h
  BY <1>1
<1>10. PICK L : L = [l |-> T.l, m |-> m, p |-> p]
  OBVIOUS
<1>11. L \in LineTag /\ L.l = T.l /\ L.m = m /\ L.p = p
  BY <1>1, <1>8, <1>10 DEF LineTag
<1>12. m + 1 <= N /\ (e <=> m + 1 = N)
  <2>1. PICK b \in BOOLEAN : b = T.p.end_of_burst
    BY <1>2
  <2>2. T.m + k <= N /\ (b <=> T.m + k = N) /\ (e <=> h = k - 1 /\ b)
    BY <1>5, <2>1
  <2>3. (T.m + h) + 1 <= N /\ (e <=> (T.m + h) + 1 = N)
    BY <1>1, <2>2, EndOfList
  <2> QED
    BY <1>9, <2>3
<1>13. MergedLine(S, i, n, L)
  <2>1. Listed(S, i, n, T.l, p)
    BY <1>5, <1>7 DEF Listed
  <2>2. p.end_of_burst = (m + 1 = N)
    BY <1>7, <1>12
  <2>3. p.end_of_burst => p.last = S[T.l].p.last
    BY <1>5, <1>7
  <2>4. Shows(S[T.l].p.vertex, m, p.words)
    BY <1>5, <1>7, <1>9
  <2>5. LineOfList(S, i, n, T.l, m, p)
    BY <1>3, <1>6, <1>7, <1>12, <2>1, <2>2, <2>3, <2>4 DEF LineOfList
  <2> QED
    BY <1>4, <1>11, <2>5 DEF MergedLine
<1>14. h = k - 1 => Behind(T.l, m, 1, e) = c.P[T.x + 1]
  <2> HAVE h = k - 1
  <2>1. m + 1 = T.m + k /\ e = T.p.end_of_burst
    BY <1>1, <1>2, <1>9
  <2> QED
    BY <1>4, <2>1 DEF Behind
<1>15. h # k - 1 => Behind(T.l, m, 1, e) = [l |-> T.l, m |-> T.m + (h + 1)]
  <2> HAVE h # k - 1
  <2>1. ~e /\ m + 1 = T.m + (h + 1)
    BY <1>1, <1>9
  <2> QED
    BY <2>1 DEF Behind
<1> QED
  BY <1>7, <1>9, <1>11, <1>13, <1>14, <1>15 DEF LineMade

\* A command is one of a list.
LEMMA CommandLinesKnown ==
  ASSUME NEW f \in FrontSet, Requests(f), Numbering(f), NEW i \in Nat, FirstId <= i,
         NEW l, l \in i .. f.B[f.s] - 1
  PROVE  /\ l \in Nat /\ i <= l /\ l < f.B[f.s]
         /\ f.S[l].p.vertex.start \in Nat /\ f.S[l].p.vertex.size \in Nat
         /\ f.S[l].p.vertex.size # 0 /\ f.S[l].p.vertex \in Descs
         /\ Lines(f.S[l].p.vertex) \in Nat /\ Lines(f.S[l].p.vertex) >= 1
<1>1. f.B[f.s] \in Nat /\ f.B[f.e] \in Nat /\ f.B[f.s] <= f.B[f.e]
  BY ListWindow
<1>2. l \in Nat /\ FirstId <= l /\ l < f.B[f.e] /\ i <= l /\ l < f.B[f.s]
  BY <1>1, Sizes
<1>3. /\ f.S[l].p.vertex.start \in Nat /\ f.S[l].p.vertex.size \in Nat
      /\ f.S[l].p.vertex.size # 0 /\ f.S[l].p.vertex \in Descs
  BY <1>2, HistoryList
<1>4. Lines(f.S[l].p.vertex) \in Nat /\ Lines(f.S[l].p.vertex) >= 1
  BY <1>3, ListLines
<1> QED
  BY <1>2, <1>3, <1>4

\* intra_merge passes a line of dynamic_burst_1 on.
LEMMA MergeOneStep ==
  ASSUME Rest, NEW f \in FrontSet, NEW w \in Seq(Nat), NEW u \in EngineSet, NEW v \in VdSet,
         NEW a \in EngineSet, NEW y \in LongSet, NEW c \in NumberSet, NEW g \in MergedSet,
         NEW o \in OutSet, Parts(f, w, u, v, a, y, c, g, o),
         NEW p, Merges("one", p)
  PROVE  BurstInv'
<1>1. PICK S, i, n : S = f.S /\ i = o.i /\ n = f.B[f.s]
  OBVIOUS
<1>2. /\ sync["one"] # <<>> /\ p = Head(sync["one"]) /\ p.dynamic_id = intra_id
      /\ DOMAIN sync' = Sources /\ sync'["one"] = Tail(sync["one"])
      /\ sync'["dynamic"] = Append(sync["dynamic"], p)
      /\ UNCHANGED <<sync["single"], sync["long"]>>
      /\ p.end_of_dynamic => intra_id' = Succ(intra_id)
      /\ UNCHANGED <<asked, input, vs_pc, sync_id, sync_burst_id, update, burst_vd, curr,
                     dynamic_burst_id, cmd, running, j, inter_id, inter_out, selected, next_vertex,
                     update_id, pending, shown>>
  BY DEF Merges
<1>3. /\ Stops(u, v, a, y) /\ OneStreams(a) /\ Commands(S, i, n, c, a, 1)
      /\ LongStreams(y) /\ Commands(S, i, n, c, y, MaxBurst) /\ LongLines(y)
      /\ Counted(a, y, c) /\ Linked(y, c, g) /\ Merged(S, i, n, g) /\ Joined(S, n, g, o)
      /\ Ordered(n, v, c) /\ Requests(f) /\ Numbering(f) /\ Out(S, n, o)
      /\ Sampled(S, f.B[f.b], n, o)
  BY <1>1 DEF Parts
<1>4. /\ a.k1 \in Nat /\ a.k2 \in Nat /\ a.k3 \in Nat /\ y.k1 \in Nat /\ y.k3 \in Nat
      /\ a.T \in [Nat -> CmdTag]
  BY EngineFields, LongFields
<1>5. /\ c.hi - c.lo <= IdMod /\ c.lo \in Nat /\ c.hi \in Nat
      /\ a.k1 <= a.k2 /\ a.k2 <= a.k3 /\ y.r1 <= y.r2
  BY <1>3, CommandWindow
<1>6. Holds(sync["one"], OneOf(a.T), a.k1, a.k2, 0, None)
  BY <1>3 DEF OneStreams
<1>7. a.k1 < a.k2 /\ p = OneOf(a.T)[a.k1] /\ Holds(sync'["one"], OneOf(a.T), a.k1 + 1, a.k2, 0, None)
  <2>1. sync["one"] # <<>> /\ a.k1 \in Nat /\ a.k2 \in Nat
    BY <1>2, <1>4
  <2>2. /\ a.k1 < a.k2 /\ Head(sync["one"]) = OneOf(a.T)[a.k1]
        /\ Holds(Tail(sync["one"]), OneOf(a.T), a.k1 + 1, a.k2, 0, None)
    BY <1>6, <2>1, StreamPop
  <2> QED
    BY <1>2, <2>2
<1>8. a.k1 \in a.k1 .. a.k3 - 1
  BY <1>4, <1>5, <1>7
<1>9. PICK T \in CmdTag : T = a.T[a.k1] /\ p = SyncPkg(T.p, 0, T.p.end_of_burst, TRUE)
  BY <1>4, <1>7 DEF OneOf
<1>10. T.x \in Nat /\ T.l \in Nat /\ T.m \in Nat /\ T.p.end_of_burst \in BOOLEAN
  BY <1>9 DEF CmdTag, CmdPkg
<1>11. T.x = c.lo /\ c.lo < c.hi
  <2>1. c.lo <= T.x /\ T.x < c.hi /\ T.p.dynamic_id = T.x % IdMod
    <3>1. Commands(S, i, n, c, a, 1)
      BY <1>3
    <3>2. /\ c.lo <= a.T[a.k1].x /\ a.T[a.k1].x < c.hi
          /\ a.T[a.k1].p.dynamic_id = a.T[a.k1].x % IdMod
      <4>1. PICK h \in a.k1 .. a.k3 - 1 : h = a.k1
        BY <1>8
      <4>2. c.lo <= a.T[h].x /\ a.T[h].x < c.hi
        BY <3>1, <4>1, CommandNumbers
      <4>3. a.T[h].p.dynamic_id = a.T[h].x % IdMod
        BY <3>1, <4>1 DEF Commands, CmdTagged
      <4> QED
        BY <4>1, <4>2, <4>3
    <3> QED
      BY <1>9, <3>2
  <2>2. p.dynamic_id = T.p.dynamic_id
    BY <1>9 DEF SyncPkg
  <2>3. intra_id = c.lo % IdMod
    BY <1>3 DEF Counted
  <2>4. T.x = c.lo
    BY <1>2, <1>5, <1>10, <2>1, <2>2, <2>3, CommandFound
  <2> QED
    BY <2>1, <2>4
<1>12. CmdTagged(S, i, n, c, T, 1)
  BY <1>3, <1>8, <1>9 DEF Commands
<1>13. Lines(S[T.l].p.vertex) \in Nat
  <2>1. T.l \in i .. n - 1
    BY <1>12 DEF CmdTagged, CmdOfList, Listed
  <2>2. o.i \in Nat /\ FirstId <= o.i
    <3>1. o.i \in Nat /\ o.t \in Nat /\ f.B[f.b] \in Nat
      BY PlaceFields, <1>3, ListWindow
    <3>2. f.B[f.b] <= o.t /\ o.t <= o.i /\ FirstId <= f.B[f.b]
      BY <1>3, ListWindow DEF Out, Sampled
    <3> QED
      BY <3>1, <3>2, Sizes
  <2> QED
    BY <1>1, <1>3, <2>1, <2>2, CommandLinesKnown
<1>14. PICK L \in LineTag : /\ L.p = p /\ L.l = T.l /\ L.m = T.m + 0 /\ MergedLine(S, i, n, L)
                            /\ Behind(L.l, L.m, 1, L.p.end_of_burst) = c.P[T.x + 1]
  <2>1. PICK k, h : k = 1 /\ h = 0
    OBVIOUS
  <2>2. k \in Nat /\ h \in 0 .. k - 1 /\ h = k - 1
    BY <2>1
  <2>3. T.p.end_of_burst <=> h = k - 1 /\ T.p.end_of_burst
    BY <2>2
  <2>4. TRUE \in BOOLEAN
    OBVIOUS
  <2>5. CmdTagged(S, i, n, c, T, k) /\ p = SyncPkg(T.p, h, T.p.end_of_burst, TRUE)
    BY <1>9, <1>12, <2>1
  <2>6. PICK e, t : e = T.p.end_of_burst /\ t = TRUE
    OBVIOUS
  <2>7. /\ e \in BOOLEAN /\ t \in BOOLEAN /\ (e <=> h = k - 1 /\ T.p.end_of_burst)
        /\ p = SyncPkg(T.p, h, e, t)
    BY <1>10, <2>2, <2>5, <2>6
  <2>8. PICK L \in LineTag : LineMade(S, i, n, c, T, k, h, p, L)
    BY <1>13, <2>2, <2>5, <2>7, LineOfCommand
  <2> QED
    BY <2>1, <2>2, <2>8 DEF LineMade
<1>15. y.R[y.r1].n = 0 /\ g.Q[g.g2] = c.P[c.lo]
  <2>1. ASSUME y.R[y.r1].n # 0 PROVE FALSE
    <3>1. y.T[y.k1].x = c.lo
      BY <1>3, <2>1 DEF Linked
    <3>2. y.k1 \in y.k1 .. y.k3 - 1
      BY <1>3, <1>4, <1>5, <2>1, LongPlace
    <3> QED
      BY <1>3, <1>8, <1>9, <1>11, <3>1, <3>2 DEF Counted
  <2> QED
    BY <1>3, <2>1 DEF Linked
<1>16. At(g.Q[g.g2], L.l, L.m)
  <2>1. At(c.P[c.lo], T.l, T.m)
    BY <1>11, <1>12 DEF CmdTagged
  <2>2. L.m = T.m
    BY <1>10, <1>14
  <2> QED
    BY <1>14, <1>15, <2>1, <2>2
<1>17. PICK h \in MergedSet : MoreLines(g, h, L)
  BY LinesGrow
<1>18. PICK d \in NumberSet : NextNumber(c, d)
  BY NumbersPass
<1>19. PICK b \in EngineSet :
         b.T = a.T /\ b.k1 = a.k1 + 1 /\ b.k2 = a.k2 /\ b.k3 = a.k3 /\ b.z = a.z
  <2> DEFINE b == [a EXCEPT !.k1 = a.k1 + 1]
  <2>1. a.k1 + 1 \in Nat
    BY <1>4
  <2>2. b \in EngineSet /\ b.T = a.T /\ b.k1 = a.k1 + 1 /\ b.k2 = a.k2 /\ b.k3 = a.k3 /\ b.z = a.z
    BY <2>1 DEF EngineSet
  <2> QED
    BY <2>2
<1>20. OneStreams(b)'
  BY <1>2, <1>3, <1>7, <1>19 DEF OneStreams, Commanded
<1>21. Commands(S, i, n, d, b, 1) /\ Commands(S, i, n, d, y, MaxBurst)
  <2>1. \A r \in a.k1 + 1 .. a.k3 - 1 : r \in a.k1 .. a.k3 - 1 /\ a.k1 < r
    BY <1>4
  <2>2. \A r \in b.k1 .. b.k3 - 1 : r \in a.k1 .. a.k3 - 1 /\ a.k1 < r
    BY <1>19, <2>1
  <2>3. ASSUME NEW r \in b.k1 .. b.k3 - 1 PROVE b.T[r].x # c.lo
    <3>1. r \in a.k1 .. a.k3 - 1 /\ a.k1 < r
      BY <2>2
    <3>2. a.T[a.k1].x < a.T[r].x
      BY <1>3, <1>8, <3>1 DEF Commands
    <3>3. c.lo < a.T[r].x /\ a.T[r].x \in Nat
      BY <1>3, <1>9, <1>11, <3>1, <3>2, CommandNumbers
    <3> QED
      BY <1>5, <1>19, <3>3
  <2>4. \A r \in y.k1 .. y.k3 - 1 : y.T[r].x # c.lo
    BY <1>3, <1>8, <1>9, <1>11 DEF Counted
  <2>5. Commands(S, i, n, d, b, 1)
    BY <1>3, <1>18, <1>19, <2>2, <2>3, CommandsPass
  <2>6. Commands(S, i, n, d, y, MaxBurst)
    BY <1>3, <1>18, <2>4, CommandsPass
  <2> QED
    BY <2>5, <2>6
<1>22. Counted(b, y, d)'
  <2>1. intra_id' = Succ(intra_id)
    BY <1>2, <1>9 DEF SyncPkg
  <2>2. dynamic_burst_id' = dynamic_burst_id
    BY <1>2
  <2> QED
    BY <1>3, <1>4, <1>11, <1>18, <1>19, <2>1, <2>2, CountedPass
<1>23. Ordered(n, v, d)'
  <2>1. Ordered(n, v, d)
    BY <1>3, <1>18 DEF Ordered, NextNumber
  <2> QED
    BY <1>2, <2>1, KeepBack
<1>24. Linked(y, d, h)
  <2>1. h.Q[h.g2] = c.P[c.lo + 1]
    BY <1>11, <1>14, <1>17 DEF MoreLines
  <2> QED
    BY <1>15, <1>18, <2>1 DEF Linked, NextNumber
<1>25. Merged(S, i, n, h)' /\ Joined(S, n, h, o)
  <2>1. sync'["dynamic"] = Append(sync["dynamic"], L.p)
    BY <1>2, <1>14
  <2> QED
    BY <1>3, <1>14, <1>16, <1>17, <2>1, MergedPut
<1>26. Stops(u, v, b, y)'
  BY <1>2, <1>3, <1>19 DEF Stops
<1>27. Rest'
  <2>1. Len(sync'["one"]) <= SyncDepth
    <3>1. IsSeq(sync["one"]) /\ Len(sync["one"]) <= SyncDepth
      BY <1>6 DEF Holds, Rest
    <3> QED
      BY <1>2, <3>1, Sizes, WithinDepth
  <2> QED
    BY <1>2, <2>1 DEF Rest
<1>28. Parts(f, w, u, v, b, y, d, h, o)'
  <2>1. UNCHANGED <<cmd["single"], cmd["one"], cmd["long"], sync["single"], sync["long"]>>
    BY <1>2
  <2>2. Requests(f)' /\ Numbering(f)' /\ Empties(f, w)' /\ Singles(f.S, o.i, f.B[f.s], u)'
    BY <1>2, <2>1, KeepFront DEF Parts
  <2>3. Vds(f.S, o.i, f.B[f.s], v)' /\ Generated(v)'
    BY <1>2, KeepFront DEF Parts
  <2>4. LongStreams(y)' /\ LongLines(y)'
    BY <1>2, <1>3, <2>1, KeepBack
  <2>5. Out(f.S, f.B[f.s], o)' /\ Sampled(f.S, f.B[f.b], f.B[f.s], o)'
    BY <1>2, KeepBack DEF Parts
  <2>6. /\ Commands(f.S, o.i, f.B[f.s], d, b, 1)' /\ Commands(f.S, o.i, f.B[f.s], d, y, MaxBurst)'
        /\ Linked(y, d, h)' /\ Joined(f.S, f.B[f.s], h, o)'
    BY <1>1, <1>21, <1>24, <1>25, KeepBack
  <2>7. Ordered(f.B[f.s], v, d)' /\ Merged(f.S, o.i, f.B[f.s], h)'
    BY <1>1, <1>23, <1>25
  <2> QED
    BY <1>20, <1>22, <1>26, <2>2, <2>3, <2>4, <2>5, <2>6, <2>7 DEF Parts
<1> QED
  BY <1>27, <1>28 DEF BurstInv

\* The next line of the long bursts is line q of command T and makes packet p,
\* which is line L of its list.
LongFound(S, i, n, y, c, g, p, T, q, L) ==
    /\ y.r1 < y.r2 /\ y.k1 \in y.k1 .. y.k3 - 1 /\ T = y.T[y.k1]
    /\ q \in 0 .. MaxBurst - 1 /\ y.R[y.r1].n = q /\ y.R[y.r1 + 1] = LineBehind([k |-> y.k1, n |-> q])
    /\ T.x = c.lo /\ c.lo < c.hi
    /\ p.end_of_dynamic \in BOOLEAN /\ (p.end_of_dynamic <=> q = MaxBurst - 1)
    /\ Holds(Tail(sync["long"]), LongOf(y.T, y.R), y.r1 + 1, y.r2, 0, None)
    /\ LineMade(S, i, n, c, T, MaxBurst, q, p, L) /\ At(g.Q[g.g2], L.l, L.m)

\* It is the one intra_merge waits for.
LEMMA LongMerged ==
  ASSUME Rest, NEW f \in FrontSet, NEW w \in Seq(Nat), NEW u \in EngineSet, NEW v \in VdSet,
         NEW a \in EngineSet, NEW y \in LongSet, NEW c \in NumberSet, NEW g \in MergedSet,
         NEW o \in OutSet, Parts(f, w, u, v, a, y, c, g, o),
         NEW p, Merges("long", p)
  PROVE  \E q : \E T \in CmdTag, L \in LineTag : LongFound(f.S, o.i, f.B[f.s], y, c, g, p, T, q, L)
<1>1. PICK S, i, n : S = f.S /\ i = o.i /\ n = f.B[f.s]
  OBVIOUS
<1>2. sync["long"] # <<>> /\ p = Head(sync["long"]) /\ p.dynamic_id = intra_id
  BY DEF Merges
<1>3. /\ OneStreams(a) /\ Commands(S, i, n, c, a, 1)
      /\ LongStreams(y) /\ Commands(S, i, n, c, y, MaxBurst) /\ LongLines(y)
      /\ Counted(a, y, c) /\ Linked(y, c, g)
      /\ Requests(f) /\ Numbering(f) /\ Out(S, n, o) /\ Sampled(S, f.B[f.b], n, o)
  BY <1>1 DEF Parts
<1>4. /\ y.k1 \in Nat /\ y.k3 \in Nat /\ y.r1 \in Nat /\ y.r2 \in Nat
      /\ y.T \in [Nat -> CmdTag]
  BY LongFields
<1>5. c.hi - c.lo <= IdMod /\ c.lo \in Nat /\ c.hi \in Nat /\ y.r1 <= y.r2
  BY <1>3, CommandWindow
<1>6. Holds(sync["long"], LongOf(y.T, y.R), y.r1, y.r2, 0, None)
  BY <1>3 DEF LongStreams
<1>7. /\ y.r1 < y.r2 /\ p = LongOf(y.T, y.R)[y.r1]
      /\ Holds(Tail(sync["long"]), LongOf(y.T, y.R), y.r1 + 1, y.r2, 0, None)
  <2>1. sync["long"] # <<>> /\ y.r1 \in Nat /\ y.r2 \in Nat
    BY <1>2, <1>4
  <2>2. /\ y.r1 < y.r2 /\ Head(sync["long"]) = LongOf(y.T, y.R)[y.r1]
        /\ Holds(Tail(sync["long"]), LongOf(y.T, y.R), y.r1 + 1, y.r2, 0, None)
    BY <1>6, <2>1, StreamPop
  <2> QED
    BY <1>2, <2>2
<1>8. PICK x \in y.k1 .. y.k3 - 1 : x = y.k1
  <2>1. y.k1 < y.k3
    BY <1>3, <1>5, <1>7, LongPlace
  <2> QED
    BY <1>4, <2>1
<1>9. PICK q \in 0 .. MaxBurst - 1 :
        /\ y.R[y.r1] = [k |-> y.k1, n |-> q]
        /\ y.R[y.r1 + 1] = LineBehind([k |-> y.k1, n |-> q])
  <2>1. y.r1 \in y.r1 .. y.r2 - 1
    BY <1>4, <1>7
  <2>2. y.R[y.r1].n \in 0 .. MaxBurst - 1 /\ y.R[y.r1 + 1] = LineBehind(y.R[y.r1])
    BY <1>3, <2>1 DEF LongLines, LinesFollow
  <2>3. y.R[y.r1] \in LineRef /\ y.R[y.r1].k = y.k1
    BY <1>3, <1>4, LongFields DEF LongLines
  <2>4. y.R[y.r1] = [k |-> y.k1, n |-> y.R[y.r1].n]
    BY <2>3 DEF LineRef
  <2> QED
    BY <2>2, <2>4
<1>10. PICK T \in CmdTag, e \in BOOLEAN, t \in BOOLEAN :
         /\ T = y.T[x] /\ (t <=> q = MaxBurst - 1) /\ (e <=> q = MaxBurst - 1 /\ T.p.end_of_burst)
         /\ p = SyncPkg(T.p, q, e, t)
  <2>1. PICK T \in CmdTag : T = y.T[x] /\ T.p.end_of_burst \in BOOLEAN
    <3>1. x \in Nat /\ y.T[x] \in CmdTag
      BY <1>4, <1>8
    <3> QED
      BY <3>1 DEF CmdTag, CmdPkg
  <2>2. PICK t \in BOOLEAN : t = (q = MaxBurst - 1)
    OBVIOUS
  <2>3. PICK e \in BOOLEAN : e = (q = MaxBurst - 1 /\ T.p.end_of_burst)
    BY <2>1
  <2>4. p = LongPkg(T.p, q)
    <3>1. y.R[y.r1].k = x /\ y.R[y.r1].n = q /\ y.r1 \in Nat
      BY <1>4, <1>8, <1>9
    <3>2. LongOf(y.T, y.R)[y.r1] = LongPkg(y.T[y.R[y.r1].k].p, y.R[y.r1].n)
      BY <3>1 DEF LongOf
    <3>3. p = LongOf(y.T, y.R)[y.r1]
      BY <1>7
    <3> QED
      BY <2>1, <3>1, <3>2, <3>3
  <2>5. p = SyncPkg(T.p, q, e, t)
    BY <2>2, <2>3, <2>4 DEF LongPkg
  <2> QED
    BY <2>1, <2>2, <2>3, <2>5
<1>11. CmdTagged(S, i, n, c, T, MaxBurst) /\ T.l \in Nat /\ T.m \in Nat /\ T.x \in Nat
  BY <1>3, <1>8, <1>10 DEF Commands, CmdTag
<1>12. T.x = c.lo /\ c.lo < c.hi
  <2>1. c.lo <= T.x /\ T.x < c.hi
    <3>1. Commands(S, i, n, c, y, MaxBurst)
      BY <1>3
    <3>2. c.lo <= y.T[x].x /\ y.T[x].x < c.hi
      BY <1>8, <3>1, CommandNumbers
    <3> QED
      BY <1>10, <3>2
  <2>2. p.dynamic_id = T.x % IdMod
    BY <1>10, <1>11 DEF CmdTagged, SyncPkg
  <2>3. intra_id = c.lo % IdMod
    BY <1>3 DEF Counted
  <2>4. T.x = c.lo
    BY <1>2, <1>5, <1>11, <2>1, <2>2, <2>3, CommandFound
  <2> QED
    BY <2>1, <2>4
<1>13. Lines(S[T.l].p.vertex) \in Nat
  <2>1. T.l \in i .. n - 1
    BY <1>11 DEF CmdTagged, CmdOfList, Listed
  <2>2. o.i \in Nat /\ FirstId <= o.i
    <3>1. o.i \in Nat /\ o.t \in Nat /\ f.B[f.b] \in Nat
      BY PlaceFields, <1>3, ListWindow
    <3>2. f.B[f.b] <= o.t /\ o.t <= o.i /\ FirstId <= f.B[f.b]
      BY <1>3, ListWindow DEF Out, Sampled
    <3> QED
      BY <3>1, <3>2, Sizes
  <2> QED
    BY <1>1, <1>3, <2>1, <2>2, CommandLinesKnown
<1>14. PICK L \in LineTag : LineMade(S, i, n, c, T, MaxBurst, q, p, L)
  <2>1. MaxBurst \in Nat
    BY Sizes
  <2>2. CmdTagged(S, i, n, c, T, MaxBurst)
    BY <1>11
  <2> QED
    BY <1>9, <1>10, <1>13, <2>1, <2>2, LineOfCommand
<1>15. At(g.Q[g.g2], L.l, L.m)
  <2>1. L.l = T.l /\ L.m = T.m + q
    BY <1>14 DEF LineMade
  <2>2. CASE q = 0
    <3>1. g.Q[g.g2] = c.P[c.lo]
      BY <1>3, <1>9, <2>2 DEF Linked
    <3>2. At(c.P[c.lo], T.l, T.m) /\ L.m = T.m
      BY <1>11, <1>12, <2>1, <2>2 DEF CmdTagged
    <3> QED
      BY <2>1, <3>1, <3>2
  <2>3. CASE q # 0
    <3>1. g.Q[g.g2] = [l |-> T.l, m |-> T.m + q]
      BY <1>3, <1>8, <1>9, <1>10, <2>3 DEF Linked
    <3> QED
      BY <1>11, <2>1, <3>1 DEF At
  <2> QED
    BY <2>2, <2>3
<1>16. p.end_of_dynamic \in BOOLEAN /\ (p.end_of_dynamic <=> q = MaxBurst - 1)
  BY <1>10 DEF SyncPkg
<1>17. LongFound(S, i, n, y, c, g, p, T, q, L)
  BY <1>7, <1>8, <1>9, <1>10, <1>12, <1>14, <1>15, <1>16 DEF LongFound
<1> QED
  BY <1>1, <1>17

\* Record b is record y behind its next line.
LongNext(y, b) ==
    /\ b.T = y.T /\ b.R = y.R /\ b.k1 = y.R[y.r1 + 1].k /\ b.k2 = y.k2 /\ b.k3 = y.k3
    /\ b.z = y.z /\ b.r1 = y.r1 + 1 /\ b.r2 = y.r2

\* There is such a record.
LEMMA LongPasses ==
  ASSUME NEW y \in LongSet, LongLines(y), y.r1 < y.r2
  PROVE  \E b \in LongSet : LongNext(y, b) /\ LongLines(b)
<1>1. /\ y.k1 \in Nat /\ y.k2 \in Nat /\ y.k3 \in Nat /\ y.r1 \in Nat /\ y.r2 \in Nat
      /\ y.R[y.r1 + 1].k \in Nat /\ y.r1 + 1 \in Nat
  BY LongFields
<1>2. PICK k \in Nat, r \in Nat : k = y.R[y.r1 + 1].k /\ r = y.r1 + 1
  BY <1>1
<1> DEFINE b == [y EXCEPT !.k1 = k, !.r1 = r]
<1>3. /\ b \in LongSet /\ b.T = y.T /\ b.R = y.R /\ b.k1 = k /\ b.k2 = y.k2 /\ b.k3 = y.k3
      /\ b.z = y.z /\ b.r1 = r /\ b.r2 = y.r2
  BY <1>2 DEF LongSet
<1> HIDE DEF b
<1>4. /\ y.k2 <= y.k3 /\ y.R[y.r2] = [k |-> y.k2, n |-> j]
      /\ j \in 0 .. MaxBurst - 1 /\ (j # 0 => y.k2 < y.k3)
      /\ \A x \in y.r1 .. y.r2 - 1 :
           y.R[x].k < y.k3 /\ y.R[x].n \in 0 .. MaxBurst - 1 /\ y.R[x + 1] = LineBehind(y.R[x])
      /\ \A x, m \in y.r1 .. y.r2 : x <= m => y.R[x].k <= y.R[m].k /\ y.R[m].k - y.R[x].k <= m - x
  BY DEF LongLines, LinesFollow
<1>5. /\ \A x \in r .. y.r2 - 1 : x \in y.r1 .. y.r2 - 1
      /\ \A x \in r .. y.r2 : x \in y.r1 .. y.r2
      /\ r \in y.r1 .. y.r2 /\ y.r2 \in y.r1 .. y.r2 /\ r <= y.r2
  BY <1>1, <1>2
<1>6. LinesFollow(y.R, r, y.r2, y.k3)
  BY <1>4, <1>5 DEF LinesFollow
<1>7. k <= y.k2
  BY <1>2, <1>4, <1>5
<1>8. y.R[r].k = k
  BY <1>2
<1>9. LongLines(b)
  BY <1>3, <1>4, <1>6, <1>7, <1>8 DEF LongLines
<1>10. LongNext(y, b)
  BY <1>2, <1>3 DEF LongNext
<1> QED
  BY <1>3, <1>9, <1>10

\* What intra_merge does to the records of the commands when it takes a line of a
\* long burst.
LongTaken(S, i, n, v, a, y, g, h, b, d) ==
    /\ LongNext(y, b) /\ LongLines(b) /\ Commands(S, i, n, d, a, 1)
    /\ Commands(S, i, n, d, b, MaxBurst) /\ Counted(a, b, d)' /\ Ordered(n, v, d) /\ Linked(b, d, h)

\* The last line of a burst: its command is done with.
LEMMA LongDone ==
  ASSUME NEW S, NEW i, NEW n, NEW v, NEW a \in EngineSet, NEW y \in LongSet, NEW c \in NumberSet,
         Commands(S, i, n, c, a, 1), Commands(S, i, n, c, y, MaxBurst), LongLines(y),
         Counted(a, y, c), Ordered(n, v, c), NEW g, NEW h, NEW p, Merges("long", p),
         NEW T, NEW q, NEW L, LongFound(S, i, n, y, c, g, p, T, q, L), q = MaxBurst - 1,
         MoreLines(g, h, L)
  PROVE  \E b \in LongSet, d \in NumberSet : LongTaken(S, i, n, v, a, y, g, h, b, d)
<1>1. /\ a.k1 \in Nat /\ a.k3 \in Nat /\ y.k1 \in Nat /\ y.k3 \in Nat /\ c.lo \in Nat
  BY EngineFields, LongFields, PlaceFields
<1>2. /\ y.r1 < y.r2 /\ y.k1 \in y.k1 .. y.k3 - 1 /\ T = y.T[y.k1]
      /\ y.R[y.r1 + 1] = LineBehind([k |-> y.k1, n |-> q]) /\ T.x = c.lo /\ c.lo < c.hi
      /\ p.end_of_dynamic
      /\ LineMade(S, i, n, c, T, MaxBurst, q, p, L)
  BY DEF LongFound
<1>3. PICK b \in LongSet : LongNext(y, b) /\ LongLines(b)
  BY <1>2, LongPasses
<1>4. PICK d \in NumberSet : NextNumber(c, d)
  BY NumbersPass
<1>5. y.R[y.r1 + 1] = [k |-> y.k1 + 1, n |-> 0]
  BY <1>2 DEF LineBehind
<1>6. /\ b.T = y.T /\ b.R = y.R /\ b.k1 = y.k1 + 1 /\ b.k3 = y.k3 /\ b.r1 = y.r1 + 1
  BY <1>3, <1>5 DEF LongNext
<1>7. Commands(S, i, n, d, a, 1)
  <2>1. \A r \in a.k1 .. a.k3 - 1 : a.T[r].x # c.lo
    BY <1>2 DEF Counted
  <2> QED
    BY <1>4, <2>1, CommandsPass
<1>8. Commands(S, i, n, d, b, MaxBurst)
  <2>1. \A r \in y.k1 + 1 .. y.k3 - 1 : r \in y.k1 .. y.k3 - 1 /\ y.k1 < r
    BY <1>1
  <2>2. \A r \in b.k1 .. b.k3 - 1 : r \in y.k1 .. y.k3 - 1 /\ y.k1 < r
    BY <1>6, <2>1
  <2>3. ASSUME NEW r \in b.k1 .. b.k3 - 1 PROVE b.T[r].x # c.lo
    <3>1. r \in y.k1 .. y.k3 - 1 /\ y.k1 < r
      BY <2>2
    <3>2. y.T[y.k1].x < y.T[r].x
      BY <1>2, <3>1 DEF Commands
    <3>3. y.T[r].x \in Nat
      BY <3>1, CommandNumbers
    <3>4. c.lo < y.T[r].x
      BY <1>2, <3>2
    <3> QED
      BY <1>1, <1>6, <3>3, <3>4
  <2> QED
    BY <1>4, <1>6, <2>2, <2>3, CommandsPass
<1>9. Counted(a, b, d)'
  <2>1. intra_id' = Succ(intra_id) /\ dynamic_burst_id' = dynamic_burst_id
    BY <1>2 DEF Merges
  <2> QED
    BY <1>1, <1>2, <1>4, <1>6, <2>1, CountedPass
<1>10. Ordered(n, v, d)
  BY <1>4 DEF Ordered, NextNumber
<1>11. Linked(b, d, h)
  <2>1. h.Q[h.g2] = c.P[c.lo + 1]
    BY <1>2 DEF MoreLines, LineMade
  <2>2. b.R[b.r1].n = 0
    BY <1>5, <1>6
  <2> QED
    BY <1>4, <2>1, <2>2 DEF Linked, NextNumber
<1> QED
  BY <1>3, <1>4, <1>7, <1>8, <1>9, <1>10, <1>11 DEF LongTaken

\* Another line of a burst.
LEMMA LongGoesOn ==
  ASSUME NEW S, NEW i, NEW n, NEW v, NEW a \in EngineSet, NEW y \in LongSet, NEW c \in NumberSet,
         Commands(S, i, n, c, a, 1), Commands(S, i, n, c, y, MaxBurst), LongLines(y),
         Counted(a, y, c), Ordered(n, v, c), NEW g, NEW h, NEW p, Merges("long", p),
         NEW T, NEW q, NEW L, LongFound(S, i, n, y, c, g, p, T, q, L), q # MaxBurst - 1,
         MoreLines(g, h, L)
  PROVE  \E b \in LongSet, d \in NumberSet : LongTaken(S, i, n, v, a, y, g, h, b, d)
<1>1. q \in Nat /\ q + 1 # 0
  <2>1. q \in 0 .. MaxBurst - 1
    BY DEF LongFound
  <2> QED
    BY <2>1, Sizes
<1>2. /\ y.r1 < y.r2 /\ T = y.T[y.k1]
      /\ y.R[y.r1 + 1] = LineBehind([k |-> y.k1, n |-> q]) /\ T.x = c.lo
      /\ p.end_of_dynamic \in BOOLEAN /\ ~p.end_of_dynamic
      /\ LineMade(S, i, n, c, T, MaxBurst, q, p, L)
  BY DEF LongFound
<1>3. PICK b \in LongSet : LongNext(y, b) /\ LongLines(b)
  BY <1>2, LongPasses
<1>4. y.R[y.r1 + 1] = [k |-> y.k1, n |-> q + 1]
  BY <1>2 DEF LineBehind
<1>5. b.T = y.T /\ b.R = y.R /\ b.k1 = y.k1 /\ b.k3 = y.k3 /\ b.r1 = y.r1 + 1
  BY <1>3, <1>4 DEF LongNext
<1>6. Commands(S, i, n, c, b, MaxBurst) /\ Counted(a, b, c)
  BY <1>5 DEF Commands, Counted
<1>7. Counted(a, b, c)'
  <2>1. intra_id' = intra_id /\ dynamic_burst_id' = dynamic_burst_id
    BY <1>2 DEF Merges
  <2> QED
    BY <1>6, <2>1, KeepBack
<1>8. Linked(b, c, h)
  <2>1. h.Q[h.g2] = [l |-> T.l, m |-> T.m + (q + 1)]
    BY <1>2 DEF MoreLines, LineMade
  <2>2. b.R[b.r1].n = q + 1 /\ b.T[b.k1] = T
    BY <1>2, <1>4, <1>5
  <2> QED
    BY <1>1, <1>2, <2>1, <2>2 DEF Linked
<1> QED
  BY <1>3, <1>6, <1>7, <1>8 DEF LongTaken

\* intra_merge passes a line of dynamic_burst_32 on.
LEMMA MergeLongStep ==
  ASSUME Rest, NEW f \in FrontSet, NEW w \in Seq(Nat), NEW u \in EngineSet, NEW v \in VdSet,
         NEW a \in EngineSet, NEW y \in LongSet, NEW c \in NumberSet, NEW g \in MergedSet,
         NEW o \in OutSet, Parts(f, w, u, v, a, y, c, g, o),
         NEW p, Merges("long", p)
  PROVE  BurstInv'
<1>1. PICK S, i, n : S = f.S /\ i = o.i /\ n = f.B[f.s]
  OBVIOUS
<1>2. /\ sync["long"] # <<>> /\ p = Head(sync["long"])
      /\ DOMAIN sync' = Sources /\ sync'["long"] = Tail(sync["long"])
      /\ sync'["dynamic"] = Append(sync["dynamic"], p)
      /\ UNCHANGED <<sync["single"], sync["one"]>>
      /\ UNCHANGED <<asked, input, vs_pc, sync_id, sync_burst_id, update, burst_vd, curr,
                     dynamic_burst_id, cmd, running, j, inter_id, inter_out, selected, next_vertex,
                     update_id, pending, shown>>
  BY DEF Merges
<1>3. /\ Stops(u, v, a, y) /\ Commands(S, i, n, c, a, 1)
      /\ LongStreams(y) /\ Commands(S, i, n, c, y, MaxBurst) /\ LongLines(y)
      /\ Counted(a, y, c) /\ Merged(S, i, n, g) /\ Joined(S, n, g, o) /\ Ordered(n, v, c)
  BY <1>1 DEF Parts
<1>4. PICK q : \E T \in CmdTag, L \in LineTag : LongFound(S, i, n, y, c, g, p, T, q, L)
  BY <1>1, LongMerged
<1>5. PICK T \in CmdTag, L \in LineTag : LongFound(S, i, n, y, c, g, p, T, q, L)
  BY <1>4
<1>6. PICK h \in MergedSet : MoreLines(g, h, L)
  BY LinesGrow
<1>7. PICK b \in LongSet, d \in NumberSet : LongTaken(S, i, n, v, a, y, g, h, b, d)
  BY <1>3, <1>5, <1>6, LongDone, LongGoesOn
<1>8. /\ LongNext(y, b) /\ LongLines(b) /\ Commands(S, i, n, d, a, 1)
      /\ Commands(S, i, n, d, b, MaxBurst) /\ Counted(a, b, d)' /\ Ordered(n, v, d) /\ Linked(b, d, h)
  BY <1>7 DEF LongTaken
<1>9. /\ Holds(sync'["long"], LongOf(y.T, y.R), y.r1 + 1, y.r2, 0, None)
      /\ L.p = p /\ MergedLine(S, i, n, L) /\ At(g.Q[g.g2], L.l, L.m)
  BY <1>2, <1>5 DEF LongFound, LineMade
<1>10. LongStreams(b)'
  <2>1. /\ b.T = y.T /\ b.R = y.R /\ b.k2 = y.k2 /\ b.k3 = y.k3
        /\ b.z = y.z /\ b.r1 = y.r1 + 1 /\ b.r2 = y.r2
    BY <1>8 DEF LongNext
  <2>2. cmd' = cmd
    BY <1>2
  <2> QED
    BY <1>3, <1>9, <2>1, <2>2 DEF LongStreams, Commanded
<1>11. Merged(S, i, n, h)' /\ Joined(S, n, h, o)
  <2>1. sync'["dynamic"] = Append(sync["dynamic"], L.p)
    BY <1>2, <1>9
  <2> QED
    BY <1>3, <1>5, <1>6, <1>9, <2>1, MergedPut
<1>12. Stops(u, v, a, b)'
  <2>1. b.k2 = y.k2 /\ b.k3 = y.k3 /\ b.z = y.z
    BY <1>8 DEF LongNext
  <2> QED
    BY <1>2, <1>3, <2>1 DEF Stops
<1>13. Rest'
  <2>1. Len(sync'["long"]) <= SyncDepth
    <3>1. IsSeq(sync["long"]) /\ Len(sync["long"]) <= SyncDepth
      BY <1>3 DEF Holds, Rest, LongStreams
    <3> QED
      BY <1>2, <3>1, Sizes, WithinDepth
  <2> QED
    BY <1>2, <2>1 DEF Rest
<1>14. Parts(f, w, u, v, a, b, d, h, o)'
  <2>1. UNCHANGED <<cmd["single"], cmd["one"], cmd["long"], sync["single"], sync["one"]>>
    BY <1>2
  <2>2. Requests(f)' /\ Numbering(f)' /\ Empties(f, w)' /\ Singles(f.S, o.i, f.B[f.s], u)'
    BY <1>2, <2>1, KeepFront DEF Parts
  <2>3. Vds(f.S, o.i, f.B[f.s], v)' /\ Generated(v)'
    BY <1>2, KeepFront DEF Parts
  <2>4. OneStreams(a)' /\ LongLines(b)'
    BY <1>2, <1>8, <2>1, KeepBack DEF Parts
  <2>5. Out(f.S, f.B[f.s], o)' /\ Sampled(f.S, f.B[f.b], f.B[f.s], o)'
    BY <1>2, KeepBack DEF Parts
  <2>6. /\ Commands(f.S, o.i, f.B[f.s], d, a, 1)' /\ Commands(f.S, o.i, f.B[f.s], d, b, MaxBurst)'
        /\ Linked(b, d, h)' /\ Joined(f.S, f.B[f.s], h, o)'
    BY <1>1, <1>8, <1>11, KeepBack
  <2>7. Ordered(f.B[f.s], v, d)'
    <3>1. Ordered(f.B[f.s], v, d) /\ curr' = curr
      BY <1>1, <1>2, <1>8
    <3> QED
      BY <3>1, KeepBack
  <2>8. Merged(f.S, o.i, f.B[f.s], h)' /\ Counted(a, b, d)'
    BY <1>1, <1>8, <1>11
  <2> QED
    BY <1>10, <1>12, <2>2, <2>3, <2>4, <2>5, <2>6, <2>7, <2>8 DEF Parts
<1> QED
  BY <1>13, <1>14 DEF BurstInv

\* intra_merge passes a line on.
LEMMA IntraMergeStep ==
  ASSUME Rest, NEW f \in FrontSet, NEW w \in Seq(Nat), NEW u \in EngineSet, NEW v \in VdSet,
         NEW a \in EngineSet, NEW y \in LongSet, NEW c \in NumberSet, NEW g \in MergedSet,
         NEW o \in OutSet, Parts(f, w, u, v, a, y, c, g, o), IntraMerge
  PROVE  BurstInv'
<1>1. PICK e, p : Merges(e, p)
  BY IntraMerges
<1>2. e = "one" \/ e = "long"
  BY <1>1 DEF Merges
<1>3. CASE e = "one"
  <2>1. Merges("one", p)
    BY <1>1, <1>3
  <2> QED
    BY <2>1, MergeOneStep
<1>4. CASE e = "long"
  <2>1. Merges("long", p)
    BY <1>1, <1>4
  <2> QED
    BY <2>1, MergeLongStep
<1> QED
  BY <1>2, <1>3, <1>4

\* The first of some numbers in a row.
LEMMA FirstOfRow ==
  ASSUME NEW b \in Nat, NEW e \in Nat
  PROVE  /\ \A h \in b .. e - 1 : b < e /\ b \in b .. e - 1 /\ h \in Nat /\ (h = b \/ b < h)
         /\ b < e => b \in b .. e - 1
         /\ b <= e /\ b # e => b + 1 <= e
OBVIOUS

\* Everything intra_merge has not passed on is behind its place.
LEMMA AllBehind ==
  ASSUME NEW S, NEW i, NEW n, NEW v \in VdSet, NEW a \in EngineSet, NEW y \in LongSet,
         NEW c \in NumberSet, NEW g \in MergedSet,
         Vds(S, i, n, v), Commands(S, i, n, c, a, 1), Commands(S, i, n, c, y, MaxBurst),
         LongLines(y), y.r1 <= y.r2, Counted(a, y, c), Ordered(n, v, c), Linked(y, c, g)
  PROVE  /\ \A h \in a.k1 .. a.k3 - 1 : g.Q[g.g2].l <= a.T[h].l
         /\ \A h \in y.k1 .. y.k3 - 1 : g.Q[g.g2].l <= y.T[h].l
         /\ \A k \in v.p .. v.q - 1 : g.Q[g.g2].l <= v.T[k].l
<1>1. /\ c.lo \in Nat /\ c.hi \in Nat /\ y.k1 \in Nat /\ y.k3 \in Nat
      /\ a.k1 \in Nat /\ a.k3 \in Nat /\ v.p \in Nat /\ v.q \in Nat
      /\ \A x \in Nat : c.P[x].l \in Nat
      /\ \A x \in Nat : a.T[x].l \in Nat /\ y.T[x].l \in Nat /\ v.T[x].l \in Nat
  BY PlaceFields, EngineFields, LongFields, VdFields
<1>2. PICK q \in Nat : q = g.Q[g.g2].l
  BY PlaceFields
<1>3. /\ c.lo <= c.hi
      /\ \A h \in a.k1 .. a.k3 - 1, m \in y.k1 .. y.k3 - 1 : a.T[h].x # y.T[m].x
      /\ \A h, m \in c.lo .. c.hi : h <= m => c.P[h].l <= c.P[m].l
  BY DEF Counted
<1>4. PICK z \in c.lo .. c.hi :
        /\ q <= c.P[z].l
        /\ z = c.lo \/ (z = c.lo + 1 /\ y.k1 < y.k3 /\ y.T[y.k1].x = c.lo /\ q = y.T[y.k1].l)
  <2>1. CASE y.R[y.r1].n = 0
    <3>1. q = c.P[c.lo].l
      BY <1>2, <2>1 DEF Linked
    <3> QED
      BY <1>1, <1>3, <3>1
  <2>2. CASE y.R[y.r1].n # 0
    <3>1. y.T[y.k1].x = c.lo /\ q = y.T[y.k1].l
      BY <1>2, <2>2 DEF Linked
    <3>2. y.k1 < y.k3
      BY <2>2, LongPlace
    <3>3. y.k1 \in y.k1 .. y.k3 - 1
      BY <1>1, <3>2
    <3>4. PICK T \in CmdTag : T = y.T[y.k1]
      BY <1>1, LongFields
    <3>5. CmdTagged(S, i, n, c, T, MaxBurst)
      BY <3>3, <3>4 DEF Commands
    <3>6. c.P[c.lo + 1] = Behind(T.l, T.m, MaxBurst, T.p.end_of_burst) /\ c.lo \in c.lo .. c.hi - 1
      BY <3>1, <3>4, <3>5 DEF CmdTagged
    <3>7. T.l <= c.P[c.lo + 1].l
      <4>1. T.l \in Nat /\ T.m \in Nat /\ T.p.end_of_burst \in BOOLEAN /\ MaxBurst \in Nat
        BY <3>4, Sizes DEF CmdTag, CmdPkg
      <4>2. PlaceBehind(Behind(T.l, T.m, MaxBurst, T.p.end_of_burst), T.l, T.m, MaxBurst,
                        T.p.end_of_burst)
        BY <4>1, BehindPlace
      <4> QED
        BY <3>6, <4>2 DEF PlaceBehind
    <3>8. c.lo + 1 \in c.lo .. c.hi
      BY <1>1, <3>6
    <3> QED
      BY <3>1, <3>2, <3>4, <3>7, <3>8
  <2> QED
    BY <2>1, <2>2
<1>5. \A x \in Nat : z <= x /\ x <= c.hi => q <= c.P[x].l
  <2>1. ASSUME NEW x \in Nat, z <= x, x <= c.hi PROVE q <= c.P[x].l
    <3>1. z \in Nat /\ x \in c.lo .. c.hi
      BY <1>1, <1>4, <2>1
    <3>2. c.P[z].l <= c.P[x].l /\ c.P[z].l \in Nat /\ c.P[x].l \in Nat
      BY <1>1, <1>3, <1>4, <2>1, <3>1
    <3> QED
      BY <1>4, <3>2
  <2> QED
    BY <2>1
<1>6. ASSUME NEW k \in Nat, NEW T \in CmdTag, CmdTagged(S, i, n, c, T, k), z <= T.x
      PROVE  q <= T.l
  <2>1. T.x \in Nat /\ T.x <= c.hi /\ c.P[T.x].l <= T.l /\ c.P[T.x].l \in Nat /\ T.l \in Nat
    <3>1. T.x \in c.lo .. c.hi - 1 /\ At(c.P[T.x], T.l, T.m) /\ T.l \in Nat
      BY <1>6 DEF CmdTagged, CmdTag
    <3>2. T.x \in Nat /\ T.x <= c.hi
      BY <1>1, <3>1
    <3> QED
      BY <1>1, <3>1, <3>2 DEF At
  <2>2. q <= c.P[T.x].l
    BY <1>5, <1>6, <2>1
  <2> QED
    BY <2>1, <2>2
<1>7. ASSUME NEW h \in a.k1 .. a.k3 - 1 PROVE q <= a.T[h].l
  <2>1. PICK T \in CmdTag : T = a.T[h]
    BY <1>1, EngineFields
  <2>2. CmdTagged(S, i, n, c, T, 1) /\ T.x \in Nat /\ c.lo <= T.x
    <3>1. T.x \in c.lo .. c.hi - 1 /\ CmdTagged(S, i, n, c, T, 1)
      BY <1>7, <2>1 DEF Commands, CmdTagged
    <3> QED
      BY <1>1, <3>1
  <2>3. z <= T.x
    <3>1. CASE z = c.lo
      BY <2>2, <3>1
    <3>2. CASE z = c.lo + 1 /\ y.k1 < y.k3 /\ y.T[y.k1].x = c.lo
      <4>1. y.k1 \in y.k1 .. y.k3 - 1
        BY <1>1, <3>2
      <4>2. T.x # c.lo
        BY <1>3, <1>7, <2>1, <3>2, <4>1
      <4> QED
        BY <1>1, <2>2, <3>2, <4>2, FirstOfRow
    <3> QED
      BY <1>4, <3>1, <3>2
  <2>4. 1 \in Nat
    OBVIOUS
  <2> QED
    BY <1>6, <2>1, <2>2, <2>3, <2>4
<1>8. ASSUME NEW h \in y.k1 .. y.k3 - 1 PROVE q <= y.T[h].l
  <2>1. PICK T \in CmdTag : T = y.T[h]
    BY <1>1, LongFields
  <2>2. CmdTagged(S, i, n, c, T, MaxBurst) /\ T.x \in Nat /\ c.lo <= T.x
    <3>1. T.x \in c.lo .. c.hi - 1 /\ CmdTagged(S, i, n, c, T, MaxBurst)
      BY <1>8, <2>1 DEF Commands, CmdTagged
    <3> QED
      BY <1>1, <3>1
  <2>3. MaxBurst \in Nat
    BY Sizes
  <2>4. CASE z = c.lo
    BY <1>6, <2>1, <2>2, <2>3, <2>4
  <2>5. CASE z = c.lo + 1 /\ y.k1 < y.k3 /\ y.T[y.k1].x = c.lo /\ q = y.T[y.k1].l
    <3>1. y.k1 \in y.k1 .. y.k3 - 1 /\ (h = y.k1 \/ y.k1 < h)
      BY <1>1, <1>8, FirstOfRow
    <3>2. CASE h = y.k1
      BY <1>1, <2>5, <3>2
    <3>3. CASE y.k1 < h
      <4>1. y.T[y.k1].x < T.x
        BY <1>8, <2>1, <3>1, <3>3 DEF Commands
      <4>2. z <= T.x
        BY <1>1, <2>2, <2>5, <4>1
      <4> QED
        BY <1>6, <2>1, <2>2, <2>3, <4>2
    <3> QED
      BY <3>1, <3>2, <3>3
  <2> QED
    BY <1>4, <2>4, <2>5
<1>9. ASSUME NEW k \in v.p .. v.q - 1 PROVE q <= v.T[k].l
  <2>1. v.p < v.q /\ v.p \in v.p .. v.q - 1 /\ k \in Nat /\ (k = v.p \/ v.p < k)
    BY <1>1, <1>9, FirstOfRow
  <2>2. c.P[c.hi].l <= v.T[v.p].l
    BY <2>1 DEF Ordered, At
  <2>3. q <= c.P[c.hi].l
    <3>1. z <= c.hi /\ c.hi <= c.hi
      BY <1>1, <1>4
    <3> QED
      BY <1>1, <1>5, <3>1
  <2>4. v.T[v.p].l <= v.T[k].l
    <3>1. CASE k = v.p
      BY <1>1, <3>1
    <3>2. CASE v.p < k
      <4>1. v.T[v.p].l < v.T[k].l
        BY <1>9, <2>1, <3>2 DEF Vds
      <4> QED
        BY <1>1, <2>1, <4>1
    <3> QED
      BY <2>1, <3>1, <3>2
  <2>5. c.P[c.hi].l \in Nat /\ v.T[v.p].l \in Nat /\ v.T[k].l \in Nat
    BY <1>1, <2>1
  <2> QED
    BY <2>2, <2>3, <2>4, <2>5
<1> QED
  BY <1>2, <1>7, <1>8, <1>9

\* The lists in front of i2 are done with: what is not made of them is made of
\* the others.
LEMMA ListsPass ==
  ASSUME NEW S, NEW i \in Nat, NEW i2 \in Nat, NEW n \in Nat
  PROVE  /\ \A u : Singles(S, i, n, u) /\ (\A k \in u.k1 .. u.k3 - 1 : i2 <= u.T[k].l)
                     => Singles(S, i2, n, u)
         /\ \A v : Vds(S, i, n, v) /\ (\A k \in v.p .. v.q - 1 : i2 <= v.T[k].l) => Vds(S, i2, n, v)
         /\ \A c, a, k : Commands(S, i, n, c, a, k) /\ (\A h \in a.k1 .. a.k3 - 1 : i2 <= a.T[h].l)
                           => Commands(S, i2, n, c, a, k)
         /\ \A g : Merged(S, i, n, g) /\ (\A h \in g.g1 .. g.g2 - 1 : i2 <= g.G[h].l)
                     => Merged(S, i2, n, g)
<1>1. n <= n /\ SameLists(S, S, n)
  BY DEF SameLists
<1>2. \A T : i2 <= T.l =>
        /\ SingleTag(S, i, n, T) => SingleTag(S, i2, n, T)
        /\ VdTagged(S, i, n, T) => VdTagged(S, i2, n, T)
        /\ MergedLine(S, i, n, T) => MergedLine(S, i2, n, T)
  BY <1>1, TagMove
<1>3. \A T, c, k : i2 <= T.l /\ CmdTagged(S, i, n, c, T, k) => CmdTagged(S, i2, n, c, T, k)
  BY <1>1, CommandMove
<1>4. ASSUME NEW u, Singles(S, i, n, u), \A k \in u.k1 .. u.k3 - 1 : i2 <= u.T[k].l
      PROVE  Singles(S, i2, n, u)
  BY <1>2, <1>4 DEF Singles
<1>5. ASSUME NEW v, Vds(S, i, n, v), \A k \in v.p .. v.q - 1 : i2 <= v.T[k].l
      PROVE  Vds(S, i2, n, v)
  BY <1>2, <1>5 DEF Vds
<1>6. ASSUME NEW c, NEW a, NEW k, Commands(S, i, n, c, a, k),
             \A h \in a.k1 .. a.k3 - 1 : i2 <= a.T[h].l
      PROVE  Commands(S, i2, n, c, a, k)
  BY <1>3, <1>6 DEF Commands
<1>7. ASSUME NEW g, Merged(S, i, n, g), \A h \in g.g1 .. g.g2 - 1 : i2 <= g.G[h].l
      PROVE  Merged(S, i2, n, g)
  BY <1>2, <1>7 DEF Merged
<1> QED
  BY <1>4, <1>5, <1>6, <1>7

\* Record x is record o with the line p behind it.
MoreOut(o, x, p) ==
    /\ x.K[o.k2] = p /\ SameLists(o.K, x.K, o.k2)
    /\ x.J[o.k2 + 1] = Behind(o.i, o.mi, 1, p.end_of_burst) /\ SameLists(o.J, x.J, o.k2 + 1)
    /\ x.k1 = o.k1 /\ x.k2 = o.k2 + 1 /\ x.t = o.t /\ x.mt = o.mt
    /\ [l |-> x.i, m |-> x.mi] = Behind(o.i, o.mi, 1, p.end_of_burst)

\* There is such a record.
LEMMA OutGetsLine ==
  ASSUME NEW o \in OutSet, NEW p \in LinePkg
  PROVE  \E x \in OutSet : MoreOut(o, x, p)
<1>1. /\ o.K \in [Nat -> LinePkg]
      /\ o.J \in [Nat -> PlaceSet]
      /\ o.k2 \in Nat
      /\ o.i \in Nat
      /\ o.mi \in Nat
  BY PlaceFields
<1>2. PICK e \in Nat, k \in Nat, end \in BOOLEAN : e = o.k2 + 1 /\ k = o.k2 /\ end = p.end_of_burst
  BY <1>1 DEF LinePkg
<1>3. PICK b \in PlaceSet : b = Behind(o.i, o.mi, 1, end)
  <2>1. 1 \in Nat
    OBVIOUS
  <2>2. PlaceBehind(Behind(o.i, o.mi, 1, end), o.i, o.mi, 1, end)
    BY <1>1, <1>2, <2>1, BehindPlace
  <2> QED
    BY <2>2 DEF PlaceBehind
<1>4. PICK X, Y : X = [o.K EXCEPT ![k] = p] /\ Y = [o.J EXCEPT ![e] = b]
  OBVIOUS
<1>5. /\ X \in [Nat -> LinePkg] /\ X[k] = p /\ \A r \in Nat : r # k => X[r] = o.K[r]
      /\ Y \in [Nat -> PlaceSet] /\ Y[e] = b /\ \A r \in Nat : r # e => Y[r] = o.J[r]
  BY <1>1, <1>2, <1>3, <1>4, Entered
<1>6. SameLists(o.K, X, k) /\ SameLists(o.J, Y, e)
  <2>1. \A r \in Nat : (r < k => r # k) /\ (r < e => r # e)
    BY <1>2
  <2> QED
    BY <1>5, <2>1 DEF SameLists
<1>7. PICK l \in Nat, m \in Nat : l = b.l /\ m = b.m
  BY <1>3 DEF PlaceSet
<1> DEFINE x == [o EXCEPT !.K = X, !.J = Y, !.k2 = e, !.i = l, !.mi = m]
<1>8. /\ x \in OutSet /\ x.K = X /\ x.J = Y /\ x.k1 = o.k1 /\ x.k2 = e /\ x.i = l /\ x.mi = m
      /\ x.t = o.t /\ x.mt = o.mt
  BY <1>2, <1>5, <1>7, ZenonT(60) DEF OutSet
<1> HIDE DEF x
<1>9. [l |-> x.i, m |-> x.mi] = b
  BY <1>3, <1>7, <1>8 DEF PlaceSet
<1>10. MoreOut(o, x, p)
  BY <1>2, <1>3, <1>5, <1>6, <1>8, <1>9 DEF MoreOut
<1> QED
  BY <1>8, <1>10

\* The place of inter_merge behind its line.
LEMMA OutPlace ==
  ASSUME NEW o \in OutSet, NEW p \in LinePkg, NEW x, MoreOut(o, x, p)
  PROVE  /\ p.end_of_burst => x.i = o.i + 1 /\ x.mi = 0
         /\ ~p.end_of_burst => x.i = o.i /\ x.mi = o.mi + 1
         /\ x.i \in Nat /\ x.mi \in Nat /\ o.i <= x.i /\ x.i <= o.i + 1
<1>1. o.i \in Nat /\ o.mi \in Nat /\ 1 \in Nat /\ p.end_of_burst \in BOOLEAN
  BY PlaceFields DEF LinePkg
<1>2. PICK b : b = Behind(o.i, o.mi, 1, p.end_of_burst) /\ b = [l |-> x.i, m |-> x.mi]
  BY DEF MoreOut
<1>3. PlaceBehind(b, o.i, o.mi, 1, p.end_of_burst)
  BY <1>1, <1>2, BehindPlace
<1>4. x.i = b.l /\ x.mi = b.m
  BY <1>2
<1> QED
  BY <1>3, <1>4 DEF PlaceBehind

\* The lines behind inter_merge, when there is one more.
LEMMA OutPut ==
  ASSUME NEW S, NEW n \in Nat, NEW o \in OutSet, Out(S, n, o), NEW p \in LinePkg,
         LineOfList(S, FirstId, n, o.i, o.mi, p), o.i < n, NEW x, MoreOut(o, x, p),
         inter_out' = Append(inter_out, p),
         p.end_of_burst => inter_id' = Succ(inter_id), ~p.end_of_burst => UNCHANGED inter_id
  PROVE  Out(S, n, x)'
<1>1. /\ o.k1 \in Nat /\ o.k2 \in Nat /\ o.i \in Nat /\ o.mi \in Nat /\ o.t \in Nat
      /\ p.end_of_burst \in BOOLEAN
      /\ \A r \in Nat : o.J[r].l \in Nat
  BY PlaceFields DEF LinePkg
<1>2. /\ x.K[o.k2] = p /\ \A r \in Nat : r < o.k2 => x.K[r] = o.K[r]
      /\ x.J[o.k2 + 1] = Behind(o.i, o.mi, 1, p.end_of_burst)
      /\ \A r \in Nat : r < o.k2 + 1 => x.J[r] = o.J[r]
      /\ x.k1 = o.k1 /\ x.k2 = o.k2 + 1 /\ x.t = o.t /\ x.mt = o.mt
      /\ [l |-> x.i, m |-> x.mi] = Behind(o.i, o.mi, 1, p.end_of_burst)
      /\ SameLists(o.K, x.K, o.k2)
  BY DEF MoreOut, SameLists
<1>3. /\ o.t <= o.i /\ o.i <= n /\ inter_id = o.i % IdMod
      /\ Holds(inter_out, o.K, o.k1, o.k2, 0, None) /\ o.k1 <= o.k2
      /\ o.J[o.k1] = [l |-> o.t, m |-> o.mt] /\ o.J[o.k2] = [l |-> o.i, m |-> o.mi]
      /\ \A r \in o.k1 .. o.k2 - 1 :
           /\ LineOfList(S, FirstId, n, o.J[r].l, o.J[r].m, o.K[r])
           /\ o.J[r + 1] = Behind(o.J[r].l, o.J[r].m, 1, o.K[r].end_of_burst)
      /\ \A r, m \in o.k1 .. o.k2 : r <= m => o.J[r].l <= o.J[m].l
  BY DEF Out, Holds
<1>4. /\ p.end_of_burst => x.i = o.i + 1
      /\ ~p.end_of_burst => x.i = o.i
      /\ x.i \in Nat /\ o.i <= x.i /\ x.i <= o.i + 1
  BY OutPlace
<1>5. x.t <= x.i /\ x.i <= n
  <2>1. o.t <= o.i /\ o.i < n
    BY <1>3
  <2>2. x.t = o.t
    BY <1>2
  <2> QED
    BY <1>1, <1>4, <2>1, <2>2
<1>6. inter_id' = x.i % IdMod
  <2>1. CASE p.end_of_burst
    <3>1. ((o.i % IdMod) + 1) % IdMod = (o.i + 1) % IdMod
      BY <1>1, Sizes, NextRemainder
    <3> QED
      BY <1>3, <1>4, <2>1, <3>1 DEF Succ
  <2>2. CASE ~p.end_of_burst
    BY <1>3, <1>4, <2>2
  <2> QED
    BY <2>1, <2>2
<1>7. Holds(inter_out', x.K, x.k1, x.k2, 0, None)
  <2>1. Holds(Append(inter_out, p), x.K, o.k1, o.k2 + 1, 0, None)
    BY <1>1, <1>2, <1>3, HoldsBehind
  <2> QED
    BY <1>2, <2>1
<1>8. x.J[x.k1] = [l |-> x.t, m |-> x.mt] /\ x.J[x.k2] = [l |-> x.i, m |-> x.mi]
  <2>1. o.k1 < o.k2 + 1
    BY <1>1, <1>3
  <2> QED
    BY <1>1, <1>2, <1>3, <2>1
<1>9. ASSUME NEW r \in o.k1 .. o.k2
      PROVE  /\ LineOfList(S, FirstId, n, x.J[r].l, x.J[r].m, x.K[r])
             /\ x.J[r + 1] = Behind(x.J[r].l, x.J[r].m, 1, x.K[r].end_of_burst)
  <2>1. r \in Nat /\ r + 1 \in Nat /\ r < o.k2 + 1 /\ (r < o.k2 \/ r = o.k2)
    BY <1>1
  <2>2. CASE r < o.k2
    <3>1. r \in o.k1 .. o.k2 - 1 /\ r + 1 < o.k2 + 1
      BY <1>1, <2>2
    <3>2. x.K[r] = o.K[r] /\ x.J[r] = o.J[r] /\ x.J[r + 1] = o.J[r + 1]
      BY <1>2, <2>1, <2>2, <3>1
    <3> QED
      BY <1>3, <3>1, <3>2
  <2>3. CASE r = o.k2
    <3>1. x.K[r] = p /\ x.J[r] = [l |-> o.i, m |-> o.mi]
      BY <1>2, <1>3, <2>1, <2>3
    <3>2. x.J[r].l = o.i /\ x.J[r].m = o.mi
      BY <3>1
    <3> QED
      BY <1>2, <2>3, <3>1, <3>2
  <2> QED
    BY <2>1, <2>2, <2>3
<1>10. PICK e \in Nat : e = o.k2 + 1
  BY <1>1
<1>11. x.J[e].l = x.i
  <2>1. x.J[e] = [l |-> x.i, m |-> x.mi]
    BY <1>2, <1>10
  <2> QED
    BY <2>1
<1>12. ASSUME NEW r \in o.k1 .. e, NEW m \in o.k1 .. e, r <= m
       PROVE  x.J[r].l <= x.J[m].l
  <2>1. r \in Nat /\ m \in Nat
    BY <1>1, <1>10
  <2>2. CASE m < e
    <3>1. r \in o.k1 .. o.k2 /\ m \in o.k1 .. o.k2 /\ r < e
      BY <1>1, <1>10, <1>12, <2>1, <2>2
    <3>2. x.J[r] = o.J[r] /\ x.J[m] = o.J[m]
      BY <1>2, <1>10, <2>1, <2>2, <3>1
    <3> QED
      BY <1>3, <1>12, <3>1, <3>2
  <2>3. CASE m = e /\ r < e
    <3>1. r \in o.k1 .. o.k2 /\ o.k2 \in o.k1 .. o.k2 /\ r <= o.k2
      BY <1>1, <1>10, <2>1, <2>3
    <3>2. x.J[r] = o.J[r]
      BY <1>2, <1>10, <2>1, <2>3
    <3>3. o.J[r].l <= o.J[o.k2].l /\ o.J[r].l \in Nat
      BY <1>1, <1>3, <2>1, <3>1
    <3>4. o.J[o.k2].l = o.i
      BY <1>3
    <3>5. x.J[r].l <= x.i
      BY <1>1, <1>4, <3>2, <3>3, <3>4
    <3> QED
      BY <1>11, <2>3, <3>5
  <2>4. CASE m = e /\ r = e
    BY <1>4, <1>11, <2>4
  <2>5. m < e \/ (m = e /\ r < e) \/ (m = e /\ r = e)
    BY <1>10, <1>12, <2>1
  <2> QED
    BY <2>2, <2>3, <2>4, <2>5
<1>13. x.k2 - 1 = o.k2 /\ x.k1 = o.k1 /\ x.k2 = e
  BY <1>1, <1>2, <1>10
<1>14. x.k1 .. x.k2 - 1 = o.k1 .. o.k2 /\ x.k1 .. x.k2 = o.k1 .. e
  BY <1>13
<1> QED
  BY <1>5, <1>6, <1>7, <1>8, <1>9, <1>12, <1>14 DEF Out

\* What inter_merge does with the packet p of source s.
Joins(s, p) ==
    /\ s \in {"single", "dynamic"} /\ sync[s] # <<>> /\ p = Head(sync[s]) /\ p.burst_id = inter_id
    /\ DOMAIN sync' = Sources /\ sync'[s] = Tail(sync[s])
    /\ UNCHANGED <<sync["one"], sync["long"]>>
    /\ s = "single" => UNCHANGED sync["dynamic"]
    /\ s = "dynamic" => UNCHANGED sync["single"]
    /\ inter_out' = Append(inter_out, p)
    /\ p.end_of_burst => inter_id' = Succ(inter_id)
    /\ ~p.end_of_burst => UNCHANGED inter_id
    /\ UNCHANGED <<asked, input, vs_pc, sync_id, sync_burst_id, update, burst_vd, curr,
                   dynamic_burst_id, cmd, running, j, intra_id, selected, next_vertex,
                   update_id, pending, shown>>

\* inter_merge hands a packet on.
LEMMA InterMerges ==
  ASSUME Rest, InterMerge
  PROVE  \E s, p : Joins(s, p)
<1>1. DOMAIN sync = Sources /\ Sources = {"one", "long", "single", "dynamic"}
  BY DEF Rest, Engines, Sources
<1>s. PICK s \in {"single", "dynamic"} :
        /\ InterTurn(s)
        /\ inter_out' = Append(inter_out, Head(sync[s]))
        /\ sync' = [sync EXCEPT ![s] = Tail(@)]
        /\ inter_id' = IF Head(sync[s]).end_of_burst THEN Succ(inter_id) ELSE inter_id
        /\ UNCHANGED <<feedVars, schedVars, update, cgVars, cmd, engineVars,
                       intra_id, outVars, history>>
  BY DEF InterMerge
<1>p. PICK p : p = Head(sync[s])
  OBVIOUS
<1>2. /\ InterTurn(s) /\ p = Head(sync[s])
      /\ inter_out' = Append(inter_out, p)
      /\ sync' = [sync EXCEPT ![s] = Tail(sync[s])]
      /\ inter_id' = IF p.end_of_burst THEN Succ(inter_id) ELSE inter_id
      /\ UNCHANGED <<feedVars, schedVars, update, cgVars, cmd, engineVars,
                     intra_id, outVars, history>>
  BY <1>1, <1>s, <1>p
<1>3. /\ DOMAIN sync' = Sources /\ sync'[s] = Tail(sync[s])
      /\ sync'["one"] = sync["one"] /\ sync'["long"] = sync["long"]
      /\ s = "single" => sync'["dynamic"] = sync["dynamic"]
      /\ s = "dynamic" => sync'["single"] = sync["single"]
  BY <1>1, <1>2
<1>4. sync[s] # <<>> /\ p.burst_id = inter_id
  BY <1>2 DEF InterTurn
<1>5. UNCHANGED <<asked, input, vs_pc, sync_id, sync_burst_id, update, burst_vd, curr,
                  dynamic_burst_id, cmd, running, j, intra_id, selected, next_vertex,
                  update_id, pending, shown>>
  BY <1>2 DEF feedVars, schedVars, cgVars, engineVars, outVars, history
<1>6. /\ p.end_of_burst => inter_id' = Succ(inter_id)
      /\ ~p.end_of_burst => inter_id' = inter_id
  BY <1>2
<1>7. s \in {"single", "dynamic"} /\ p = Head(sync[s]) /\ inter_out' = Append(inter_out, p)
  BY <1>2
<1> QED
  BY <1>3, <1>4, <1>5, <1>6, <1>7 DEF Joins

\* inter_merge finds the list it waits for.
LEMMA ListFound ==
  ASSUME NEW f \in FrontSet, Requests(f), Numbering(f), NEW i \in Nat, f.B[f.b] <= i,
         NEW l \in Nat, i <= l, l < f.B[f.s], l % IdMod = i % IdMod
  PROVE  l = i
<1>1. /\ f.B[f.b] \in Nat /\ f.B[f.s] \in Nat
      /\ \A x \in Nat : f.B[f.b] <= x /\ x < f.B[f.s] => x < f.B[f.b] + IdMod
  BY ListWindow
<1>2. IdMod \in Nat /\ IdMod > 0
  BY Sizes
<1>3. l < i + IdMod
  <2>1. f.B[f.b] <= l
    BY <1>1
  <2>2. l < f.B[f.b] + IdMod
    BY <1>1, <2>1
  <2> QED
    BY <1>1, <1>2, <2>2
<1> QED
  BY <1>2, <1>3, SameRemainder

\* The places of the merges and of the lists.
LEMMA OutWindow ==
  ASSUME Rest, NEW f \in FrontSet, NEW w \in Seq(Nat), NEW u \in EngineSet, NEW v \in VdSet,
         NEW a \in EngineSet, NEW y \in LongSet, NEW c \in NumberSet, NEW g \in MergedSet,
         NEW o \in OutSet, Parts(f, w, u, v, a, y, c, g, o)
  PROVE  /\ o.i \in Nat /\ o.t \in Nat /\ o.mi \in Nat /\ o.mt \in Nat
         /\ f.B[f.b] \in Nat /\ f.B[f.s] \in Nat
         /\ FirstId <= f.B[f.b] /\ f.B[f.b] <= o.t /\ o.t <= o.i /\ o.i <= f.B[f.s]
         /\ f.B[f.b] <= o.i /\ FirstId <= o.i /\ FirstId <= o.t
<1>1. Requests(f) /\ Numbering(f) /\ Out(f.S, f.B[f.s], o) /\ Sampled(f.S, f.B[f.b], f.B[f.s], o)
  BY DEF Parts
<1>2. f.B[f.b] \in Nat /\ f.B[f.s] \in Nat /\ FirstId <= f.B[f.b]
  BY <1>1, ListWindow
<1>3. f.B[f.b] <= o.t /\ o.t <= o.i /\ o.i <= f.B[f.s]
  BY <1>1 DEF Out, Sampled
<1>4. o.i \in Nat /\ o.t \in Nat /\ o.mi \in Nat /\ o.mt \in Nat /\ FirstId \in Nat
  BY PlaceFields, Sizes
<1>5. f.B[f.b] <= o.i /\ FirstId <= o.i /\ FirstId <= o.t
  BY <1>2, <1>3, <1>4
<1> QED
  BY <1>2, <1>3, <1>4, <1>5

\* The records behind a step of inter_merge, which is at list i then.
JoinTaken(S, n, v, a, y, c, x, b, h) ==
    /\ Singles(S, x.i, n, b)' /\ Vds(S, x.i, n, v) /\ Commands(S, x.i, n, c, a, 1)
    /\ Commands(S, x.i, n, c, y, MaxBurst) /\ Merged(S, x.i, n, h)' /\ Joined(S, n, h, x)
    /\ Linked(y, c, h)

\* These records are all that changes.
LEMMA JoinStep ==
  ASSUME Rest, NEW f \in FrontSet, NEW w \in Seq(Nat), NEW u \in EngineSet, NEW v \in VdSet,
         NEW a \in EngineSet, NEW y \in LongSet, NEW c \in NumberSet, NEW g \in MergedSet,
         NEW o \in OutSet, Parts(f, w, u, v, a, y, c, g, o),
         NEW s, NEW p \in LinePkg, Joins(s, p), LineOfList(f.S, FirstId, f.B[f.s], o.i, o.mi, p),
         o.i < f.B[f.s], NEW x \in OutSet, MoreOut(o, x, p), NEW b \in EngineSet, NEW h \in MergedSet,
         b.k2 = u.k2, b.k3 = u.k3, b.z = u.z, JoinTaken(f.S, f.B[f.s], v, a, y, c, x, b, h)
  PROVE  BurstInv'
<1>1. PICK S, n : S = f.S /\ n = f.B[f.s]
  OBVIOUS
<1>2. /\ DOMAIN sync' = Sources /\ sync'["one"] = sync["one"] /\ sync'["long"] = sync["long"]
      /\ inter_out' = Append(inter_out, p)
      /\ p.end_of_burst => inter_id' = Succ(inter_id)
      /\ ~p.end_of_burst => inter_id' = inter_id
      /\ UNCHANGED <<asked, input, vs_pc, sync_id, sync_burst_id, update, burst_vd, curr,
                     dynamic_burst_id, cmd, running, j, intra_id, selected, next_vertex,
                     update_id, pending, shown>>
  BY DEF Joins
<1>3. Out(S, n, o) /\ n \in Nat
  BY <1>1, OutWindow DEF Parts
<1>4. Out(S, n, x)'
  <2>1. LineOfList(S, FirstId, n, o.i, o.mi, p) /\ o.i < n
    BY <1>1
  <2> QED
    BY <1>2, <1>3, <2>1, OutPut
<1>5. Sampled(S, f.B[f.b], n, x)'
  <2>1. Sampled(S, f.B[f.b], n, o) /\ x.t = o.t /\ x.mt = o.mt
    BY <1>1 DEF Parts, MoreOut
  <2>2. Sampled(S, f.B[f.b], n, x)
    BY <2>1 DEF Sampled
  <2>3. selected' = selected /\ shown' = shown /\ next_vertex' = next_vertex
    BY <1>2
  <2> QED
    BY <2>2, <2>3, KeepBack
<1>6. /\ Singles(S, x.i, n, b)' /\ Vds(S, x.i, n, v) /\ Commands(S, x.i, n, c, a, 1)
      /\ Commands(S, x.i, n, c, y, MaxBurst) /\ Merged(S, x.i, n, h)' /\ Joined(S, n, h, x)
      /\ Linked(y, c, h)
  BY <1>1 DEF JoinTaken
<1>7. Stops(b, v, a, y)'
  <2>1. Stops(u, v, a, y)
    BY DEF Parts
  <2> QED
    BY <1>2, <2>1 DEF Stops
<1>8. Rest'
  BY <1>2 DEF Rest
<1>9. Vds(S, x.i, n, v)' /\ Commands(S, x.i, n, c, a, 1)' /\ Commands(S, x.i, n, c, y, MaxBurst)'
  <2>1. burst_vd' = burst_vd
    BY <1>2
  <2> QED
    BY <1>6, <2>1, KeepFront, KeepBack
<1>10. Joined(S, n, h, x)' /\ Linked(y, c, h)'
  BY <1>6, KeepBack
<1>11. Parts(f, w, b, v, a, y, c, h, x)'
  <2>1. UNCHANGED <<cmd["single"], cmd["one"], cmd["long"], sync["one"], sync["long"]>>
    BY <1>2
  <2>2. Requests(f)' /\ Numbering(f)' /\ Empties(f, w)' /\ Generated(v)'
    BY <1>2, <2>1, KeepFront DEF Parts
  <2>3. OneStreams(a)' /\ LongStreams(y)' /\ LongLines(y)'
    BY <1>2, <2>1, KeepBack DEF Parts
  <2>4. Counted(a, y, c)' /\ Ordered(f.B[f.s], v, c)'
    BY <1>2, KeepBack DEF Parts
  <2> QED
    BY <1>1, <1>4, <1>5, <1>6, <1>7, <1>9, <1>10, <2>2, <2>3, <2>4 DEF Parts
<1> QED
  BY <1>8, <1>11 DEF BurstInv

\* inter_merge passes a list in one line on.
LEMMA JoinSingleStep ==
  ASSUME Rest, NEW f \in FrontSet, NEW w \in Seq(Nat), NEW u \in EngineSet, NEW v \in VdSet,
         NEW a \in EngineSet, NEW y \in LongSet, NEW c \in NumberSet, NEW g \in MergedSet,
         NEW o \in OutSet, Parts(f, w, u, v, a, y, c, g, o),
         NEW p, Joins("single", p)
  PROVE  BurstInv'
<1>1. PICK S, i, n : S = f.S /\ i = o.i /\ n = f.B[f.s]
  OBVIOUS
<1>2. /\ sync["single"] # <<>> /\ p = Head(sync["single"]) /\ p.burst_id = inter_id
      /\ sync'["single"] = Tail(sync["single"]) /\ sync'["dynamic"] = sync["dynamic"]
      /\ cmd' = cmd
  BY DEF Joins
<1>3. /\ Requests(f) /\ Numbering(f) /\ Singles(S, i, n, u) /\ Vds(S, i, n, v)
      /\ Commands(S, i, n, c, a, 1) /\ Commands(S, i, n, c, y, MaxBurst)
      /\ Merged(S, i, n, g) /\ Joined(S, n, g, o) /\ Linked(y, c, g) /\ Out(S, n, o)
  BY <1>1 DEF Parts
<1>4. u.k1 \in Nat /\ u.k2 \in Nat /\ u.k3 \in Nat /\ u.T \in [Nat -> CmdTag]
  BY EngineFields
<1>5. i \in Nat /\ n \in Nat /\ i <= n /\ FirstId <= i /\ f.B[f.b] <= i
  BY <1>1, OutWindow
<1>6. /\ Holds(sync["single"], SingleOf(u.T), u.k1, u.k2, 0, None)
      /\ Holds(cmd["single"], PkgOf(u.T), u.k2, u.k3, u.z, StopCmd) /\ u.k2 <= u.k3
      /\ \A k \in u.k1 .. u.k3 - 1 : SingleTag(S, i, n, u.T[k])
      /\ \A k, m \in u.k1 .. u.k3 - 1 : k < m => u.T[k].l < u.T[m].l
  BY <1>3 DEF Singles, Holds
<1>7. /\ u.k1 < u.k2 /\ p = SingleOf(u.T)[u.k1]
      /\ Holds(sync'["single"], SingleOf(u.T), u.k1 + 1, u.k2, 0, None)
  <2>1. sync["single"] # <<>> /\ u.k1 \in Nat /\ u.k2 \in Nat
    BY <1>2, <1>4
  <2>2. /\ u.k1 < u.k2 /\ Head(sync["single"]) = SingleOf(u.T)[u.k1]
        /\ Holds(Tail(sync["single"]), SingleOf(u.T), u.k1 + 1, u.k2, 0, None)
    BY <1>6, <2>1, StreamPop
  <2> QED
    BY <1>2, <2>2
<1>8. u.k1 \in u.k1 .. u.k3 - 1
  BY <1>4, <1>6, <1>7
<1>9. PICK T \in CmdTag : T = u.T[u.k1] /\ p = SyncPkg(T.p, 0, TRUE, TRUE)
  BY <1>4, <1>7 DEF SingleOf
<1>10. /\ Listed(S, i, n, T.l, T.p) /\ InOneLine(S, T.l) /\ T.p.last = S[T.l].p.last
       /\ T.p.dynamic_id \in Ids /\ Shows(S[T.l].p.vertex, 0, Unmasked(T.p, 0))
  BY <1>6, <1>8, <1>9 DEF SingleTag
<1>11. T.l \in Nat /\ i <= T.l /\ T.l < n /\ T.p.burst_id = T.l % IdMod
  <2>1. T.l \in i .. n - 1 /\ T.p.burst_id = T.l % IdMod
    BY <1>10 DEF Listed
  <2> QED
    BY <1>5, <2>1
<1>12. /\ p.words = Unmasked(T.p, 0) /\ p.id = T.p.id /\ p.burst_id = T.p.burst_id
       /\ p.end_of_burst = TRUE /\ p.dynamic_id = T.p.dynamic_id /\ p.last = T.p.last
  BY <1>9 DEF SyncPkg
<1>13. T.l = i
  <2>1. inter_id = i % IdMod
    BY <1>1, <1>3 DEF Out
  <2> QED
    BY <1>1, <1>2, <1>3, <1>5, <1>11, <1>12, <2>1, ListFound
<1>14. InOneLine(S, i) /\ i < n /\ o.mi = 0
  <2>1. InOneLine(S, i) /\ i < n
    BY <1>10, <1>11, <1>13
  <2> QED
    BY <1>1, <1>3, <2>1 DEF Joined
<1>15. LineOfList(S, FirstId, n, i, 0, p) /\ p \in LinePkg
  <2>1. Listed(S, FirstId, n, i, p)
    <3>1. i \in FirstId .. n - 1
      BY <1>5, <1>11, <1>13, Sizes
    <3> QED
      BY <1>10, <1>12, <1>13, <3>1 DEF Listed
  <2>2. 0 + 1 <= 1 /\ 0 + 1 = 1
    OBVIOUS
  <2>3. Lines(S[i].p.vertex) = 1
    BY <1>14 DEF InOneLine
  <2>4. LineOfList(S, FirstId, n, i, 0, p)
    BY <1>10, <1>12, <1>13, <2>1, <2>2, <2>3 DEF LineOfList
  <2>5. T.p \in CmdPkg /\ 0 \in Nat /\ TRUE \in BOOLEAN
    BY DEF CmdTag
  <2> QED
    BY <1>9, <2>4, <2>5, LinePacket
<1>16. PICK x \in OutSet : MoreOut(o, x, p)
  BY <1>15, OutGetsLine
<1>17. x.i = i + 1 /\ x.mi = 0
  BY <1>1, <1>12, <1>15, <1>16, OutPlace
<1>18. PICK b \in EngineSet :
         b.T = u.T /\ b.k1 = u.k1 + 1 /\ b.k2 = u.k2 /\ b.k3 = u.k3 /\ b.z = u.z
  <2> DEFINE b == [u EXCEPT !.k1 = u.k1 + 1]
  <2>1. u.k1 + 1 \in Nat
    BY <1>4
  <2>2. b \in EngineSet /\ b.T = u.T /\ b.k1 = u.k1 + 1 /\ b.k2 = u.k2 /\ b.k3 = u.k3 /\ b.z = u.z
    BY <2>1 DEF EngineSet
  <2> QED
    BY <2>2
<1>19. PICK i2 \in Nat : i2 = i + 1
  BY <1>5
<1>20. Singles(S, i2, n, b)'
  <2>1. \A k \in u.k1 + 1 .. u.k3 - 1 : k \in u.k1 .. u.k3 - 1 /\ u.k1 < k
    BY <1>4
  <2>2. \A k \in b.k1 .. b.k3 - 1 : k \in u.k1 .. u.k3 - 1 /\ u.k1 < k
    BY <1>18, <2>1
  <2>3. ASSUME NEW k \in b.k1 .. b.k3 - 1
        PROVE  SingleTag(S, i, n, b.T[k]) /\ i2 <= b.T[k].l
    <3>1. k \in u.k1 .. u.k3 - 1 /\ u.k1 < k /\ k \in Nat
      BY <1>4, <2>2
    <3>2. SingleTag(S, i, n, u.T[k]) /\ i < u.T[k].l
      BY <1>6, <1>8, <1>9, <1>13, <3>1
    <3>3. u.T[k].l \in Nat
      BY <3>1, EngineFields
    <3>4. i2 <= u.T[k].l
      BY <1>5, <1>19, <3>2, <3>3
    <3> QED
      BY <1>18, <3>2, <3>4
  <2>4. \A k, m \in b.k1 .. b.k3 - 1 : k < m => b.T[k].l < b.T[m].l
    BY <1>6, <1>18, <2>2
  <2>5. \A k \in b.k1 .. b.k3 - 1 : SingleTag(S, i2, n, b.T[k])
    <3>1. n <= n /\ SameLists(S, S, n)
      BY <1>5 DEF SameLists
    <3> QED
      BY <1>5, <2>3, <3>1, TagMove
  <2>6. /\ Holds(sync'["single"], SingleOf(b.T), b.k1, b.k2, 0, None)
        /\ Holds(cmd'["single"], PkgOf(b.T), b.k2, b.k3, b.z, StopCmd)
    BY <1>2, <1>6, <1>7, <1>18
  <2> QED
    BY <2>4, <2>5, <2>6 DEF Singles
<1>21. ASSUME NEW l, l \in i .. n - 1, ~InOneLine(S, l) PROVE i2 <= l
  <2>1. l # i
    BY <1>14, <1>21
  <2> QED
    BY <1>5, <1>19, <1>21, <2>1
<1>22. /\ Vds(S, i2, n, v) /\ Commands(S, i2, n, c, a, 1) /\ Commands(S, i2, n, c, y, MaxBurst)
       /\ Merged(S, i2, n, g)
  <2>1. \A k \in v.p .. v.q - 1 : i2 <= v.T[k].l
    BY <1>3, <1>21 DEF Vds, VdTagged, Listed
  <2>2. \A h \in a.k1 .. a.k3 - 1 : i2 <= a.T[h].l
    BY <1>3, <1>21 DEF Commands, CmdTagged, CmdOfList, Listed
  <2>3. \A h \in y.k1 .. y.k3 - 1 : i2 <= y.T[h].l
    BY <1>3, <1>21 DEF Commands, CmdTagged, CmdOfList, Listed
  <2>4. \A h \in g.g1 .. g.g2 - 1 : i2 <= g.G[h].l
    BY <1>3, <1>21 DEF Merged, MergedLine, LineOfList, Listed
  <2> QED
    BY <1>3, <1>5, <2>1, <2>2, <2>3, <2>4, ListsPass
<1>23. Joined(S, n, g, x)
  <2>1. g.Q[g.g1].m = 0 /\ g.Q[g.g1].l <= i
    BY <1>1, <1>3, <1>14 DEF Joined
  <2>2. g.Q[g.g1].l \in Nat
    BY PlaceFields
  <2>3. g.Q[g.g1].l <= x.i
    BY <1>5, <1>17, <2>1, <2>2
  <2> QED
    BY <1>17, <2>1, <2>3 DEF Joined
<1>24. JoinTaken(S, n, v, a, y, c, x, b, g)
  <2>1. sync'["dynamic"] = sync["dynamic"] /\ x.i = i2
    BY <1>2, <1>17, <1>19
  <2>2. Merged(S, i2, n, g)'
    BY <1>22, <2>1, KeepBack
  <2> QED
    BY <1>3, <1>20, <1>22, <1>23, <2>1, <2>2 DEF JoinTaken
<1> QED
  <2>1. LineOfList(f.S, FirstId, f.B[f.s], o.i, o.mi, p) /\ o.i < f.B[f.s]
    BY <1>1, <1>14, <1>15
  <2>2. JoinTaken(f.S, f.B[f.s], v, a, y, c, x, b, g)
    BY <1>1, <1>24
  <2> QED
    BY <1>15, <1>16, <1>18, <2>1, <2>2, JoinStep

\* Record h is record g without its first line.
LineTaken(g, h) == h.G = g.G /\ h.Q = g.Q /\ h.g1 = g.g1 + 1 /\ h.g2 = g.g2

\* What is left behind intra_merge.
LEMMA MergedTake ==
  ASSUME NEW S, NEW i, NEW n, NEW g \in MergedSet, Merged(S, i, n, g), g.g1 < g.g2,
         sync'["dynamic"] = Tail(sync["dynamic"]), sync["dynamic"] # <<>>
  PROVE  /\ Head(sync["dynamic"]) = g.G[g.g1].p
         /\ \E h \in MergedSet : LineTaken(g, h) /\ Merged(S, i, n, h)'
<1>1. g.g1 \in Nat /\ g.g2 \in Nat
  BY PlaceFields
<1>2. /\ Holds(sync["dynamic"], PkgOf(g.G), g.g1, g.g2, 0, None)
      /\ \A r \in g.g1 .. g.g2 - 1 :
           /\ MergedLine(S, i, n, g.G[r])
           /\ At(g.Q[r], g.G[r].l, g.G[r].m)
           /\ g.Q[r + 1] = Behind(g.G[r].l, g.G[r].m, 1, g.G[r].p.end_of_burst)
      /\ \A r, m \in g.g1 .. g.g2 : r <= m => g.Q[r].l <= g.Q[m].l
  BY DEF Merged
<1>3. /\ Head(sync["dynamic"]) = PkgOf(g.G)[g.g1]
      /\ Holds(Tail(sync["dynamic"]), PkgOf(g.G), g.g1 + 1, g.g2, 0, None)
  <2>1. PICK s, F, r, m : /\ s = sync["dynamic"] /\ F = PkgOf(g.G) /\ r = g.g1 /\ m = g.g2
                          /\ r \in Nat /\ m \in Nat
    BY <1>1
  <2>2. Holds(s, F, r, m, 0, None) /\ s # <<>>
    BY <1>2, <2>1
  <2>3. Head(s) = F[r] /\ Holds(Tail(s), F, r + 1, m, 0, None)
    BY <2>1, <2>2, StreamPop
  <2> QED
    BY <2>1, <2>3
<1>4. PICK h \in MergedSet : LineTaken(g, h)
  <2> DEFINE h == [g EXCEPT !.g1 = g.g1 + 1]
  <2>1. g.g1 + 1 \in Nat
    BY <1>1
  <2>2. h \in MergedSet /\ h.G = g.G /\ h.Q = g.Q /\ h.g1 = g.g1 + 1 /\ h.g2 = g.g2
    BY <2>1 DEF MergedSet
  <2> QED
    BY <2>2 DEF LineTaken
<1>5. h.G = g.G /\ h.Q = g.Q /\ h.g1 = g.g1 + 1 /\ h.g2 = g.g2
  BY <1>4 DEF LineTaken
<1>6. /\ \A r \in g.g1 + 1 .. g.g2 - 1 : r \in g.g1 .. g.g2 - 1
      /\ \A r \in g.g1 + 1 .. g.g2 : r \in g.g1 .. g.g2
  BY <1>1
<1>7. /\ \A r \in h.g1 .. h.g2 - 1 : r \in g.g1 .. g.g2 - 1
      /\ \A r \in h.g1 .. h.g2 : r \in g.g1 .. g.g2
  BY <1>5, <1>6
<1>8. Holds(sync'["dynamic"], PkgOf(h.G), h.g1, h.g2, 0, None)
  BY <1>3, <1>5
<1>9. /\ \A r \in h.g1 .. h.g2 - 1 :
           /\ MergedLine(S, i, n, h.G[r])
           /\ At(h.Q[r], h.G[r].l, h.G[r].m)
           /\ h.Q[r + 1] = Behind(h.G[r].l, h.G[r].m, 1, h.G[r].p.end_of_burst)
      /\ \A r, m \in h.g1 .. h.g2 : r <= m => h.Q[r].l <= h.Q[m].l
  BY <1>2, <1>5, <1>7
<1>10. Merged(S, i, n, h)'
  BY <1>8, <1>9 DEF Merged
<1>11. Head(sync["dynamic"]) = g.G[g.g1].p
  BY <1>1, <1>3 DEF PkgOf
<1> QED
  BY <1>4, <1>10, <1>11

\* The next line of inter_merge is the first one behind intra_merge.
LEMMA LineFound ==
  ASSUME Rest, NEW f \in FrontSet, NEW w \in Seq(Nat), NEW u \in EngineSet, NEW v \in VdSet,
         NEW a \in EngineSet, NEW y \in LongSet, NEW c \in NumberSet, NEW g \in MergedSet,
         NEW o \in OutSet, Parts(f, w, u, v, a, y, c, g, o),
         NEW p, Joins("dynamic", p)
  PROVE  /\ g.g1 < g.g2 /\ p \in LinePkg /\ o.i < f.B[f.s] /\ ~InOneLine(f.S, o.i)
         /\ g.Q[g.g1 + 1] = Behind(o.i, o.mi, 1, p.end_of_burst)
         /\ LineOfList(f.S, o.i, f.B[f.s], o.i, o.mi, p)
<1>1. PICK S, i, n : S = f.S /\ i = o.i /\ n = f.B[f.s]
  OBVIOUS
<1>2. /\ sync["dynamic"] # <<>> /\ p = Head(sync["dynamic"]) /\ p.burst_id = inter_id
      /\ sync'["dynamic"] = Tail(sync["dynamic"])
  BY DEF Joins
<1>3. Requests(f) /\ Numbering(f) /\ Merged(S, i, n, g) /\ Joined(S, n, g, o) /\ Out(S, n, o)
  BY <1>1 DEF Parts
<1>4. g.g1 \in Nat /\ g.g2 \in Nat /\ g.G[g.g1] \in LineTag
  BY PlaceFields
<1>5. i \in Nat /\ n \in Nat /\ i <= n /\ FirstId <= i /\ f.B[f.b] <= i /\ o.mi \in Nat
  BY <1>1, OutWindow
<1>6. g.g1 < g.g2
  <2>1. Holds(sync["dynamic"], PkgOf(g.G), g.g1, g.g2, 0, None)
    BY <1>3 DEF Merged
  <2> QED
    BY <1>2, <1>4, <2>1, StreamPop
<1>7. PICK T \in LineTag : T = g.G[g.g1] /\ p = T.p
  BY <1>2, <1>3, <1>4, <1>6, MergedTake
<1>8. g.g1 \in g.g1 .. g.g2 - 1
  BY <1>4, <1>6, FirstOfRow
<1>9. /\ MergedLine(S, i, n, T) /\ At(g.Q[g.g1], T.l, T.m)
      /\ g.Q[g.g1 + 1] = Behind(T.l, T.m, 1, T.p.end_of_burst)
  BY <1>3, <1>7, <1>8 DEF Merged
<1>10. T.l \in Nat /\ i <= T.l /\ T.l < n /\ p.burst_id = T.l % IdMod
  <2>1. T.l \in i .. n - 1 /\ T.p.burst_id = T.l % IdMod
    BY <1>9 DEF MergedLine, LineOfList, Listed
  <2> QED
    BY <1>5, <1>7, <2>1
<1>11. T.l = i
  <2>1. inter_id = i % IdMod
    BY <1>1, <1>3 DEF Out
  <2> QED
    BY <1>1, <1>2, <1>3, <1>5, <1>10, <2>1, ListFound
<1>12. T.m = o.mi
  <2>1. CASE o.mi = 0
    <3>1. g.Q[g.g1].m = 0
      BY <1>3, <2>1 DEF Joined
    <3> QED
      BY <1>9, <2>1, <3>1 DEF At
  <2>2. CASE o.mi # 0
    <3>1. g.Q[g.g1] = [l |-> i, m |-> o.mi]
      BY <1>1, <1>3, <2>2 DEF Joined
    <3> QED
      BY <1>9, <3>1 DEF At
  <2> QED
    BY <2>1, <2>2
<1>13. LineOfList(S, i, n, i, o.mi, p) /\ ~InOneLine(S, i) /\ i < n
  BY <1>7, <1>9, <1>10, <1>11, <1>12 DEF MergedLine
<1>14. g.Q[g.g1 + 1] = Behind(i, o.mi, 1, p.end_of_burst)
  BY <1>7, <1>9, <1>11, <1>12
<1>15. p \in LinePkg
  BY <1>7 DEF LineTag
<1> QED
  BY <1>1, <1>6, <1>13, <1>14, <1>15

\* inter_merge is behind the last line of list i: nothing of the list is left.
LEMMA ListDone ==
  ASSUME NEW S, NEW i \in Nat, NEW n \in Nat, NEW v \in VdSet, NEW a \in EngineSet,
         NEW y \in LongSet, NEW c \in NumberSet, NEW g \in MergedSet, NEW u,
         Singles(S, i, n, u), Vds(S, i, n, v), Commands(S, i, n, c, a, 1),
         Commands(S, i, n, c, y, MaxBurst), LongLines(y), y.r1 <= y.r2, Counted(a, y, c),
         Ordered(n, v, c), Linked(y, c, g), Merged(S, i, n, g), g.g1 < g.g2, ~InOneLine(S, i),
         NEW i2 \in Nat, i2 = i + 1, g.Q[g.g1 + 1].l = i2
  PROVE  /\ Singles(S, i2, n, u) /\ Vds(S, i2, n, v) /\ Commands(S, i2, n, c, a, 1)
         /\ Commands(S, i2, n, c, y, MaxBurst)
         /\ \A h \in g.g1 + 1 .. g.g2 - 1 : i2 <= g.G[h].l
<1>1. /\ g.g1 \in Nat /\ g.g2 \in Nat
      /\ \A x \in Nat : g.Q[x].l \in Nat /\ g.G[x].l \in Nat
  BY PlaceFields
<1>2. \A h \in g.g1 + 1 .. g.g2 : i2 <= g.Q[h].l
  <2>1. ASSUME NEW h \in g.g1 + 1 .. g.g2 PROVE i2 <= g.Q[h].l
    <3>1. g.g1 + 1 \in g.g1 .. g.g2 /\ h \in g.g1 .. g.g2 /\ g.g1 + 1 <= h
      BY <1>1, <2>1
    <3>2. g.Q[g.g1 + 1].l <= g.Q[h].l
      BY <3>1 DEF Merged
    <3> QED
      BY <3>2
  <2> QED
    BY <2>1
<1>3. ASSUME NEW h \in g.g1 + 1 .. g.g2 - 1 PROVE i2 <= g.G[h].l
  <2>1. h \in g.g1 + 1 .. g.g2 /\ h \in g.g1 .. g.g2 - 1 /\ h \in Nat
    BY <1>1, <1>3
  <2>2. g.Q[h].l <= g.G[h].l
    BY <2>1 DEF Merged, At
  <2>3. i2 <= g.Q[h].l
    BY <1>2, <2>1
  <2> QED
    BY <1>1, <2>1, <2>2, <2>3
<1>4. i2 <= g.Q[g.g2].l
  <2>1. g.g2 \in g.g1 + 1 .. g.g2
    BY <1>1
  <2> QED
    BY <1>2, <2>1
<1>5. PICK q \in Nat : q = g.Q[g.g2].l /\ i2 <= q
  BY <1>1, <1>4
<1>6. /\ \A h \in a.k1 .. a.k3 - 1 : q <= a.T[h].l
      /\ \A h \in y.k1 .. y.k3 - 1 : q <= y.T[h].l
      /\ \A k \in v.p .. v.q - 1 : q <= v.T[k].l
  BY <1>5, AllBehind
<1>7. \A h \in a.k1 .. a.k3 - 1 : i2 <= a.T[h].l
  <2>1. ASSUME NEW h \in a.k1 .. a.k3 - 1 PROVE i2 <= a.T[h].l
    <3>1. a.T[h].l \in Nat
      <4>1. h \in Nat
        BY EngineFields, FirstOfRow
      <4> QED
        BY <4>1, EngineFields
    <3>2. q <= a.T[h].l
      BY <1>6
    <3> QED
      BY <1>5, <3>1, <3>2
  <2> QED
    BY <2>1
<1>8. \A h \in y.k1 .. y.k3 - 1 : i2 <= y.T[h].l
  <2>1. ASSUME NEW h \in y.k1 .. y.k3 - 1 PROVE i2 <= y.T[h].l
    <3>1. y.T[h].l \in Nat
      <4>1. h \in Nat
        BY LongFields, FirstOfRow
      <4> QED
        BY <4>1, LongFields
    <3>2. q <= y.T[h].l
      BY <1>6
    <3> QED
      BY <1>5, <3>1, <3>2
  <2> QED
    BY <2>1
<1>9. \A k \in v.p .. v.q - 1 : i2 <= v.T[k].l
  <2>1. ASSUME NEW k \in v.p .. v.q - 1 PROVE i2 <= v.T[k].l
    <3>1. v.T[k].l \in Nat
      <4>1. k \in Nat
        BY VdFields, FirstOfRow
      <4> QED
        BY <4>1, VdFields
    <3>2. q <= v.T[k].l
      BY <1>6
    <3> QED
      BY <1>5, <3>1, <3>2
  <2> QED
    BY <2>1
<1>10. \A k \in u.k1 .. u.k3 - 1 : i2 <= u.T[k].l
  <2>1. ASSUME NEW k \in u.k1 .. u.k3 - 1 PROVE i2 <= u.T[k].l
    <3>1. u.T[k].l \in i .. n - 1 /\ InOneLine(S, u.T[k].l)
      BY DEF Singles, SingleTag, Listed
    <3>2. u.T[k].l # i
      BY <3>1
    <3>3. u.T[k].l \in Nat /\ i <= u.T[k].l
      BY <3>1
    <3> QED
      BY <3>2, <3>3, FirstOfRow
  <2> QED
    BY <2>1
<1> QED
  BY <1>3, <1>7, <1>8, <1>9, <1>10, ListsPass

\* inter_merge passes a line of another list on.
LEMMA JoinDynamicStep ==
  ASSUME Rest, NEW f \in FrontSet, NEW w \in Seq(Nat), NEW u \in EngineSet, NEW v \in VdSet,
         NEW a \in EngineSet, NEW y \in LongSet, NEW c \in NumberSet, NEW g \in MergedSet,
         NEW o \in OutSet, Parts(f, w, u, v, a, y, c, g, o),
         NEW p, Joins("dynamic", p)
  PROVE  BurstInv'
<1>1. PICK S, i, n : S = f.S /\ i = o.i /\ n = f.B[f.s]
  OBVIOUS
<1>2. /\ sync["dynamic"] # <<>> /\ sync'["dynamic"] = Tail(sync["dynamic"])
      /\ sync'["single"] = sync["single"] /\ cmd' = cmd
  BY DEF Joins
<1>3. /\ Singles(S, i, n, u) /\ Vds(S, i, n, v) /\ OneStreams(a)
      /\ Commands(S, i, n, c, a, 1) /\ Commands(S, i, n, c, y, MaxBurst)
      /\ LongStreams(y) /\ LongLines(y) /\ Counted(a, y, c) /\ Ordered(n, v, c)
      /\ Merged(S, i, n, g) /\ Linked(y, c, g)
  BY <1>1 DEF Parts
<1>4. i \in Nat /\ n \in Nat /\ i <= n /\ FirstId <= i /\ o.mi \in Nat
  BY <1>1, OutWindow
<1>5. /\ g.g1 < g.g2 /\ p \in LinePkg /\ i < n /\ ~InOneLine(S, i)
      /\ g.Q[g.g1 + 1] = Behind(i, o.mi, 1, p.end_of_burst)
      /\ LineOfList(S, i, n, i, o.mi, p)
  BY <1>1, LineFound
<1>6. LineOfList(S, FirstId, n, i, o.mi, p)
  <2>1. n <= n /\ SameLists(S, S, n) /\ FirstId \in Nat
    BY <1>4, Sizes DEF SameLists
  <2> QED
    BY <1>4, <1>5, <2>1, LineMove
<1>7. PICK x \in OutSet : MoreOut(o, x, p)
  BY <1>5, OutGetsLine
<1>8. /\ p.end_of_burst => x.i = i + 1 /\ x.mi = 0
      /\ ~p.end_of_burst => x.i = i /\ x.mi = o.mi + 1
  BY <1>1, <1>5, <1>7, OutPlace
<1>9. PICK h \in MergedSet : LineTaken(g, h) /\ Merged(S, i, n, h)'
  BY <1>2, <1>3, <1>5, MergedTake
<1>10. h.G = g.G /\ h.Q = g.Q /\ h.g1 = g.g1 + 1 /\ h.g2 = g.g2
  BY <1>9 DEF LineTaken
<1>11. Linked(y, c, h)
  BY <1>3, <1>10 DEF Linked
<1>12. p.end_of_burst \in BOOLEAN
  BY <1>5 DEF LinePkg
<1>13. JoinTaken(S, n, v, a, y, c, x, u, h)
  <2>1. CASE ~p.end_of_burst
    <3>1. x.i = i /\ x.mi = o.mi + 1 /\ o.mi + 1 # 0
      BY <1>4, <1>8, <2>1
    <3>2. Joined(S, n, h, x)
      <4>1. h.Q[h.g1] = [l |-> i, m |-> o.mi + 1]
        BY <1>5, <1>10, <2>1 DEF Behind
      <4> QED
        BY <1>5, <3>1, <4>1 DEF Joined
    <3>3. Singles(S, i, n, u)'
      BY <1>2, <1>3, KeepFront
    <3> QED
      BY <1>3, <1>9, <1>11, <3>1, <3>2, <3>3 DEF JoinTaken
  <2>2. CASE p.end_of_burst
    <3>1. PICK i2 \in Nat : i2 = i + 1
      BY <1>4
    <3>2. x.i = i2 /\ x.mi = 0
      BY <1>8, <2>2, <3>1
    <3>3. g.Q[g.g1 + 1] = [l |-> i2, m |-> 0]
      BY <1>5, <2>2, <3>1 DEF Behind
    <3>4. y.r1 <= y.r2
      BY <1>3, CommandWindow
    <3>5. /\ Singles(S, i2, n, u) /\ Vds(S, i2, n, v) /\ Commands(S, i2, n, c, a, 1)
          /\ Commands(S, i2, n, c, y, MaxBurst)
          /\ \A r \in g.g1 + 1 .. g.g2 - 1 : i2 <= g.G[r].l
      <4>1. g.Q[g.g1 + 1].l = i2
        BY <3>3
      <4> QED
        BY <1>3, <1>4, <1>5, <3>1, <3>4, <4>1, ListDone
    <3>6. Singles(S, i2, n, u)'
      BY <1>2, <3>5, KeepFront
    <3>7. Merged(S, i2, n, h)'
      <4>1. \A r \in h.g1 .. h.g2 - 1 : i2 <= h.G[r].l /\ MergedLine(S, i, n, h.G[r])
        BY <1>9, <1>10, <3>5 DEF Merged
      <4>2. n <= n /\ SameLists(S, S, n)
        BY <1>4 DEF SameLists
      <4>3. \A r \in h.g1 .. h.g2 - 1 : MergedLine(S, i2, n, h.G[r])
        <5>1. \A T : i2 <= T.l => (MergedLine(S, i, n, T) => MergedLine(S, i2, n, T))
          BY <1>4, <4>2, TagMove
        <5> QED
          BY <4>1, <5>1
      <4> QED
        BY <1>9, <4>3 DEF Merged
    <3>8. Joined(S, n, h, x)
      <4>1. h.Q[h.g1].m = 0 /\ h.Q[h.g1].l = i2 /\ i2 <= i2
        BY <1>10, <3>1, <3>3
      <4> QED
        BY <3>2, <4>1 DEF Joined
    <3> QED
      BY <1>11, <3>2, <3>5, <3>6, <3>7, <3>8 DEF JoinTaken
  <2> QED
    BY <1>12, <2>1, <2>2
<1> QED
  <2>1. LineOfList(f.S, FirstId, f.B[f.s], o.i, o.mi, p) /\ o.i < f.B[f.s]
    BY <1>1, <1>5, <1>6
  <2>2. JoinTaken(f.S, f.B[f.s], v, a, y, c, x, u, h)
    BY <1>1, <1>13
  <2> QED
    BY <1>5, <1>7, <2>1, <2>2, JoinStep

\* inter_merge passes a line on.
LEMMA InterMergeStep ==
  ASSUME Rest, NEW f \in FrontSet, NEW w \in Seq(Nat), NEW u \in EngineSet, NEW v \in VdSet,
         NEW a \in EngineSet, NEW y \in LongSet, NEW c \in NumberSet, NEW g \in MergedSet,
         NEW o \in OutSet, Parts(f, w, u, v, a, y, c, g, o), InterMerge
  PROVE  BurstInv'
<1>1. PICK s, p : Joins(s, p)
  BY InterMerges
<1>2. s = "single" \/ s = "dynamic"
  BY <1>1 DEF Joins
<1>3. CASE s = "single"
  <2>1. Joins("single", p)
    BY <1>1, <1>3
  <2> QED
    BY <2>1, JoinSingleStep
<1>4. CASE s = "dynamic"
  <2>1. Joins("dynamic", p)
    BY <1>1, <1>4
  <2> QED
    BY <2>1, JoinDynamicStep
<1> QED
  BY <1>2, <1>3, <1>4

\* Record x is record o without its first line, p.
OutPassed(o, x, p) ==
    /\ x.K = o.K /\ x.J = o.J /\ x.k1 = o.k1 + 1 /\ x.k2 = o.k2 /\ x.i = o.i /\ x.mi = o.mi
    /\ p.end_of_burst => x.t = o.t + 1 /\ x.mt = 0
    /\ ~p.end_of_burst => x.t = o.t /\ x.mt = o.mt + 1

\* What is left behind inter_merge.
LEMMA OutTake ==
  ASSUME NEW S, NEW n, NEW o \in OutSet, Out(S, n, o), inter_out # <<>>,
         inter_out' = Tail(inter_out), UNCHANGED inter_id
  PROVE  /\ Head(inter_out) \in LinePkg
         /\ LineOfList(S, FirstId, n, o.t, o.mt, Head(inter_out))
         /\ \E x \in OutSet : OutPassed(o, x, Head(inter_out)) /\ Out(S, n, x)'
<1>1. /\ o.k1 \in Nat /\ o.k2 \in Nat /\ o.i \in Nat /\ o.t \in Nat /\ o.mt \in Nat
      /\ \A r \in Nat : o.K[r] \in LinePkg
  BY PlaceFields
<1>2. /\ o.t <= o.i /\ o.i <= n /\ inter_id = o.i % IdMod
      /\ Holds(inter_out, o.K, o.k1, o.k2, 0, None)
      /\ o.J[o.k1] = [l |-> o.t, m |-> o.mt] /\ o.J[o.k2] = [l |-> o.i, m |-> o.mi]
      /\ \A r \in o.k1 .. o.k2 - 1 :
           /\ LineOfList(S, FirstId, n, o.J[r].l, o.J[r].m, o.K[r])
           /\ o.J[r + 1] = Behind(o.J[r].l, o.J[r].m, 1, o.K[r].end_of_burst)
      /\ \A r, m \in o.k1 .. o.k2 : r <= m => o.J[r].l <= o.J[m].l
  BY DEF Out
<1>3. /\ o.k1 < o.k2 /\ Head(inter_out) = o.K[o.k1]
      /\ Holds(Tail(inter_out), o.K, o.k1 + 1, o.k2, 0, None)
  BY <1>1, <1>2, StreamPop
<1>4. PICK p \in LinePkg : p = Head(inter_out) /\ p = o.K[o.k1]
  BY <1>1, <1>3
<1>5. o.k1 \in o.k1 .. o.k2 - 1
  BY <1>1, <1>3, FirstOfRow
<1>6. o.J[o.k1].l = o.t /\ o.J[o.k1].m = o.mt
  BY <1>2
<1>7. LineOfList(S, FirstId, n, o.t, o.mt, p) /\ o.J[o.k1 + 1] = Behind(o.t, o.mt, 1, p.end_of_burst)
  BY <1>2, <1>4, <1>5, <1>6
<1>8. PICK q \in PlaceSet :
        /\ q = Behind(o.t, o.mt, 1, p.end_of_burst) /\ q = [l |-> q.l, m |-> q.m]
        /\ q.l \in Nat /\ q.m \in Nat
        /\ p.end_of_burst => q.l = o.t + 1 /\ q.m = 0
        /\ ~p.end_of_burst => q.l = o.t /\ q.m = o.mt + 1
  <2>1. o.t + 1 \in Nat /\ o.mt + 1 \in Nat
    BY <1>1
  <2>2. CASE p.end_of_burst
    <3>1. [l |-> o.t + 1, m |-> 0] \in PlaceSet
      BY <2>1 DEF PlaceSet
    <3> QED
      BY <2>1, <2>2, <3>1 DEF Behind
  <2>3. CASE ~p.end_of_burst
    <3>1. [l |-> o.t, m |-> o.mt + 1] \in PlaceSet
      BY <1>1, <2>1 DEF PlaceSet
    <3> QED
      BY <1>1, <2>1, <2>3, <3>1 DEF Behind
  <2> QED
    BY <2>2, <2>3
<1>9. q.l <= o.i
  <2>1. o.k1 + 1 \in o.k1 .. o.k2 /\ o.k2 \in o.k1 .. o.k2 /\ o.k1 + 1 <= o.k2
    BY <1>1, <1>3
  <2>2. o.J[o.k1 + 1].l <= o.J[o.k2].l
    BY <1>2, <2>1
  <2>3. o.J[o.k2].l = o.i
    BY <1>2
  <2> QED
    BY <1>7, <1>8, <2>2, <2>3
<1> DEFINE x == [o EXCEPT !.k1 = o.k1 + 1, !.t = q.l, !.mt = q.m]
<1>10. /\ x \in OutSet /\ x.K = o.K /\ x.J = o.J /\ x.k1 = o.k1 + 1 /\ x.k2 = o.k2
       /\ x.i = o.i /\ x.mi = o.mi /\ x.t = q.l /\ x.mt = q.m
  <2>1. o.k1 + 1 \in Nat
    BY <1>1
  <2> QED
    BY <1>8, <2>1 DEF OutSet
<1> HIDE DEF x
<1>11. OutPassed(o, x, p)
  BY <1>8, <1>10 DEF OutPassed
<1>12. Out(S, n, x)'
  <2>1. /\ \A r \in o.k1 + 1 .. o.k2 - 1 : r \in o.k1 .. o.k2 - 1
        /\ \A r \in o.k1 + 1 .. o.k2 : r \in o.k1 .. o.k2
    BY <1>1
  <2>2. /\ \A r \in x.k1 .. x.k2 - 1 : r \in o.k1 .. o.k2 - 1
        /\ \A r \in x.k1 .. x.k2 : r \in o.k1 .. o.k2
    BY <1>10, <2>1
  <2>3. /\ \A r \in x.k1 .. x.k2 - 1 :
             /\ LineOfList(S, FirstId, n, x.J[r].l, x.J[r].m, x.K[r])
             /\ x.J[r + 1] = Behind(x.J[r].l, x.J[r].m, 1, x.K[r].end_of_burst)
        /\ \A r, m \in x.k1 .. x.k2 : r <= m => x.J[r].l <= x.J[m].l
    BY <1>2, <1>10, <2>2
  <2>4. x.J[x.k1] = [l |-> x.t, m |-> x.mt] /\ x.J[x.k2] = [l |-> x.i, m |-> x.mi]
    BY <1>2, <1>7, <1>8, <1>10
  <2>5. Holds(inter_out', x.K, x.k1, x.k2, 0, None)
    BY <1>3, <1>10
  <2>6. x.t <= x.i /\ x.i <= n /\ inter_id' = x.i % IdMod
    BY <1>2, <1>9, <1>10
  <2> QED
    BY <2>3, <2>4, <2>5, <2>6 DEF Out
<1> QED
  BY <1>4, <1>7, <1>10, <1>11, <1>12

\* The neighbours in a line and in the lines before.
LEMMA ShownSoFar ==
  ASSUME NEW d, d.start \in Nat, d.size \in Nat, d.size # 0, NEW m \in Nat, NEW words,
         Shows(d, m, words)
  PROVE  /\ LongBurstsFit => words \subseteq Words(d)
         /\ LongBurstsWhole => Below(d, m) \union words = Below(d, m + 1)
<1>1. Below(d, m) \union InLine(d, m) = Below(d, m + 1)
  BY BelowLines
<1> QED
  BY <1>1 DEF Shows

\* What the sampling kernels do with a line p that does not end its list, and with
\* the last one.
SampleKeeps(p, s) ==
    /\ ~p.end_of_burst /\ s \in p.words \union {selected}
    /\ selected' = s /\ shown' = shown \union p.words /\ UNCHANGED next_vertex

SampleEnds(p, s) ==
    /\ p.end_of_burst /\ s \in p.words \union {selected}
    /\ next_vertex' = Append(next_vertex, [to |-> s, id |-> p.id, last |-> p.last])
    /\ selected' = Dead /\ shown' = {}

\* The line is one more of the list that is sampled.
LEMMA SampledLine ==
  ASSUME NEW S, NEW b \in Nat, NEW n \in Nat, NEW o \in OutSet, Sampled(S, b, n, o),
         NEW p \in LinePkg, LineOfList(S, FirstId, n, o.t, o.mt, p), o.t < n,
         NEW d, d = S[o.t].p.vertex, d.start \in Nat, d.size \in Nat, d.size # 0,
         NEW s, SampleKeeps(p, s), NEW x, OutPassed(o, x, p)
  PROVE  Sampled(S, b, n, x)'
<1>1. o.t \in Nat /\ o.mt \in Nat
  BY PlaceFields
<1>2. /\ selected' = s /\ shown' = shown \union p.words /\ next_vertex' = next_vertex
      /\ s \in p.words \union {selected} /\ x.t = o.t /\ x.mt = o.mt + 1
  BY DEF SampleKeeps, OutPassed
<1>3. Shows(d, o.mt, p.words)
  BY DEF LineOfList
<1>4. /\ LongBurstsFit => p.words \subseteq Words(d)
      /\ LongBurstsWhole => Below(d, o.mt) \union p.words = Below(d, o.mt + 1)
  BY <1>1, <1>3, ShownSoFar
<1>5. s \in Int
  BY <1>2 DEF Sampled, LinePkg
<1>6. LongBurstsFit /\ s # Dead => s \in Words(d)
  BY <1>2, <1>4 DEF Sampled
<1>7. LongBurstsWhole => shown \union p.words = Below(d, o.mt + 1)
  <2>1. CASE o.mt = 0
    <3>1. shown = {}
      BY <2>1 DEF Sampled
    <3>2. Below(d, 0) = {}
      BY BelowLines
    <3> QED
      BY <1>4, <2>1, <3>1, <3>2
  <2>2. CASE o.mt # 0
    BY <1>4, <2>2 DEF Sampled
  <2> QED
    BY <2>1, <2>2
<1>8. x.mt # 0 /\ x.mt = o.mt + 1
  BY <1>1, <1>2
<1>9. LongBurstsWhole => shown' = Below(S[x.t].p.vertex, x.mt)
  BY <1>2, <1>7
<1>10. /\ b <= x.t /\ IsSeq(next_vertex') /\ Len(next_vertex') = x.t - b
       /\ \A l \in b .. x.t - 1 : next_vertex'[l - b + 1] \in SampledPkg(S[l])
  BY <1>2 DEF Sampled
<1>11. /\ selected' \in Int
       /\ (selected' # Dead => x.t < n /\ (LongBurstsFit => selected' \in Words(S[x.t].p.vertex)))
  BY <1>2, <1>5, <1>6
<1> QED
  BY <1>2, <1>8, <1>9, <1>10, <1>11 DEF Sampled

\* The line is the last one of the list.
LEMMA SampledList ==
  ASSUME NEW S, NEW b \in Nat, NEW n \in Nat, NEW o \in OutSet, Sampled(S, b, n, o),
         NEW p \in LinePkg, LineOfList(S, FirstId, n, o.t, o.mt, p), o.t < n,
         NEW d, d = S[o.t].p.vertex, d.start \in Nat, d.size \in Nat, d.size # 0,
         NEW s, SampleEnds(p, s), NEW x, OutPassed(o, x, p)
  PROVE  Sampled(S, b, n, x)'
<1>1. o.t \in Nat /\ o.mt \in Nat
  BY PlaceFields
<1>2. PICK r : r = [to |-> s, id |-> p.id, last |-> p.last]
  OBVIOUS
<1>3. /\ selected' = Dead /\ shown' = {} /\ next_vertex' = Append(next_vertex, r)
      /\ s \in p.words \union {selected} /\ x.t = o.t + 1 /\ x.mt = 0 /\ p.end_of_burst
  BY <1>2 DEF SampleEnds, OutPassed
<1>4. Shows(d, o.mt, p.words) /\ p.id = S[o.t].a % IdMod /\ p.last = S[o.t].p.last
  BY <1>3 DEF LineOfList, Listed
<1>5. LongBurstsFit => p.words \subseteq Words(d)
  BY <1>1, <1>4, ShownSoFar
<1>6. r \in SampledPkg(S[o.t])
  <2>1. s \in Int
    BY <1>3 DEF Sampled, LinePkg
  <2>2. LongBurstsFit => s \in Answers(d)
    BY <1>3, <1>5 DEF Sampled, Answers
  <2>3. s \in IF LongBurstsFit THEN Answers(S[o.t].p.vertex) ELSE Int
    BY <2>1, <2>2
  <2> QED
    BY <1>2, <1>4, <2>3 DEF SampledPkg
<1>7. /\ b <= o.t /\ IsSeq(next_vertex) /\ Len(next_vertex) = o.t - b
      /\ \A l \in b .. o.t - 1 : next_vertex[l - b + 1] \in SampledPkg(S[l])
  BY DEF Sampled
<1>8. /\ IsSeq(next_vertex') /\ Len(next_vertex') = (o.t - b) + 1
      /\ next_vertex'[(o.t - b) + 1] = r
      /\ \A k \in 1 .. o.t - b : next_vertex'[k] = next_vertex[k]
  BY <1>3, <1>7, PushIsSeq
<1>9. ASSUME NEW l \in b .. o.t PROVE next_vertex'[l - b + 1] \in SampledPkg(S[l])
  <2>1. CASE l = o.t
    <3>1. next_vertex'[l - b + 1] = r
      BY <1>8, <2>1
    <3> QED
      BY <1>6, <2>1, <3>1
  <2>2. CASE l # o.t
    <3>1. l \in b .. o.t - 1 /\ l - b + 1 \in 1 .. o.t - b
      BY <1>1, <1>9, <2>2
    <3>2. next_vertex'[l - b + 1] = next_vertex[l - b + 1]
      BY <1>8, <3>1
    <3> QED
      BY <1>7, <3>1, <3>2
  <2> QED
    BY <2>1, <2>2
<1>10. b <= x.t /\ (o.t - b) + 1 = x.t - b /\ x.t - 1 = o.t
  BY <1>1, <1>3, <1>7
<1>11. /\ Len(next_vertex') = x.t - b
       /\ \A l \in b .. x.t - 1 : next_vertex'[l - b + 1] \in SampledPkg(S[l])
  BY <1>8, <1>9, <1>10
<1>12. selected' \in Int /\ ~(selected' # Dead)
  BY <1>3, Sizes
<1> QED
  BY <1>3, <1>8, <1>10, <1>11, <1>12 DEF Sampled

\* A line goes through the sampling kernels.
LEMMA SampleStep ==
  ASSUME Rest, NEW f \in FrontSet, NEW w \in Seq(Nat), NEW u \in EngineSet, NEW v \in VdSet,
         NEW a \in EngineSet, NEW y \in LongSet, NEW c \in NumberSet, NEW g \in MergedSet,
         NEW o \in OutSet, Parts(f, w, u, v, a, y, c, g, o), Sample
  PROVE  BurstInv'
<1>1. PICK S, n, i : S = f.S /\ n = f.B[f.s] /\ i = o.i
  OBVIOUS
<1>2. PICK p, s :
        /\ inter_out # <<>> /\ p = Head(inter_out) /\ (SampleKeeps(p, s) \/ SampleEnds(p, s))
        /\ inter_out' = Tail(inter_out)
        /\ UNCHANGED <<asked, input, vs_pc, sync_id, sync_burst_id, update, burst_vd, curr,
                       dynamic_burst_id, cmd, running, j, sync, intra_id, inter_id, update_id,
                       pending>>
  BY DEF Sample, SampleKeeps, SampleEnds, feedVars, schedVars, cgVars, engineVars
<1>3. Requests(f) /\ Numbering(f) /\ Out(S, n, o) /\ Sampled(S, f.B[f.b], n, o) /\ Joined(S, n, g, o)
  BY <1>1 DEF Parts
<1>4. n \in Nat /\ o.t \in Nat /\ FirstId <= o.t /\ f.B[f.b] \in Nat
  BY <1>1, OutWindow
<1>5. /\ p \in LinePkg /\ LineOfList(S, FirstId, n, o.t, o.mt, p)
      /\ \E x \in OutSet : OutPassed(o, x, p) /\ Out(S, n, x)'
  BY <1>2, <1>3, OutTake
<1>6. PICK x \in OutSet : OutPassed(o, x, p) /\ Out(S, n, x)'
  BY <1>5
<1>7. PICK d : d = S[o.t].p.vertex
  OBVIOUS
<1>8. o.t < n /\ d.start \in Nat /\ d.size \in Nat /\ d.size # 0
  <2>1. o.t \in FirstId .. f.B[f.s] - 1
    BY <1>1, <1>5 DEF LineOfList, Listed
  <2>2. FirstId <= FirstId /\ FirstId \in Nat
    BY Sizes
  <2> QED
    BY <1>1, <1>3, <1>7, <2>1, <2>2, CommandLinesKnown
<1>9. Sampled(S, f.B[f.b], n, x)'
  <2>1. CASE SampleKeeps(p, s)
    BY <1>3, <1>4, <1>5, <1>6, <1>7, <1>8, <2>1, SampledLine
  <2>2. CASE SampleEnds(p, s)
    BY <1>3, <1>4, <1>5, <1>6, <1>7, <1>8, <2>2, SampledList
  <2> QED
    BY <1>2, <2>1, <2>2
<1>10. x.i = i /\ x.mi = o.mi
  BY <1>1, <1>6 DEF OutPassed
<1>11. Joined(S, n, g, x)'
  <2>1. Joined(S, n, g, x)
    BY <1>1, <1>3, <1>10 DEF Joined
  <2> QED
    BY <2>1, KeepBack
<1>12. Parts(f, w, u, v, a, y, c, g, x)'
  <2>1. UNCHANGED <<cmd["single"], cmd["one"], cmd["long"], sync["one"], sync["long"],
                    sync["single"], sync["dynamic"]>>
    BY <1>2
  <2>2. Requests(f)' /\ Numbering(f)' /\ Empties(f, w)' /\ Generated(v)'
    BY <1>2, <2>1, KeepFront DEF Parts
  <2>3. Singles(S, i, n, u)' /\ Vds(S, i, n, v)'
    BY <1>1, <1>2, <2>1, KeepFront DEF Parts
  <2>4. OneStreams(a)' /\ LongStreams(y)' /\ LongLines(y)'
    BY <1>2, <2>1, KeepBack DEF Parts
  <2>5. Counted(a, y, c)' /\ Ordered(n, v, c)' /\ Linked(y, c, g)'
    BY <1>1, <1>2, KeepBack DEF Parts
  <2>6. Commands(S, i, n, c, a, 1)' /\ Commands(S, i, n, c, y, MaxBurst)' /\ Merged(S, i, n, g)'
    BY <1>1, <2>1, KeepBack DEF Parts
  <2>7. Stops(u, v, a, y)'
    BY <1>2, KeepBack DEF Parts
  <2> QED
    BY <1>1, <1>6, <1>9, <1>10, <1>11, <2>2, <2>3, <2>4, <2>5, <2>6, <2>7 DEF Parts
<1>13. Rest'
  BY <1>2 DEF Rest
<1> QED
  BY <1>12, <1>13 DEF BurstInv

\* A list that waits is that of a request that waits.
LEMMA ListRequest ==
  ASSUME NEW f \in FrontSet, Requests(f), Numbering(f), NEW l \in Nat, f.B[f.b] <= l, l < f.B[f.s]
  PROVE  /\ f.S[l].a \in Nat /\ f.b <= f.S[l].a /\ f.S[l].a < f.s /\ l < f.B[f.e]
         /\ f.S[l].a < f.b + IdMod
<1>1. /\ FirstId \in Nat /\ f.b \in Nat /\ f.s \in Nat /\ f.e \in Nat
      /\ FirstId <= f.b /\ f.b <= f.s /\ f.s <= f.e /\ FirstId <= f.s /\ f.b <= f.e
      /\ f.s - f.b <= MaxInFlight
  BY FrontOrder
<1>2. /\ f.B[f.b] \in Nat /\ f.B[f.s] \in Nat /\ f.B[f.e] \in Nat
      /\ FirstId <= f.B[f.b] /\ f.B[f.s] <= f.B[f.e]
  BY ListWindow
<1>3. FirstId <= l /\ l < f.B[f.e]
  BY <1>1, <1>2
<1>4. PICK a \in Nat : /\ a = f.S[l].a /\ FirstId <= a /\ a < f.e
                       /\ f.B[a] = l /\ f.B[a + 1] = l + 1
  BY <1>3, HistoryList
<1>5. f.b <= a
  <2>1. CASE a < f.b
    <3>1. a + 1 \in Nat /\ FirstId <= a + 1 /\ a + 1 <= f.b
      BY <1>1, <1>4, <2>1
    <3>2. f.B[a + 1] <= f.B[f.b]
      BY <1>1, <3>1, ListsBefore
    <3>3. l + 1 <= f.B[f.b]
      BY <1>4, <3>2
    <3> QED
      BY <1>2, <3>3
  <2> QED
    BY <1>1, <1>4, <2>1
<1>6. a < f.s
  <2>1. CASE f.s <= a
    <3>1. a <= f.e
      BY <1>1, <1>4
    <3>2. f.B[f.s] <= f.B[a]
      BY <1>1, <1>4, <2>1, <3>1, ListsBefore
    <3> QED
      BY <1>2, <1>4, <3>2
  <2> QED
    BY <1>1, <1>4, <2>1
<1>7. a < f.b + IdMod
  <2>1. MaxInFlight \in Nat /\ IdMod \in Nat /\ MaxInFlight <= IdMod
    BY Sizes
  <2> QED
    BY <1>1, <1>4, <1>6, <2>1
<1> QED
  BY <1>3, <1>4, <1>5, <1>6, <1>7

\* The packet that is in its turn in update is the answer to the oldest request.
LEMMA EmptyAnswer ==
  ASSUME NEW f \in FrontSet, Requests(f), NEW w \in Seq(Nat), Empties(f, w), UpdateTurn(update)
  PROVE  /\ w # <<>> /\ w[1] = f.b /\ f.b < f.s /\ ~Sized(f.H[f.b])
         /\ IsSeq(update) /\ update # <<>>
         /\ Head(update) = [to |-> Dead, id |-> f.b % IdMod, last |-> f.H[f.b].last]
<1>1. f.b \in Nat /\ f.s \in Nat /\ f.s - f.b <= MaxInFlight
  BY FrontOrder
<1>2. /\ IsSeq(update) /\ update # <<>> /\ Len(update) = Len(w)
      /\ \A n \in 1 .. Len(w) :
           /\ w[n] \in f.b .. f.s - 1 /\ ~Sized(f.H[w[n]])
           /\ update[n] = [to |-> Dead, id |-> w[n] % IdMod, last |-> f.H[w[n]].last]
  BY DEF Empties, UpdateTurn
<1>3. Len(update) \in Nat /\ Len(update) >= 1 /\ Head(update) = update[1]
  BY <1>2, PopIsSeq
<1>4. 1 \in 1 .. Len(w)
  BY <1>2, <1>3
<1>5. PICK a : /\ a = w[1] /\ a \in f.b .. f.s - 1 /\ ~Sized(f.H[a])
               /\ Head(update) = [to |-> Dead, id |-> a % IdMod, last |-> f.H[a].last]
  BY <1>2, <1>3, <1>4, ZenonT(60)
<1>6. a \in Nat /\ f.b <= a /\ a < f.s
  BY <1>1, <1>5
<1>7. a % IdMod = f.b % IdMod
  <2>1. Head(update).id = update_id /\ update_id = f.b % IdMod
    BY DEF UpdateTurn, Requests
  <2> QED
    BY <1>5, <2>1
<1>8. a < f.b + IdMod
  <2>1. MaxInFlight \in Nat /\ IdMod \in Nat /\ MaxInFlight <= IdMod
    BY Sizes
  <2> QED
    BY <1>1, <1>6, <2>1
<1>9. a = f.b
  BY <1>1, <1>6, <1>7, <1>8, Sizes, SameRemainder
<1>10. w # <<>>
  BY <1>2, <1>3
<1> QED
  BY <1>2, <1>5, <1>6, <1>9, <1>10

\* So is the packet that is in its turn in next_vertex.
LEMMA SampledAnswer ==
  ASSUME NEW f \in FrontSet, Requests(f), Numbering(f), NEW n, n = f.B[f.s], NEW o \in OutSet,
         Out(f.S, n, o), Sampled(f.S, f.B[f.b], n, o), UpdateTurn(next_vertex)
  PROVE  /\ f.b < f.s /\ f.B[f.b] < o.t /\ Sized(f.H[f.b]) /\ f.B[f.b + 1] = f.B[f.b] + 1
         /\ IsSeq(next_vertex) /\ next_vertex # <<>>
         /\ Head(next_vertex) \in SampledPkg(f.S[f.B[f.b]]) /\ f.S[f.B[f.b]].p = f.H[f.b]
<1>1. o.t \in Nat /\ o.i \in Nat /\ f.b \in Nat /\ f.s \in Nat
  BY PlaceFields, FrontFields
<1>2. PICK l \in Nat : l = f.B[f.b]
  BY ListWindow
<1>3. /\ IsSeq(next_vertex) /\ next_vertex # <<>> /\ Len(next_vertex) = o.t - l
      /\ \A r \in l .. o.t - 1 : next_vertex[r - l + 1] \in SampledPkg(f.S[r])
      /\ o.t <= o.i /\ o.i <= n
  BY <1>2 DEF Sampled, UpdateTurn, Out
<1>4. Len(next_vertex) \in Nat /\ Len(next_vertex) >= 1 /\ Head(next_vertex) = next_vertex[1]
  BY <1>3, PopIsSeq
<1>5. l < o.t /\ l < n
  <2>1. PICK k \in Nat : k = Len(next_vertex)
    BY <1>4
  <2>2. k = o.t - l /\ k >= 1
    BY <1>3, <1>4, <2>1
  <2>3. n \in Nat
    BY ListWindow
  <2> QED
    BY <1>1, <1>3, <2>2, <2>3
<1>6. Head(next_vertex) \in SampledPkg(f.S[l])
  <2>1. l \in l .. o.t - 1 /\ l - l + 1 = 1
    BY <1>1, <1>5
  <2> QED
    BY <1>3, <1>4, <2>1
<1>7. /\ f.S[l].a \in Nat /\ f.b <= f.S[l].a /\ f.S[l].a < f.s /\ l < f.B[f.e]
      /\ f.S[l].a < f.b + IdMod
  <2>1. f.B[f.b] <= l /\ l < f.B[f.s]
    BY <1>2, <1>5
  <2> QED
    BY <2>1, ListRequest
<1>8. f.S[l].a = f.b
  <2>1. PICK a \in Nat : a = f.S[l].a
    BY <1>7
  <2>2. Head(next_vertex).id = a % IdMod
    BY <1>6, <2>1 DEF SampledPkg
  <2>3. a % IdMod = f.b % IdMod
    BY <2>2 DEF UpdateTurn, Requests
  <2>4. f.b <= a /\ a < f.b + IdMod
    BY <1>7, <2>1
  <2> QED
    BY <1>1, <2>1, <2>3, <2>4, Sizes, SameRemainder
<1>9. Sized(f.H[f.b]) /\ f.B[f.b + 1] = l + 1 /\ f.S[l].p = f.H[f.b]
  <2>1. FirstId <= l /\ l < f.B[f.e]
    <3>1. FirstId <= f.B[f.b]
      BY ListWindow
    <3> QED
      BY <1>2, <1>7, <3>1
  <2>2. Sized(f.H[f.S[l].a]) /\ f.B[f.S[l].a + 1] = l + 1 /\ f.S[l].p = f.H[f.S[l].a]
    BY <2>1, HistoryList
  <2> QED
    BY <1>8, <2>2
<1>10. f.b < f.s
  BY <1>7, <1>8
<1> QED
  BY <1>2, <1>3, <1>5, <1>6, <1>9, <1>10

\* The two alternatives of update_merge, and what they have in common.
AnswerEmpty   == Give(update) /\ update' = Tail(update) /\ UNCHANGED next_vertex
AnswerSampled == Give(next_vertex) /\ next_vertex' = Tail(next_vertex) /\ UNCHANGED update

Answered ==
    /\ update_id' = Succ(update_id) /\ pending' = Tail(pending)
    /\ UNCHANGED <<asked, input, vs_pc, sync_id, sync_burst_id, burst_vd, curr, dynamic_burst_id,
                   cmd, running, j, sync, intra_id, inter_id, inter_out, selected, shown>>

\* Record h is record f with one request less to be answered.
OneLess(f, h) == h.H = f.H /\ h.B = f.B /\ h.S = f.S /\ h.b = f.b + 1 /\ h.s = f.s /\ h.e = f.e

\* The oldest request is answered.
LEMMA RequestsPass ==
  ASSUME NEW f \in FrontSet, Requests(f), Numbering(f), f.b < f.s, Answered
  PROVE  \E h \in FrontSet : OneLess(f, h) /\ Requests(h)' /\ Numbering(h)
<1>1. /\ FirstId \in Nat /\ f.b \in Nat /\ f.s \in Nat /\ f.e \in Nat
      /\ FirstId <= f.b /\ f.b <= f.s /\ f.s <= f.e /\ f.e - f.b <= MaxInFlight
      /\ MaxInFlight \in Nat
  BY FrontOrder, Sizes
<1>2. PICK b \in Nat : b = f.b + 1
  BY <1>1
<1> DEFINE h == [f EXCEPT !.b = b]
<1>3. h \in FrontSet /\ h.H = f.H /\ h.B = f.B /\ h.S = f.S /\ h.b = b /\ h.s = f.s /\ h.e = f.e
  BY DEF FrontSet
<1> HIDE DEF h
<1>4. OneLess(f, h)
  BY <1>2, <1>3 DEF OneLess
<1>5. Numbering(h)
  BY <1>3 DEF Numbering
<1>6. FirstId <= b /\ b <= f.s /\ f.s <= f.e /\ f.e - b <= MaxInFlight
  BY <1>1, <1>2
<1>7. update_id' = b % IdMod
  <2>1. ((f.b % IdMod) + 1) % IdMod = (f.b + 1) % IdMod
    BY <1>1, Sizes, NextRemainder
  <2>2. update_id = f.b % IdMod /\ update_id' = Succ(update_id)
    BY DEF Requests, Answered
  <2> QED
    BY <1>2, <2>1, <2>2 DEF Succ
<1>8. Holds(pending', f.H, b, f.e, 0, None)
  <2>1. Holds(pending, f.H, f.b, f.e, 0, None)
    BY DEF Requests
  <2>2. pending # <<>>
    <3>1. f.b # f.e
      BY <1>1
    <3> QED
      BY <1>1, <2>1, <3>1, StreamEmpty
  <2>3. Holds(Tail(pending), f.H, f.b + 1, f.e, 0, None)
    BY <1>1, <2>1, <2>2, StreamPop
  <2> QED
    BY <1>2, <2>3 DEF Answered
<1>9. \A a \in b .. f.e - 1 : a \in f.b .. f.e - 1
  BY <1>1, <1>2
<1>10. \A a \in b .. f.e - 1 : f.H[a].last => a = f.e - 1
  BY <1>9 DEF Requests
<1>11. /\ UNCHANGED <<sync_id, sync_burst_id, input, vs_pc>>
  BY DEF Answered
<1>12. /\ sync_id = f.s % IdMod /\ sync_burst_id = f.B[f.s] % IdMod
       /\ Holds(input, f.H, f.s, f.e, 0, None) /\ (vs_pc # "run" => f.s = f.e)
  BY DEF Requests
<1>13. Requests(h)'
  BY <1>3, <1>6, <1>7, <1>8, <1>10, <1>11, <1>12 DEF Requests
<1> QED
  BY <1>3, <1>4, <1>5, <1>13

\* These records are all that changes.
LEMMA AnswerStep ==
  ASSUME Rest, NEW f \in FrontSet, NEW w \in Seq(Nat), NEW u \in EngineSet, NEW v \in VdSet,
         NEW a \in EngineSet, NEW y \in LongSet, NEW c \in NumberSet, NEW g \in MergedSet,
         NEW o \in OutSet, Parts(f, w, u, v, a, y, c, g, o), Answered,
         NEW h \in FrontSet, OneLess(f, h), Requests(h)', Numbering(h), NEW x \in Seq(Nat),
         Empties(h, x)', Sampled(f.S, f.B[f.b + 1], f.B[f.s], o)'
  PROVE  BurstInv'
<1>1. PICK S, n, i : S = f.S /\ n = f.B[f.s] /\ i = o.i
  OBVIOUS
<1>2. h.S = S /\ h.B[h.s] = n /\ h.B[h.b] = f.B[f.b + 1]
  BY <1>1 DEF OneLess
<1>3. UNCHANGED <<asked, input, vs_pc, sync_id, sync_burst_id, burst_vd, curr, dynamic_burst_id,
                  cmd, running, j, sync, intra_id, inter_id, inter_out, selected, shown>>
  BY DEF Answered
<1>4. UNCHANGED <<cmd["single"], cmd["one"], cmd["long"], sync["one"], sync["long"],
                  sync["single"], sync["dynamic"]>>
  BY <1>3
<1>5. Generated(v)' /\ Singles(S, i, n, u)' /\ Vds(S, i, n, v)' /\ Numbering(h)'
  BY <1>1, <1>3, <1>4, KeepFront DEF Parts
<1>6. OneStreams(a)' /\ LongStreams(y)' /\ LongLines(y)'
  BY <1>3, <1>4, KeepBack DEF Parts
<1>7. Counted(a, y, c)' /\ Ordered(n, v, c)' /\ Linked(y, c, g)'
  BY <1>1, <1>3, KeepBack DEF Parts
<1>8. Commands(S, i, n, c, a, 1)' /\ Commands(S, i, n, c, y, MaxBurst)' /\ Merged(S, i, n, g)'
  BY <1>1, <1>4, KeepBack DEF Parts
<1>9. Joined(S, n, g, o)' /\ Out(S, n, o)' /\ Stops(u, v, a, y)'
  BY <1>1, <1>3, KeepBack DEF Parts
<1>10. Sampled(S, h.B[h.b], n, o)'
  BY <1>1, <1>2
<1>11. Parts(h, x, u, v, a, y, c, g, o)'
  BY <1>1, <1>2, <1>5, <1>6, <1>7, <1>8, <1>9, <1>10 DEF Parts
<1>12. Rest'
  BY <1>3 DEF Rest
<1> QED
  BY <1>11, <1>12 DEF BurstInv

\* A request that waits and is not the oldest one.
LEMMA NotOldest ==
  ASSUME NEW b \in Nat, NEW s \in Nat, NEW a \in b .. s - 1, a # b
  PROVE  a \in b + 1 .. s - 1
OBVIOUS

\* The first of the requests without a list is answered.
LEMMA EmptiesPass ==
  ASSUME NEW f \in FrontSet, NEW w \in Seq(Nat), Empties(f, w), w # <<>>, w[1] = f.b,
         update # <<>>, update' = Tail(update), NEW h, OneLess(f, h)
  PROVE  \E x \in Seq(Nat) : Empties(h, x)'
<1>1. f.b \in Nat /\ f.s \in Nat
  BY FrontFields
<1>2. PICK x : x = Tail(w)
  OBVIOUS
<1>3. /\ x \in Seq(Nat) /\ Len(w) \in Nat /\ Len(w) >= 1 /\ Len(x) = Len(w) - 1
      /\ \A n \in 1 .. Len(w) - 1 : x[n] = w[n + 1]
  <2>1. Len(w) \in Nat
    OBVIOUS
  <2> QED
    BY <1>2, <2>1, PopElements
<1>4. /\ IsSeq(update) /\ Len(update) = Len(w)
      /\ \A n \in 1 .. Len(w) :
           /\ w[n] \in f.b .. f.s - 1 /\ ~Sized(f.H[w[n]])
           /\ update[n] = [to |-> Dead, id |-> w[n] % IdMod, last |-> f.H[w[n]].last]
      /\ \A n, m \in 1 .. Len(w) : n < m => w[n] < w[m]
  BY DEF Empties
<1>5. /\ IsSeq(update') /\ Len(update') = Len(update) - 1
      /\ \A n \in 1 .. Len(update) - 1 : update'[n] = update[n + 1]
  BY <1>4, PopIsSeq
<1>6. ASSUME NEW n \in 1 .. Len(x)
      PROVE  /\ x[n] \in f.b + 1 .. f.s - 1 /\ ~Sized(f.H[x[n]])
             /\ update'[n] = [to |-> Dead, id |-> x[n] % IdMod, last |-> f.H[x[n]].last]
  <2>1. n + 1 \in 1 .. Len(w) /\ n \in 1 .. Len(w) - 1 /\ 1 \in 1 .. Len(w) /\ 1 < n + 1
    BY <1>3, <1>6
  <2>2. x[n] = w[n + 1] /\ update'[n] = update[n + 1]
    BY <1>3, <1>4, <1>5, <2>1
  <2>3. w[1] < w[n + 1]
    BY <1>4, <2>1
  <2>4. /\ w[n + 1] \in f.b .. f.s - 1 /\ ~Sized(f.H[w[n + 1]])
        /\ update[n + 1] = [to |-> Dead, id |-> w[n + 1] % IdMod, last |-> f.H[w[n + 1]].last]
    BY <1>4, <2>1
  <2>5. w[n + 1] \in f.b + 1 .. f.s - 1
    <3>1. PICK r : r = w[n + 1] /\ r \in f.b .. f.s - 1 /\ f.b < r
      BY <2>3, <2>4
    <3> QED
      BY <1>1, <3>1
  <2> QED
    BY <2>2, <2>4, <2>5
<1>7. ASSUME NEW n \in 1 .. Len(x), NEW m \in 1 .. Len(x), n < m
      PROVE  x[n] < x[m]
  <2>1. /\ n \in 1 .. Len(w) - 1 /\ m \in 1 .. Len(w) - 1
        /\ n + 1 \in 1 .. Len(w) /\ m + 1 \in 1 .. Len(w) /\ n + 1 < m + 1
    BY <1>3, <1>7
  <2> QED
    BY <1>3, <1>4, <2>1
<1>8. Len(update') = Len(x)
  BY <1>3, <1>4, <1>5
<1>9. Empties(h, x)'
  BY <1>5, <1>6, <1>7, <1>8 DEF Empties, OneLess
<1> QED
  BY <1>3, <1>9

\* A request with a list is answered: those without one stay.
LEMMA EmptiesKeep ==
  ASSUME NEW f \in FrontSet, NEW w, Empties(f, w), Sized(f.H[f.b]), UNCHANGED update,
         NEW h, OneLess(f, h)
  PROVE  Empties(h, w)'
<1>1. f.b \in Nat /\ f.s \in Nat
  BY FrontFields
<1>2. /\ IsSeq(update) /\ Len(update) = Len(w)
      /\ \A n \in 1 .. Len(w) :
           /\ w[n] \in f.b .. f.s - 1 /\ ~Sized(f.H[w[n]])
           /\ update[n] = [to |-> Dead, id |-> w[n] % IdMod, last |-> f.H[w[n]].last]
      /\ \A n, m \in 1 .. Len(w) : n < m => w[n] < w[m]
  BY DEF Empties
<1>3. ASSUME NEW n \in 1 .. Len(w) PROVE w[n] \in f.b + 1 .. f.s - 1
  <2>1. w[n] \in f.b .. f.s - 1 /\ w[n] # f.b
    BY <1>2
  <2> QED
    BY <1>1, <2>1, NotOldest
<1> QED
  BY <1>2, <1>3 DEF Empties, OneLess

\* The first of the lists that are sampled is answered.
LEMMA SampledPass ==
  ASSUME NEW S, NEW b \in Nat, NEW n, NEW o \in OutSet, Sampled(S, b, n, o), b < o.t,
         next_vertex # <<>>, next_vertex' = Tail(next_vertex), UNCHANGED <<selected, shown>>
  PROVE  Sampled(S, b + 1, n, o)'
<1>1. o.t \in Nat
  BY PlaceFields
<1>2. /\ IsSeq(next_vertex) /\ Len(next_vertex) = o.t - b
      /\ \A l \in b .. o.t - 1 : next_vertex[l - b + 1] \in SampledPkg(S[l])
  BY DEF Sampled
<1>3. /\ IsSeq(next_vertex') /\ Len(next_vertex') = Len(next_vertex) - 1
      /\ \A k \in 1 .. Len(next_vertex) - 1 : next_vertex'[k] = next_vertex[k + 1]
  BY <1>2, PopIsSeq
<1>4. ASSUME NEW l \in b + 1 .. o.t - 1
      PROVE  next_vertex'[l - (b + 1) + 1] \in SampledPkg(S[l])
  <2>1. l \in b .. o.t - 1
    BY <1>1
  <2>2. PICK k \in Nat : k = l - (b + 1) + 1
    BY <1>1
  <2>3. k \in 1 .. (o.t - b) - 1 /\ k + 1 = l - b + 1
    BY <1>1, <2>2
  <2>4. next_vertex'[k] = next_vertex[k + 1]
    BY <1>2, <1>3, <2>3
  <2> QED
    BY <1>2, <2>1, <2>2, <2>3, <2>4
<1>5. Len(next_vertex') = o.t - (b + 1)
  <2>1. Len(next_vertex') = (o.t - b) - 1
    BY <1>2, <1>3
  <2> QED
    BY <1>1, <2>1
<1>6. b + 1 <= o.t
  BY <1>1
<1>7. /\ selected \in Int
      /\ selected # Dead => o.t < n /\ (LongBurstsFit => selected \in Words(S[o.t].p.vertex))
      /\ o.mt = 0 => shown = {}
      /\ o.mt # 0 => o.t < n /\ (LongBurstsWhole => shown = Below(S[o.t].p.vertex, o.mt))
  BY DEF Sampled
<1> QED
  BY <1>3, <1>4, <1>5, <1>6, <1>7 DEF Sampled

\* The oldest request has no list: its answer is in update.
LEMMA AnswerEmptyStep ==
  ASSUME Rest, NEW f \in FrontSet, NEW w \in Seq(Nat), NEW u \in EngineSet, NEW v \in VdSet,
         NEW a \in EngineSet, NEW y \in LongSet, NEW c \in NumberSet, NEW g \in MergedSet,
         NEW o \in OutSet, Parts(f, w, u, v, a, y, c, g, o), AnswerEmpty
  PROVE  BurstInv'
<1>1. /\ UpdateTurn(update) /\ Answered /\ update' = Tail(update) /\ next_vertex' = next_vertex
  BY DEF AnswerEmpty, Answered, Give, feedVars, schedVars, cgVars, engineVars, mergeVars
<1>2. Requests(f) /\ Numbering(f) /\ Empties(f, w) /\ Sampled(f.S, f.B[f.b], f.B[f.s], o)
  BY DEF Parts
<1>3. w # <<>> /\ w[1] = f.b /\ f.b < f.s /\ ~Sized(f.H[f.b]) /\ update # <<>>
  BY <1>1, <1>2, EmptyAnswer
<1>4. PICK h \in FrontSet : OneLess(f, h) /\ Requests(h)' /\ Numbering(h)
  BY <1>1, <1>2, <1>3, RequestsPass
<1>5. PICK x \in Seq(Nat) : Empties(h, x)'
  BY <1>1, <1>2, <1>3, <1>4, EmptiesPass
<1>6. f.B[f.b + 1] = f.B[f.b]
  <2>1. f.b \in Nat /\ FirstId <= f.b /\ f.b < f.e
    <3>1. f.b \in Nat /\ f.s \in Nat /\ f.e \in Nat /\ FirstId <= f.b /\ f.s <= f.e
      BY <1>2, FrontOrder
    <3> QED
      BY <1>3, <3>1
  <2> QED
    BY <1>2, <1>3, <2>1, HistoryStep
<1>7. Sampled(f.S, f.B[f.b], f.B[f.s], o)'
  <2>1. UNCHANGED <<selected, shown, next_vertex>>
    BY <1>1 DEF Answered
  <2> QED
    BY <1>2, <2>1, KeepBack
<1>8. Sampled(f.S, f.B[f.b + 1], f.B[f.s], o)'
  BY <1>6, <1>7
<1> QED
  BY <1>1, <1>4, <1>5, <1>8, AnswerStep

\* The oldest request has been sampled.
LEMMA AnswerSampledStep ==
  ASSUME Rest, NEW f \in FrontSet, NEW w \in Seq(Nat), NEW u \in EngineSet, NEW v \in VdSet,
         NEW a \in EngineSet, NEW y \in LongSet, NEW c \in NumberSet, NEW g \in MergedSet,
         NEW o \in OutSet, Parts(f, w, u, v, a, y, c, g, o), AnswerSampled
  PROVE  BurstInv'
<1>1. /\ UpdateTurn(next_vertex) /\ Answered /\ next_vertex' = Tail(next_vertex)
      /\ update' = update
  BY DEF AnswerSampled, Answered, Give, feedVars, schedVars, cgVars, engineVars, mergeVars
<1>2. PICK n : n = f.B[f.s]
  OBVIOUS
<1>3. /\ Requests(f) /\ Numbering(f) /\ Empties(f, w) /\ Out(f.S, n, o)
      /\ Sampled(f.S, f.B[f.b], n, o)
  BY <1>2 DEF Parts
<1>4. /\ f.b < f.s /\ f.B[f.b] < o.t /\ Sized(f.H[f.b]) /\ f.B[f.b + 1] = f.B[f.b] + 1
      /\ next_vertex # <<>>
  BY <1>1, <1>2, <1>3, SampledAnswer
<1>5. PICK h \in FrontSet : OneLess(f, h) /\ Requests(h)' /\ Numbering(h)
  BY <1>1, <1>3, <1>4, RequestsPass
<1>6. Empties(h, w)'
  BY <1>1, <1>3, <1>4, <1>5, EmptiesKeep
<1>7. Sampled(f.S, f.B[f.b] + 1, n, o)'
  <2>1. f.B[f.b] \in Nat
    BY <1>3, ListWindow
  <2>2. UNCHANGED <<selected, shown>>
    BY <1>1 DEF Answered
  <2> QED
    BY <1>1, <1>3, <1>4, <2>1, <2>2, SampledPass
<1>8. Sampled(f.S, f.B[f.b + 1], f.B[f.s], o)'
  BY <1>2, <1>4, <1>7
<1> QED
  BY <1>1, <1>5, <1>6, <1>8, AnswerStep

\* update_merge passes an answer on.
LEMMA UpdateMergeStep ==
  ASSUME Rest, NEW f \in FrontSet, NEW w \in Seq(Nat), NEW u \in EngineSet, NEW v \in VdSet,
         NEW a \in EngineSet, NEW y \in LongSet, NEW c \in NumberSet, NEW g \in MergedSet,
         NEW o \in OutSet, Parts(f, w, u, v, a, y, c, g, o), UpdateMerge
  PROVE  BurstInv'
<1>1. AnswerEmpty \/ AnswerSampled
  BY DEF UpdateMerge, AnswerEmpty, AnswerSampled
<1> QED
  BY <1>1, AnswerEmptyStep, AnswerSampledStep

\* Nothing is made for the lists behind the last one.
LEMMA NoneListed ==
  ASSUME NEW S, NEW i \in Nat
  PROVE  /\ \A l, p : ~Listed(S, i, i, l, p)
         /\ \A T : ~SingleTag(S, i, i, T) /\ ~VdTagged(S, i, i, T) /\ ~MergedLine(S, i, i, T)
         /\ \A c, T, k : ~CmdTagged(S, i, i, c, T, k)
<1>1. \A l, p : ~Listed(S, i, i, l, p)
  BY DEF Listed
<1> QED
  BY <1>1 DEF SingleTag, VdTagged, MergedLine, LineOfList, CmdTagged, CmdOfList

\* Rows of numbers that are empty.
LEMMA EmptyRow ==
  ASSUME NEW b \in Nat, NEW e \in Nat, b <= e, \A h \in b .. e - 1 : FALSE
  PROVE  b = e
OBVIOUS

\* When every list is sampled, no packet of any is on its way.
LEMMA SinglesEmpty ==
  ASSUME NEW S, NEW i \in Nat, NEW u \in EngineSet, Singles(S, i, i, u)
  PROVE  u.k1 = u.k2 /\ u.k2 = u.k3
<1>1. u.k1 \in Nat /\ u.k2 \in Nat /\ u.k3 \in Nat
  BY EngineFields
<1>2. u.k1 <= u.k2 /\ u.k2 <= u.k3
  BY DEF Singles, Holds
<1>3. \A h \in u.k1 .. u.k3 - 1 : FALSE
  BY NoneListed DEF Singles
<1>4. u.k1 = u.k3
  BY <1>1, <1>2, <1>3, EmptyRow
<1> QED
  BY <1>1, <1>2, <1>4

\* Nor has cmd_generator a list.
LEMMA VdsEmpty ==
  ASSUME NEW S, NEW i \in Nat, NEW v \in VdSet, Vds(S, i, i, v)
  PROVE  v.p = v.q
<1>1. v.p \in Nat /\ v.q \in Nat
  BY VdFields
<1>2. v.p <= v.q
  BY DEF Vds, Holds
<1>3. \A h \in v.p .. v.q - 1 : FALSE
  BY NoneListed DEF Vds
<1> QED
  BY <1>1, <1>2, <1>3, EmptyRow

\* Nor has an engine a command.
LEMMA CommandsEmpty ==
  ASSUME NEW S, NEW i \in Nat, NEW c, NEW a, NEW k, Commands(S, i, i, c, a, k),
         a.k1 \in Nat, a.k2 \in Nat, a.k3 \in Nat, a.k1 <= a.k2, a.k2 <= a.k3
  PROVE  a.k1 = a.k2 /\ a.k2 = a.k3
<1>1. \A h \in a.k1 .. a.k3 - 1 : FALSE
  BY NoneListed DEF Commands
<1>2. a.k1 <= a.k3
  OBVIOUS
<1>3. a.k1 = a.k3
  BY <1>1, <1>2, EmptyRow
<1> QED
  BY <1>3

\* Nor is there a line between the merges.
LEMMA MergedEmpty ==
  ASSUME NEW S, NEW i \in Nat, NEW g \in MergedSet, Merged(S, i, i, g)
  PROVE  g.g1 = g.g2 /\ sync["dynamic"] = <<>>
<1>1. g.g1 \in Nat /\ g.g2 \in Nat
  BY PlaceFields
<1>2. Holds(sync["dynamic"], PkgOf(g.G), g.g1, g.g2, 0, None)
  BY DEF Merged
<1>3. \A h \in g.g1 .. g.g2 - 1 : FALSE
  BY NoneListed DEF Merged
<1>4. g.g1 = g.g2
  BY <1>1, <1>2, <1>3, EmptyRow DEF Holds
<1> QED
  BY <1>1, <1>2, <1>4, StreamEmpty

\* Nor is there one behind them.
LEMMA OutEmpty ==
  ASSUME NEW S, NEW n \in Nat, NEW o \in OutSet, Out(S, n, o), o.t = n
  PROVE  o.i = n /\ o.k1 = o.k2 /\ inter_out = <<>>
<1>1. o.k1 \in Nat /\ o.k2 \in Nat /\ o.i \in Nat
  BY PlaceFields
<1>2. /\ Holds(inter_out, o.K, o.k1, o.k2, 0, None) /\ o.J[o.k1] = [l |-> o.t, m |-> o.mt]
      /\ \A h \in o.k1 .. o.k2 - 1 : LineOfList(S, FirstId, n, o.J[h].l, o.J[h].m, o.K[h])
      /\ o.t <= o.i /\ o.i <= n
  BY DEF Out
<1>3. o.k1 <= o.k2
  BY <1>1, <1>2, StreamEmpty
<1>4. ~(o.k1 < o.k2)
  <2>1. SUFFICES ASSUME o.k1 < o.k2 PROVE FALSE
    OBVIOUS
  <2>2. o.k1 \in o.k1 .. o.k2 - 1
    BY <1>1, <2>1, FirstOfRow
  <2>3. o.J[o.k1].l \in FirstId .. n - 1
    BY <1>2, <2>2 DEF LineOfList, Listed
  <2>4. n \in FirstId .. n - 1
    BY <1>2, <2>3
  <2> QED
    BY <2>4, Sizes
<1>5. o.k1 = o.k2
  BY <1>1, <1>3, <1>4
<1>6. o.i = n
  BY <1>1, <1>2
<1> QED
  BY <1>1, <1>2, <1>5, <1>6, StreamEmpty

\* What a run leaves behind: every request is answered, no packet is left, and
\* the counters are where their readers wait.
Finished ==
    /\ input = <<>> /\ update = <<>> /\ burst_vd = <<>>
    /\ \A e \in Engines : cmd[e] = <<>>
    /\ \A s \in Sources : sync[s] = <<>>
    /\ inter_out = <<>> /\ next_vertex = <<>>
    /\ curr = 0 /\ j = 0 /\ selected = Dead
    /\ intra_id = dynamic_burst_id
    /\ inter_id = sync_burst_id
    /\ update_id = sync_id

\* The records of a run that is over.
RunDone(f, u, v, a, y) ==
    f.s = f.e /\ u.z = 0 /\ v.z = 0 /\ a.z = 0 /\ y.z = 0

\* When a run is over, every request is answered and every list sampled.
LEMMA RunOverFront ==
  ASSUME Rest, NEW f \in FrontSet, NEW w \in Seq(Nat), NEW u \in EngineSet, NEW v \in VdSet,
         NEW a \in EngineSet, NEW y \in LongSet, NEW c \in NumberSet, NEW g \in MergedSet,
         NEW o \in OutSet, Parts(f, w, u, v, a, y, c, g, o), RunOver
  PROVE  /\ f.b = f.s /\ f.s = f.e /\ w = <<>> /\ o.t = f.B[f.s] /\ o.i = f.B[f.s]
         /\ f.B[f.b] = f.B[f.s]
<1>1. PICK n : n = f.B[f.s]
  OBVIOUS
<1>2. Requests(f) /\ Numbering(f) /\ Empties(f, w) /\ Out(f.S, n, o)
  BY <1>1 DEF Parts
<1>3. f.b \in Nat /\ f.s \in Nat /\ f.e \in Nat /\ f.b <= f.s /\ f.s <= f.e
  BY <1>2, FrontOrder
<1>4. f.b = f.e
  <2>1. Holds(pending, f.H, f.b, f.e, 0, None) /\ pending = <<>>
    BY <1>2 DEF Requests, RunOver
  <2> QED
    BY <1>3, <2>1, StreamEmpty
<1>5. f.b = f.s /\ f.s = f.e
  BY <1>3, <1>4
<1>6. w = <<>>
  <2>1. Len(w) \in Nat
    OBVIOUS
  <2>2. Len(w) = 0
    <3>1. CASE Len(w) # 0
      <4>1. 1 \in 1 .. Len(w)
        BY <2>1, <3>1
      <4>2. w[1] \in f.b .. f.s - 1
        BY <1>2, <4>1 DEF Empties
      <4> QED
        BY <1>3, <1>5, <4>2
    <3> QED
      BY <3>1
  <2> QED
    BY <2>2
<1>7. o.t = n /\ o.i = n
  <2>1. /\ o.t \in Nat /\ o.i \in Nat /\ n \in Nat /\ f.B[f.b] = n
        /\ f.B[f.b] <= o.t /\ o.t <= o.i /\ o.i <= n
    BY <1>1, <1>5, OutWindow
  <2> QED
    BY <2>1
<1> QED
  BY <1>1, <1>5, <1>6, <1>7

\* When a run is over, so is every part of it.
LEMMA RunOverEnds ==
  ASSUME Rest, NEW f \in FrontSet, NEW w \in Seq(Nat), NEW u \in EngineSet, NEW v \in VdSet,
         NEW a \in EngineSet, NEW y \in LongSet, NEW c \in NumberSet, NEW g \in MergedSet,
         NEW o \in OutSet, Parts(f, w, u, v, a, y, c, g, o), RunOver
  PROVE  RunDone(f, u, v, a, y) /\ Finished
<1>1. PICK S, n : S = f.S /\ n = f.B[f.s]
  OBVIOUS
<1>2. /\ f.b = f.s /\ f.s = f.e /\ w = <<>> /\ o.t = n /\ o.i = n /\ f.B[f.b] = n /\ n \in Nat
      /\ o.mt \in Nat
  BY <1>1, RunOverFront, OutWindow
<1>3. /\ Requests(f) /\ Empties(f, w) /\ Singles(S, n, n, u) /\ Vds(S, n, n, v) /\ Generated(v)
      /\ OneStreams(a) /\ Commands(S, n, n, c, a, 1)
      /\ LongStreams(y) /\ Commands(S, n, n, c, y, MaxBurst) /\ LongLines(y)
      /\ Counted(a, y, c) /\ Merged(S, n, n, g)
      /\ Out(S, n, o) /\ Sampled(S, n, n, o) /\ Stops(u, v, a, y)
  BY <1>1, <1>2 DEF Parts
<1>4. ~running["single"] /\ ~running["one"] /\ ~running["long"]
  BY DEF RunOver, Engines
<1>5. u.z = 0 /\ v.z = 0 /\ a.z = 0 /\ y.z = 0
  <2>1. u.z \in Bit /\ v.z \in Bit /\ a.z \in Bit /\ y.z \in Bit
    BY EngineFields, VdFields, LongFields
  <2>2. u.z # 1 /\ v.z # 1 /\ a.z # 1 /\ y.z # 1
    BY <1>3, <1>4 DEF Stops
  <2> QED
    BY <2>1, <2>2 DEF Bit
<1>6. RunDone(f, u, v, a, y)
  BY <1>2, <1>5 DEF RunDone
<1>7. /\ a.k1 \in Nat /\ a.k2 \in Nat /\ a.k3 \in Nat /\ y.k1 \in Nat /\ y.k2 \in Nat /\ y.k3 \in Nat
      /\ y.r1 \in Nat /\ y.r2 \in Nat /\ u.k1 \in Nat /\ u.k2 \in Nat /\ u.k3 \in Nat
      /\ v.p \in Nat /\ v.q \in Nat /\ c.lo \in Nat /\ c.hi \in Nat
  BY EngineFields, LongFields, VdFields, PlaceFields
<1>8. u.k1 = u.k2 /\ u.k2 = u.k3
  BY <1>2, <1>3, SinglesEmpty
<1>9. v.p = v.q
  BY <1>2, <1>3, VdsEmpty
<1>10. a.k1 <= a.k2 /\ a.k2 <= a.k3 /\ y.r1 <= y.r2
  BY <1>3, CommandWindow
<1>11. a.k1 = a.k2 /\ a.k2 = a.k3
  <2>1. Commands(S, n, n, c, a, 1) /\ n \in Nat
    BY <1>2, <1>3
  <2>2. a.k1 \in Nat /\ a.k2 \in Nat /\ a.k3 \in Nat /\ a.k1 <= a.k2 /\ a.k2 <= a.k3
    BY <1>7, <1>10
  <2> QED
    BY <2>1, <2>2, CommandsEmpty
<1>12. y.k1 = y.k2 /\ y.k2 = y.k3
  <2>1. y.k1 <= y.k2 /\ y.k2 <= y.k3
    BY <1>3 DEF LongLines
  <2> QED
    BY <1>2, <1>3, <1>7, <2>1, CommandsEmpty
<1>13. y.r1 = y.r2
  <2>1. ~(y.r1 < y.r2)
    <3>1. y.r1 < y.r2 => y.k1 < y.k3
      BY <1>3, <1>10, LongPlace
    <3> QED
      BY <1>7, <1>12, <3>1
  <2> QED
    BY <1>7, <1>10, <2>1
<1>14. sync["single"] = <<>> /\ cmd["single"] = <<>>
  <2>1. /\ Holds(sync["single"], SingleOf(u.T), u.k1, u.k2, 0, None)
        /\ Holds(cmd["single"], PkgOf(u.T), u.k2, u.k3, 0, StopCmd)
    BY <1>3, <1>5 DEF Singles
  <2> QED
    BY <1>7, <1>8, <2>1, StreamEmpty
<1>15. sync["one"] = <<>> /\ cmd["one"] = <<>>
  <2>1. Holds(sync["one"], OneOf(a.T), a.k1, a.k2, 0, None)
    BY <1>3 DEF OneStreams
  <2>2. PICK stop : Holds(cmd["one"], PkgOf(a.T), a.k2, a.k3, 0, stop)
    BY <1>3, <1>5 DEF OneStreams, Commanded
  <2> QED
    BY <1>7, <1>11, <2>1, <2>2, StreamEmpty
<1>16. sync["long"] = <<>> /\ cmd["long"] = <<>>
  <2>1. Holds(sync["long"], LongOf(y.T, y.R), y.r1, y.r2, 0, None)
    BY <1>3 DEF LongStreams
  <2>2. PICK stop : Holds(cmd["long"], PkgOf(y.T), y.k2, y.k3, 0, stop)
    BY <1>3, <1>5 DEF LongStreams, Commanded
  <2> QED
    BY <1>7, <1>12, <1>13, <2>1, <2>2, StreamEmpty
<1>17. burst_vd = <<>> /\ curr = 0
  <2>1. Holds(burst_vd, PkgOf(v.T), v.p, v.q, 0, StopVd)
    BY <1>3, <1>5 DEF Vds
  <2>2. burst_vd = <<>>
    BY <1>7, <1>9, <2>1, StreamEmpty
  <2> QED
    BY <1>3, <1>5, <1>9, <2>2 DEF Generated
<1>18. sync["dynamic"] = <<>> /\ inter_out = <<>>
  BY <1>2, <1>3, MergedEmpty, OutEmpty
<1>19. input = <<>>
  <2>1. Holds(input, f.H, f.s, f.e, 0, None) /\ f.s \in Nat
    BY <1>3, FrontFields DEF Requests
  <2> QED
    BY <1>2, <2>1, StreamEmpty
<1>20. update = <<>>
  <2>1. IsSeq(update) /\ Len(update) = Len(w)
    BY <1>3 DEF Empties
  <2>2. Len(update) = 0
    BY <1>2, <2>1, EmptyIsSeq
  <2> QED
    BY <2>1, <2>2, EmptyIsSeq
<1>21. next_vertex = <<>> /\ selected = Dead
  <2>1. /\ IsSeq(next_vertex) /\ Len(next_vertex) = o.t - n
        /\ selected # Dead => o.t < n
    BY <1>3 DEF Sampled
  <2>2. Len(next_vertex) = 0 /\ ~(o.t < n)
    BY <1>2, <2>1
  <2> QED
    BY <2>1, <2>2, EmptyIsSeq
<1>22. j = 0
  BY <1>3, <1>7, <1>12 DEF LongLines
<1>23. intra_id = dynamic_burst_id
  <2>1. c.lo = c.hi
    <3>1. c.hi - c.lo = (a.k3 - a.k1) + (y.k3 - y.k1)
      BY <1>3 DEF Counted
    <3> QED
      BY <1>7, <1>11, <1>12, <3>1
  <2> QED
    BY <1>3, <2>1 DEF Counted
<1>24. inter_id = sync_burst_id /\ update_id = sync_id
  BY <1>1, <1>2, <1>3 DEF Out, Requests
<1> QED
  BY <1>6, <1>14, <1>15, <1>16, <1>17, <1>18, <1>19, <1>20, <1>21, <1>22, <1>23, <1>24
     DEF Finished, Engines, Sources

\* The host starts the next run.
LEMMA RestartStep ==
  ASSUME Rest, NEW f \in FrontSet, NEW w \in Seq(Nat), NEW u \in EngineSet, NEW v \in VdSet,
         NEW a \in EngineSet, NEW y \in LongSet, NEW c \in NumberSet, NEW g \in MergedSet,
         NEW o \in OutSet, Parts(f, w, u, v, a, y, c, g, o), Restart
  PROVE  BurstInv'
<1>1. PICK S, n, i : S = f.S /\ n = f.B[f.s] /\ i = o.i
  OBVIOUS
<1>2. /\ vs_pc' = "run" /\ running' = [e \in Engines |-> TRUE]
      /\ UNCHANGED <<asked, input, sync_id, sync_burst_id, update, burst_vd, curr, dynamic_burst_id,
                     cmd, j, sync, intra_id, inter_id, inter_out, selected, next_vertex, update_id,
                     pending, shown>>
  BY DEF Restart, feedVars, cgVars, mergeVars, outVars, history
<1>3. f.s = f.e /\ u.z = 0 /\ v.z = 0 /\ a.z = 0 /\ y.z = 0
  <2>1. RunDone(f, u, v, a, y)
    BY RunOverEnds DEF Restart
  <2> QED
    BY <2>1 DEF RunDone
<1>4. UNCHANGED <<cmd["single"], cmd["one"], cmd["long"], sync["one"], sync["long"],
                  sync["single"], sync["dynamic"]>>
  BY <1>2
<1>5. Requests(f)'
  <2>1. Requests(f)
    BY DEF Parts
  <2> QED
    BY <1>2, <2>1 DEF Requests
<1>6. Stops(u, v, a, y)'
  <2>1. running'["single"] /\ running'["one"] /\ running'["long"]
    BY <1>2 DEF Engines
  <2> QED
    BY <1>2, <1>3, <2>1 DEF Stops
<1>7. Rest'
  <2>1. running' \in [Engines -> BOOLEAN]
    BY <1>2
  <2> QED
    BY <1>2, <2>1 DEF Rest
<1>8. /\ Numbering(f)' /\ Empties(f, w)' /\ Generated(v)' /\ Singles(S, i, n, u)'
      /\ Vds(S, i, n, v)'
  BY <1>1, <1>2, <1>4, KeepFront DEF Parts
<1>9. OneStreams(a)' /\ LongStreams(y)' /\ LongLines(y)'
  BY <1>2, <1>4, KeepBack DEF Parts
<1>10. Counted(a, y, c)' /\ Ordered(n, v, c)' /\ Linked(y, c, g)'
  BY <1>1, <1>2, KeepBack DEF Parts
<1>11. Commands(S, i, n, c, a, 1)' /\ Commands(S, i, n, c, y, MaxBurst)' /\ Merged(S, i, n, g)'
  BY <1>1, <1>4, KeepBack DEF Parts
<1>12. Joined(S, n, g, o)' /\ Out(S, n, o)' /\ Sampled(S, f.B[f.b], n, o)'
  BY <1>1, <1>2, KeepBack DEF Parts
<1>13. Parts(f, w, u, v, a, y, c, g, o)'
  BY <1>1, <1>5, <1>6, <1>8, <1>9, <1>10, <1>11, <1>12 DEF Parts
<1> QED
  BY <1>7, <1>13 DEF BurstInv

\* Records with nothing in them.
LEMMA NoRecords ==
  /\ \E f \in FrontSet : f.B = [k \in Nat |-> FirstId] /\ f.b = FirstId /\ f.s = FirstId /\ f.e = FirstId
  /\ \E u \in EngineSet : u.k1 = 0 /\ u.k2 = 0 /\ u.k3 = 0 /\ u.z = 0
  /\ \E v \in VdSet : v.p = 0 /\ v.q = 0 /\ v.z = 0
  /\ \E y \in LongSet : /\ y.k1 = 0 /\ y.k2 = 0 /\ y.k3 = 0 /\ y.z = 0 /\ y.r1 = 0 /\ y.r2 = 0
                        /\ y.R[0] = [k |-> 0, n |-> 0]
  /\ \E c \in NumberSet : c.lo = FirstId /\ c.hi = FirstId /\ c.P[FirstId] = [l |-> FirstId, m |-> 0]
  /\ \E g \in MergedSet : g.g1 = 0 /\ g.g2 = 0 /\ g.Q[0] = [l |-> FirstId, m |-> 0]
  /\ \E o \in OutSet : /\ o.k1 = 0 /\ o.k2 = 0 /\ o.i = FirstId /\ o.t = FirstId /\ o.mi = 0 /\ o.mt = 0
                       /\ o.J[0] = [l |-> FirstId, m |-> 0]
<1>1. FirstId \in Nat
  BY Sizes
<1>2. PICK p : p \in Pkg
  <2>1. [vertex |-> [start |-> 0, size |-> 0], last |-> FALSE] \in Pkg
    BY DEF Pkg
  <2> QED
    BY <2>1
<1>3. PICK q : q \in CmdPkg
  <2>1. [addr |-> 0, start |-> 0, end |-> 0, id |-> 0, burst_id |-> 0, end_of_burst |-> TRUE,
         dynamic_id |-> 0, last |-> TRUE] \in CmdPkg
    BY DEF CmdPkg
  <2> QED
    BY <2>1
<1>4. PICK r : r \in LinePkg
  <2>1. [words |-> {}, id |-> 0, burst_id |-> 0, end_of_burst |-> TRUE, dynamic_id |-> 0,
         end_of_dynamic |-> TRUE, last |-> TRUE] \in LinePkg
    BY DEF LinePkg
  <2> QED
    BY <2>1
<1>5. PICK e : e \in VdPkg
  <2>1. [start |-> 0, size |-> 0, id |-> 0, burst_id |-> 0, last |-> TRUE] \in VdPkg
    BY DEF VdPkg
  <2> QED
    BY <2>1
<1>6. PICK b : b \in PlaceSet /\ b = [l |-> FirstId, m |-> 0]
  BY <1>1 DEF PlaceSet
<1>7. PICK H : H \in [Nat -> Pkg]
  <2>1. [k \in Nat |-> p] \in [Nat -> Pkg]
    BY <1>2
  <2> QED
    BY <2>1
<1>8. PICK S : S \in [Nat -> ListSet]
  <2>1. [a |-> 0, p |-> p] \in ListSet
    BY <1>2 DEF ListSet
  <2>2. [k \in Nat |-> [a |-> 0, p |-> p]] \in [Nat -> ListSet]
    BY <2>1
  <2> QED
    BY <2>2
<1>9. PICK B : B \in [Nat -> Nat] /\ B = [k \in Nat |-> FirstId]
  BY <1>1
<1>10. PICK T : T \in [Nat -> CmdTag]
  <2>1. [l |-> 0, m |-> 0, x |-> 0, p |-> q] \in CmdTag
    BY <1>3 DEF CmdTag
  <2>2. [k \in Nat |-> [l |-> 0, m |-> 0, x |-> 0, p |-> q]] \in [Nat -> CmdTag]
    BY <2>1
  <2> QED
    BY <2>2
<1>11. PICK V : V \in [Nat -> VdTag]
  <2>1. [l |-> 0, p |-> e] \in VdTag
    BY <1>5 DEF VdTag
  <2>2. [k \in Nat |-> [l |-> 0, p |-> e]] \in [Nat -> VdTag]
    BY <2>1
  <2> QED
    BY <2>2
<1>12. PICK R : R \in [Nat -> LineRef] /\ R[0] = [k |-> 0, n |-> 0]
  <2>1. [k |-> 0, n |-> 0] \in LineRef
    BY DEF LineRef
  <2>2. [m \in Nat |-> [k |-> 0, n |-> 0]] \in [Nat -> LineRef]
    BY <2>1
  <2>3. [m \in Nat |-> [k |-> 0, n |-> 0]][0] = [k |-> 0, n |-> 0]
    OBVIOUS
  <2> QED
    BY <2>2, <2>3
<1>13. PICK J : J \in [Nat -> PlaceSet] /\ \A k \in Nat : J[k] = b
  <2>1. [k \in Nat |-> b] \in [Nat -> PlaceSet]
    BY <1>6
  <2>2. \A k \in Nat : [m \in Nat |-> b][k] = b
    OBVIOUS
  <2> QED
    BY <2>1, <2>2
<1>14. PICK G : G \in [Nat -> LineTag]
  <2>1. [l |-> 0, m |-> 0, p |-> r] \in LineTag
    BY <1>4 DEF LineTag
  <2>2. [k \in Nat |-> [l |-> 0, m |-> 0, p |-> r]] \in [Nat -> LineTag]
    BY <2>1
  <2> QED
    BY <2>2
<1>15. PICK K : K \in [Nat -> LinePkg]
  <2>1. [k \in Nat |-> r] \in [Nat -> LinePkg]
    BY <1>4
  <2> QED
    BY <2>1
<1>16. \E f \in FrontSet : f.B = [k \in Nat |-> FirstId] /\ f.b = FirstId /\ f.s = FirstId /\ f.e = FirstId
  <2>1. [H |-> H, B |-> B, S |-> S, b |-> FirstId, s |-> FirstId, e |-> FirstId] \in FrontSet
    BY <1>1, <1>7, <1>8, <1>9 DEF FrontSet
  <2> QED
    BY <1>9, <2>1
<1>17. \E u \in EngineSet : u.k1 = 0 /\ u.k2 = 0 /\ u.k3 = 0 /\ u.z = 0
  <2>1. [T |-> T, k1 |-> 0, k2 |-> 0, k3 |-> 0, z |-> 0] \in EngineSet
    BY <1>10 DEF EngineSet, Bit
  <2> QED
    BY <2>1
<1>18. \E v \in VdSet : v.p = 0 /\ v.q = 0 /\ v.z = 0
  <2>1. [T |-> V, p |-> 0, q |-> 0, z |-> 0] \in VdSet
    BY <1>11 DEF VdSet, Bit
  <2> QED
    BY <2>1
<1>19. \E y \in LongSet : /\ y.k1 = 0 /\ y.k2 = 0 /\ y.k3 = 0 /\ y.z = 0 /\ y.r1 = 0 /\ y.r2 = 0
                          /\ y.R[0] = [k |-> 0, n |-> 0]
  <2>1. [T |-> T, k1 |-> 0, k2 |-> 0, k3 |-> 0, z |-> 0, R |-> R, r1 |-> 0, r2 |-> 0] \in LongSet
    BY <1>10, <1>12 DEF LongSet, Bit
  <2> QED
    BY <1>12, <2>1
<1>20. \E c \in NumberSet : c.lo = FirstId /\ c.hi = FirstId /\ c.P[FirstId] = [l |-> FirstId, m |-> 0]
  <2>1. [P |-> J, lo |-> FirstId, hi |-> FirstId] \in NumberSet
    BY <1>1, <1>13 DEF NumberSet
  <2>2. J[FirstId] = [l |-> FirstId, m |-> 0]
    BY <1>1, <1>6, <1>13
  <2> QED
    BY <2>1, <2>2
<1>21. \E g \in MergedSet : g.g1 = 0 /\ g.g2 = 0 /\ g.Q[0] = [l |-> FirstId, m |-> 0]
  <2>1. [G |-> G, Q |-> J, g1 |-> 0, g2 |-> 0] \in MergedSet
    BY <1>13, <1>14 DEF MergedSet
  <2>2. J[0] = [l |-> FirstId, m |-> 0]
    BY <1>6, <1>13
  <2> QED
    BY <2>1, <2>2
<1>22. \E o \in OutSet : /\ o.k1 = 0 /\ o.k2 = 0 /\ o.i = FirstId /\ o.t = FirstId
                         /\ o.mi = 0 /\ o.mt = 0 /\ o.J[0] = [l |-> FirstId, m |-> 0]
  <2>1. [K |-> K, J |-> J, k1 |-> 0, k2 |-> 0, i |-> FirstId, mi |-> 0, t |-> FirstId, mt |-> 0] \in OutSet
    BY <1>1, <1>13, <1>15 DEF OutSet
  <2>2. J[0] = [l |-> FirstId, m |-> 0]
    BY <1>6, <1>13
  <2> QED
    BY <2>1, <2>2
<1> QED
  BY <1>16, <1>17, <1>18, <1>19, <1>20, <1>21, <1>22

\* The engine starts with nothing in it.
LEMMA BurstStart ==
  ASSUME Init
  PROVE  BurstInv
<1>1. FirstId \in Nat /\ FirstId % IdMod = FirstId /\ MaxInFlight \in Nat /\ MaxBurst \in Nat
      /\ MaxBurst > 1
  BY Sizes
<1>2. PICK f \in FrontSet : f.B = [k \in Nat |-> FirstId] /\ f.b = FirstId /\ f.s = FirstId /\ f.e = FirstId
  BY NoRecords
<1>3. PICK u \in EngineSet : u.k1 = 0 /\ u.k2 = 0 /\ u.k3 = 0 /\ u.z = 0
  BY NoRecords
<1>4. PICK v \in VdSet : v.p = 0 /\ v.q = 0 /\ v.z = 0
  BY NoRecords
<1>5. PICK y \in LongSet : /\ y.k1 = 0 /\ y.k2 = 0 /\ y.k3 = 0 /\ y.z = 0 /\ y.r1 = 0 /\ y.r2 = 0
                           /\ y.R[0] = [k |-> 0, n |-> 0]
  BY NoRecords
<1>6. PICK c \in NumberSet : c.lo = FirstId /\ c.hi = FirstId /\ c.P[FirstId] = [l |-> FirstId, m |-> 0]
  BY NoRecords
<1>7. PICK g \in MergedSet : g.g1 = 0 /\ g.g2 = 0 /\ g.Q[0] = [l |-> FirstId, m |-> 0]
  BY NoRecords
<1>8. PICK o \in OutSet : /\ o.k1 = 0 /\ o.k2 = 0 /\ o.i = FirstId /\ o.t = FirstId
                          /\ o.mi = 0 /\ o.mt = 0 /\ o.J[0] = [l |-> FirstId, m |-> 0]
  BY NoRecords
<1>9. PICK w \in Seq(Nat) : w = <<>>
  <2>1. <<>> \in Seq(Nat)
    OBVIOUS
  <2> QED
    BY <2>1
<1>10. f.B[FirstId] = FirstId
  BY <1>1, <1>2
<1>11. \A h \in 0 .. 0 - 1 : FALSE
  OBVIOUS
<1>12. \A h \in FirstId .. FirstId - 1 : FALSE
  BY <1>1
<1>13. \A F, stop : Holds(<<>>, F, 0, 0, 0, stop) /\ Holds(<<>>, F, FirstId, FirstId, 0, stop)
  BY <1>1, NoneHeld
<1>14. /\ \A e \in Engines : cmd[e] = <<>>
       /\ \A s \in Sources : sync[s] = <<>>
       /\ running["single"] /\ running["one"] /\ running["long"]
  BY DEF Init, Engines, Sources
<1>15. /\ cmd["single"] = <<>> /\ cmd["one"] = <<>> /\ cmd["long"] = <<>>
       /\ sync["single"] = <<>> /\ sync["one"] = <<>> /\ sync["long"] = <<>>
       /\ sync["dynamic"] = <<>>
  BY <1>14 DEF Engines, Sources
<1>16. Requests(f)
  <2>1. f.e - f.b <= MaxInFlight /\ FirstId <= f.b /\ f.b <= f.s /\ f.s <= f.e
    BY <1>1, <1>2, Sizes
  <2>2. sync_id = f.s % IdMod /\ update_id = f.b % IdMod /\ sync_burst_id = f.B[f.s] % IdMod
    BY <1>1, <1>2, <1>10 DEF Init
  <2>3. Holds(pending, f.H, f.b, f.e, 0, None) /\ Holds(input, f.H, f.s, f.e, 0, None)
    BY <1>2, <1>13 DEF Init
  <2>4. \A h \in f.b .. f.e - 1 : FALSE
    BY <1>2, <1>12
  <2>5. f.s = f.e
    BY <1>2
  <2> QED
    BY <2>1, <2>2, <2>3, <2>4, <2>5 DEF Requests
<1>17. Numbering(f)
  <2>1. \A a, d \in FirstId .. FirstId : a <= d => f.B[a] <= f.B[d] /\ f.B[d] - f.B[a] <= d - a
    <3>1. \A a \in FirstId .. FirstId : a = FirstId
      BY <1>1
    <3>2. FirstId <= FirstId /\ FirstId - FirstId <= FirstId - FirstId
      BY <1>1
    <3> QED
      BY <1>10, <3>1, <3>2
  <2> QED
    BY <1>2, <1>10, <1>12, <2>1 DEF Numbering
<1>18. Empties(f, w)
  <2>1. Len(w) = 0 /\ 1 .. Len(w) = {}
    BY <1>9
  <2>2. update = <<>> /\ IsSeq(update) /\ Len(update) = 0
    BY EmptyIsSeq DEF Init
  <2> QED
    BY <2>1, <2>2 DEF Empties
<1>19. Singles(f.S, o.i, FirstId, u) /\ Vds(f.S, o.i, FirstId, v)
  <2>1. burst_vd = <<>>
    BY DEF Init
  <2> QED
    BY <1>3, <1>4, <1>11, <1>13, <1>15, <2>1 DEF Singles, Vds
<1>20. Generated(v)
  BY <1>4 DEF Init, Generated
<1>21. OneStreams(u) /\ LongStreams(y)
  <2>1. /\ Holds(sync["one"], OneOf(u.T), u.k1, u.k2, 0, None)
        /\ Holds(sync["long"], LongOf(y.T, y.R), y.r1, y.r2, 0, None)
    BY <1>3, <1>5, <1>13, <1>15
  <2>2. /\ Holds(cmd["one"], PkgOf(u.T), u.k2, u.k3, u.z, StopCmd)
        /\ Holds(cmd["long"], PkgOf(y.T), y.k2, y.k3, y.z, StopCmd)
    BY <1>3, <1>5, <1>13, <1>15
  <2>3. StopCmd.id = StopId
    BY DEF StopCmd
  <2> QED
    BY <2>1, <2>2, <2>3 DEF OneStreams, LongStreams, Commanded
<1>22. Commands(f.S, o.i, FirstId, c, u, 1) /\ Commands(f.S, o.i, FirstId, c, y, MaxBurst)
  BY <1>3, <1>5, <1>11 DEF Commands
<1>23. LongLines(y)
  <2>1. j = 0 /\ j \in 0 .. MaxBurst - 1
    BY <1>1 DEF Init
  <2>2. LinesFollow(y.R, 0, 0, 0)
    <3>1. \A r \in 0 .. 0 : r = 0
      OBVIOUS
    <3>2. y.R[0].k = 0
      BY <1>5
    <3> QED
      BY <1>11, <3>1, <3>2 DEF LinesFollow
  <2>3. y.R[0].k = 0
    BY <1>5
  <2> QED
    BY <1>5, <2>1, <2>2, <2>3 DEF LongLines
<1>24. Counted(u, y, c)
  <2>1. \A h \in FirstId .. FirstId : h = FirstId
    BY <1>1
  <2>2. c.P[FirstId].l = FirstId
    BY <1>6
  <2>3. FirstId <= FirstId /\ FirstId - FirstId = (0 - 0) + (0 - 0)
    BY <1>1
  <2>4. dynamic_burst_id = FirstId % IdMod /\ intra_id = FirstId % IdMod
    BY <1>1 DEF Init
  <2> QED
    BY <1>3, <1>5, <1>6, <1>11, <2>1, <2>2, <2>3, <2>4 DEF Counted
<1>25. Ordered(FirstId, v, c)
  <2>1. c.P[c.hi].l = FirstId /\ c.P[c.hi].m = 0 /\ FirstId <= FirstId
    BY <1>1, <1>6
  <2> QED
    BY <1>4, <2>1 DEF Ordered
<1>26. Linked(y, c, g)
  <2>1. y.R[y.r1].n = 0
    BY <1>5
  <2> QED
    BY <1>6, <1>7, <2>1 DEF Linked
<1>27. Merged(f.S, o.i, FirstId, g)
  <2>1. \A h \in 0 .. 0 : h = 0
    OBVIOUS
  <2>2. g.Q[0].l = FirstId
    BY <1>7
  <2>3. Holds(sync["dynamic"], PkgOf(g.G), g.g1, g.g2, 0, None)
    BY <1>7, <1>13, <1>15
  <2>4. FirstId <= FirstId
    BY <1>1
  <2> QED
    BY <1>7, <1>11, <2>1, <2>2, <2>3, <2>4 DEF Merged
<1>28. Joined(f.S, FirstId, g, o)
  <2>1. g.Q[g.g1].m = 0 /\ g.Q[g.g1].l = FirstId /\ FirstId <= FirstId
    BY <1>1, <1>7
  <2> QED
    BY <1>8, <2>1 DEF Joined
<1>29. Out(f.S, FirstId, o)
  <2>1. \A h \in 0 .. 0 : h = 0
    OBVIOUS
  <2>2. o.J[0].l = FirstId /\ FirstId <= FirstId
    BY <1>1, <1>8
  <2>3. inter_out = <<>> /\ inter_id = FirstId % IdMod
    BY <1>1 DEF Init
  <2>4. Holds(inter_out, o.K, o.k1, o.k2, 0, None)
    BY <1>8, <1>13, <2>3
  <2> QED
    BY <1>8, <1>11, <2>1, <2>2, <2>3, <2>4 DEF Out
<1>30. Sampled(f.S, FirstId, FirstId, o)
  <2>1. selected = Dead /\ shown = {} /\ next_vertex = <<>> /\ selected \in Int
    BY Sizes DEF Init
  <2>2. IsSeq(next_vertex) /\ Len(next_vertex) = FirstId - FirstId /\ FirstId <= FirstId
    BY <1>1, <2>1, EmptyIsSeq
  <2> QED
    BY <1>8, <1>12, <2>1, <2>2 DEF Sampled
<1>31. Stops(u, v, u, y)
  <2>1. vs_pc = "run"
    BY DEF Init
  <2> QED
    BY <1>3, <1>4, <1>5, <1>14, <2>1 DEF Stops
<1>32. Rest
  <2>1. /\ asked \in 0 .. MaxReq /\ running \in [Engines -> BOOLEAN]
        /\ DOMAIN cmd = Engines /\ DOMAIN sync = Sources
    BY BurstAssumption DEF Init
  <2>2. \A e \in {"one", "long"} : Len(cmd[e]) <= CmdDepth /\ Len(sync[e]) <= SyncDepth
    <3>1. Len(<<>>) = 0 /\ 0 <= CmdDepth /\ 0 <= SyncDepth
      BY Sizes
    <3> QED
      BY <1>15, <3>1
  <2> QED
    BY <2>1, <2>2 DEF Init, Rest
<1>33. Parts(f, w, u, v, u, y, c, g, o)
  <2>1. f.B[f.s] = FirstId /\ f.B[f.b] = FirstId
    BY <1>2, <1>10
  <2> QED
    BY <1>16, <1>17, <1>18, <1>19, <1>20, <1>21, <1>22, <1>23, <1>24, <1>25, <1>26, <1>27,
       <1>28, <1>29, <1>30, <1>31, <2>1 DEF Parts
<1> QED
  BY <1>32, <1>33 DEF BurstInv

\* Every step keeps the invariant.
LEMMA BurstKept ==
  ASSUME BurstInv, [Next]_vars
  PROVE  BurstInv'
<1>1. PICK f \in FrontSet, w \in Seq(Nat), u \in EngineSet, v \in VdSet, a \in EngineSet,
           y \in LongSet, c \in NumberSet, g \in MergedSet, o \in OutSet :
           Parts(f, w, u, v, a, y, c, g, o)
  BY DEF BurstInv
<1>2. Rest
  BY DEF BurstInv
<1>3. CASE Request
  BY <1>1, <1>2, <1>3, RequestStep
<1>4. CASE Schedule
  <2>1. CASE ScheduleEmpty
    BY <1>1, <1>2, <2>1, ScheduleEmptyStep
  <2>2. CASE ScheduleSingle
    BY <1>1, <1>2, <2>2, ScheduleSingleStep
  <2>3. CASE ScheduleDynamic
    BY <1>1, <1>2, <2>3, ScheduleDynamicStep
  <2>4. CASE StopSingle
    BY <1>1, <1>2, <2>4, StopSingleStep
  <2>5. CASE StopDynamic
    BY <1>1, <1>2, <2>5, StopDynamicStep
  <2> QED
    BY <1>4, <2>1, <2>2, <2>3, <2>4, <2>5 DEF Schedule
<1>5. CASE CmdGenerator
  BY <1>1, <1>2, <1>5, CmdGeneratorStep
<1>6. CASE Burst1
  <2>1. CASE EngineStop("one")
    BY <1>1, <1>2, <2>1, EngineStopOneStep
  <2>2. CASE BurstOne("one")
    BY <1>1, <1>2, <2>2, BurstOneDynamicStep
  <2> QED
    BY <1>6, <2>1, <2>2 DEF Burst1
<1>7. CASE Burst32
  <2>1. CASE EngineStop("long")
    BY <1>1, <1>2, <2>1, EngineStopLongStep
  <2>2. CASE BurstLong
    BY <1>1, <1>2, <2>2, BurstLongStep
  <2> QED
    BY <1>7, <2>1, <2>2 DEF Burst32
<1>8. CASE Single
  <2>1. CASE EngineStop("single")
    BY <1>1, <1>2, <2>1, EngineStopSingleStep
  <2>2. CASE BurstOne("single")
    BY <1>1, <1>2, <2>2, BurstOneSingleStep
  <2> QED
    BY <1>8, <2>1, <2>2 DEF Single
<1>9. CASE IntraMerge
  BY <1>1, <1>2, <1>9, IntraMergeStep
<1>10. CASE InterMerge
  BY <1>1, <1>2, <1>10, InterMergeStep
<1>11. CASE Sample
  BY <1>1, <1>2, <1>11, SampleStep
<1>12. CASE UpdateMerge
  BY <1>1, <1>2, <1>12, UpdateMergeStep
<1>13. CASE Restart
  BY <1>1, <1>2, <1>13, RestartStep
<1>14. CASE Idle \/ UNCHANGED vars
  <2>1. UNCHANGED vars
    BY <1>14 DEF Idle
  <2> QED
    BY <1>1, <1>2, <2>1, StutterStep
<1> QED
  BY <1>3, <1>4, <1>5, <1>6, <1>7, <1>8, <1>9, <1>10, <1>11, <1>12, <1>13, <1>14 DEF Next

\* Every packet is of the request, the list, the lines and the command its numbers
\* stand for, and every merge waits for the first of them.
THEOREM BurstInvariant == Spec => []BurstInv
<1>1. Init => BurstInv
  BY BurstStart
<1>2. BurstInv /\ [Next]_vars => BurstInv'
  BY BurstKept
<1> QED
  BY <1>1, <1>2, PTL DEF Spec

-----------------------------------------------------------------------------
(* What the invariant is for                                               *)

\* p is one of F from x up to y
HeldIn(p, F, x, y) == \E h \in x .. y - 1 : p = F[h] /\ h \in Nat

\* Each packet of a stream is one of those it holds.
LEMMA HeldPacket ==
  ASSUME NEW s, NEW F, NEW x \in Nat, NEW y \in Nat, NEW stop, Holds(s, F, x, y, 0, stop),
         NEW p, p \in Packets(s)
  PROVE  HeldIn(p, F, x, y)
<1>1. PICK k \in 1 .. Len(s) : p = s[k]
  BY DEF Packets
<1>2. Len(s) = y - x /\ \A h \in x .. y - 1 : s[h - x + 1] = F[h]
  BY DEF Holds
<1>3. PICK h \in Nat : h = x + (k - 1)
  BY <1>1, <1>2
<1>4. h \in x .. y - 1 /\ h - x + 1 = k
  <2>1. k \in 1 .. y - x
    BY <1>1, <1>2
  <2> QED
    BY <1>3, <2>1
<1> QED
  BY <1>1, <1>2, <1>4 DEF HeldIn

\* The numbers of a packet that is made for a list are in their range.
Numbered(p) == p.id \in Ids /\ p.burst_id \in Ids /\ p.dynamic_id \in Ids

\* Numbers that wrap are in range,
LEMMA NumberInRange == \A k \in Nat : k % IdMod \in Ids
<1>1. ASSUME NEW k \in Nat PROVE k % IdMod \in Ids
  BY Sizes, QuotientRemainder DEF Ids
<1> QED
  BY <1>1

\* so those of a packet made for a list are,
LEMMA ListedNumbers ==
  ASSUME NEW S \in [Nat -> ListSet], NEW i \in Nat, NEW n \in Nat, NEW l, NEW p,
         Listed(S, i, n, l, p), p.dynamic_id \in Ids
  PROVE  Numbered(p)
<1>1. l \in Nat /\ p.id = S[l].a % IdMod /\ p.burst_id = l % IdMod
  BY DEF Listed
<1>2. S[l].a \in Nat
  BY <1>1 DEF ListSet
<1> QED
  BY <1>1, <1>2, NumberInRange DEF Numbered

\* and those of a command or a line.
LEMMA TagNumbers ==
  ASSUME NEW S \in [Nat -> ListSet], NEW i \in Nat, NEW n \in Nat
  PROVE  /\ \A T : SingleTag(S, i, n, T) => Numbered(T.p)
         /\ \A l, m, p : LineOfList(S, i, n, l, m, p) => Numbered(p)
         /\ \A c \in NumberSet : \A T, k : CmdTagged(S, i, n, c, T, k) => Numbered(T.p)
<1>1. ASSUME NEW T, SingleTag(S, i, n, T) PROVE Numbered(T.p)
  BY <1>1, ListedNumbers DEF SingleTag
<1>2. ASSUME NEW l, NEW m, NEW p, LineOfList(S, i, n, l, m, p) PROVE Numbered(p)
  BY <1>2, ListedNumbers DEF LineOfList
<1>3. ASSUME NEW c \in NumberSet, NEW T, NEW k, CmdTagged(S, i, n, c, T, k) PROVE Numbered(T.p)
  <2>1. T.x \in c.lo .. c.hi - 1 /\ T.p.dynamic_id = T.x % IdMod /\ Listed(S, i, n, T.l, T.p)
    BY <1>3 DEF CmdTagged, CmdOfList
  <2>2. T.x \in Nat
    BY <2>1, PlaceFields
  <2>3. T.p.dynamic_id \in Ids
    BY <2>1, <2>2, NumberInRange
  <2> QED
    BY <2>1, <2>3, ListedNumbers
<1> QED
  BY <1>1, <1>2, <1>3

\* A packet has the numbers of its command.
LEMMA SamePkgNumbers ==
  ASSUME NEW q, NEW h, NEW e, NEW t, Numbered(q)
  PROVE  Numbered(SyncPkg(q, h, e, t))
BY DEF Numbered, SyncPkg

\* The numbers in the streams into the merges.
LEMMA SyncNumbers ==
  ASSUME Rest, NEW f \in FrontSet, NEW w \in Seq(Nat), NEW u \in EngineSet, NEW v \in VdSet,
         NEW a \in EngineSet, NEW y \in LongSet, NEW c \in NumberSet, NEW g \in MergedSet,
         NEW o \in OutSet, Parts(f, w, u, v, a, y, c, g, o)
  PROVE  /\ \A p \in Packets(sync["single"]) \union Packets(sync["one"]) : Numbered(p)
         /\ \A p \in Packets(sync["long"]) \union Packets(sync["dynamic"]) : Numbered(p)
         /\ \A p \in Packets(inter_out) : Numbered(p)
<1>1. PICK S \in [Nat -> ListSet], n \in Nat, i \in Nat : S = f.S /\ n = f.B[f.s] /\ i = o.i
  BY FrontFields, PlaceFields
<1>2. /\ Singles(S, i, n, u) /\ OneStreams(a) /\ Commands(S, i, n, c, a, 1)
      /\ LongStreams(y) /\ Commands(S, i, n, c, y, MaxBurst) /\ LongLines(y)
      /\ Counted(a, y, c) /\ Merged(S, i, n, g) /\ Out(S, n, o)
  BY <1>1 DEF Parts
<1>3. /\ u.k1 \in Nat /\ u.k2 \in Nat /\ u.k3 \in Nat /\ a.k1 \in Nat /\ a.k2 \in Nat /\ a.k3 \in Nat
      /\ y.k1 \in Nat /\ y.k3 \in Nat /\ y.r1 \in Nat /\ y.r2 \in Nat
      /\ g.g1 \in Nat /\ g.g2 \in Nat /\ o.k1 \in Nat /\ o.k2 \in Nat
  BY EngineFields, LongFields, PlaceFields
<1>4. a.k2 <= a.k3 /\ y.r1 <= y.r2
  BY <1>2, CommandWindow
<1>5. ASSUME NEW p \in Packets(sync["single"]) PROVE Numbered(p)
  <2>1. Holds(sync["single"], SingleOf(u.T), u.k1, u.k2, 0, None) /\ u.k2 <= u.k3
    BY <1>2 DEF Singles, Holds
  <2>2. PICK h \in u.k1 .. u.k2 - 1 : p = SingleOf(u.T)[h] /\ h \in Nat
    <3>1. HeldIn(p, SingleOf(u.T), u.k1, u.k2)
      BY <1>3, <1>5, <2>1, HeldPacket
    <3> QED
      BY <3>1 DEF HeldIn
  <2>3. h \in u.k1 .. u.k3 - 1 /\ p = SyncPkg(u.T[h].p, 0, TRUE, TRUE)
    BY <1>3, <2>1, <2>2 DEF SingleOf
  <2>4. Numbered(u.T[h].p)
    BY <1>2, <2>3, TagNumbers DEF Singles
  <2> QED
    BY <2>3, <2>4, SamePkgNumbers
<1>6. ASSUME NEW p \in Packets(sync["one"]) PROVE Numbered(p)
  <2>1. Holds(sync["one"], OneOf(a.T), a.k1, a.k2, 0, None)
    BY <1>2 DEF OneStreams
  <2>2. PICK h \in a.k1 .. a.k2 - 1 : p = OneOf(a.T)[h] /\ h \in Nat
    <3>1. HeldIn(p, OneOf(a.T), a.k1, a.k2)
      BY <1>3, <1>6, <2>1, HeldPacket
    <3> QED
      BY <3>1 DEF HeldIn
  <2>3. h \in a.k1 .. a.k3 - 1 /\ p = SyncPkg(a.T[h].p, 0, a.T[h].p.end_of_burst, TRUE)
    BY <1>3, <1>4, <2>2 DEF OneOf
  <2>4. Numbered(a.T[h].p)
    BY <1>2, <2>3, TagNumbers DEF Commands
  <2> QED
    BY <2>3, <2>4, SamePkgNumbers
<1>7. ASSUME NEW p \in Packets(sync["long"]) PROVE Numbered(p)
  <2>1. Holds(sync["long"], LongOf(y.T, y.R), y.r1, y.r2, 0, None)
    BY <1>2 DEF LongStreams
  <2>2. PICK r \in y.r1 .. y.r2 - 1 : p = LongOf(y.T, y.R)[r] /\ r \in Nat
    <3>1. HeldIn(p, LongOf(y.T, y.R), y.r1, y.r2)
      BY <1>3, <1>7, <2>1, HeldPacket
    <3> QED
      BY <3>1 DEF HeldIn
  <2>3. PICK k, e, t : k = y.R[r].k /\ p = SyncPkg(y.T[k].p, y.R[r].n, e, t)
    BY <2>2 DEF LongOf, LongPkg
  <2>4. k \in y.k1 .. y.k3 - 1
    <3>1. y.R[r].k < y.k3 /\ y.R[y.r1].k = y.k1
      BY <1>2, <2>2 DEF LongLines, LinesFollow
    <3>2. y.R[y.r1].k <= y.R[r].k
      <4>1. y.r1 \in y.r1 .. y.r2 /\ r \in y.r1 .. y.r2 /\ y.r1 <= r
        <5>1. PICK r1, r2 : r1 = y.r1 /\ r2 = y.r2
          OBVIOUS
        <5>2. r1 \in Nat /\ r2 \in Nat /\ r \in Nat /\ r \in r1 .. r2 - 1
          BY <1>3, <2>2, <5>1, Zenon
        <5>3. r1 \in r1 .. r2 /\ r \in r1 .. r2 /\ r1 <= r
          BY <5>2
        <5> QED
          BY <5>1, <5>3, Zenon
      <4> QED
        BY <1>2, <4>1 DEF LongLines, LinesFollow
    <3>3. y.R[r].k \in Nat
      BY <2>2, LongFields
    <3>4. PICK k1, k3 : k1 = y.k1 /\ k3 = y.k3
      OBVIOUS
    <3>5. k1 \in Nat /\ k3 \in Nat /\ k \in Nat /\ k1 <= k /\ k < k3
      BY <1>3, <2>3, <3>1, <3>2, <3>3, <3>4
    <3>6. k \in k1 .. k3 - 1
      BY <3>5
    <3> QED
      BY <3>4, <3>6
  <2>5. Numbered(y.T[k].p)
    BY <1>2, <2>4, TagNumbers DEF Commands
  <2> QED
    BY <2>3, <2>5, SamePkgNumbers
<1>8. ASSUME NEW p \in Packets(sync["dynamic"]) PROVE Numbered(p)
  <2>1. Holds(sync["dynamic"], PkgOf(g.G), g.g1, g.g2, 0, None)
    BY <1>2 DEF Merged
  <2>2. PICK h \in g.g1 .. g.g2 - 1 : p = PkgOf(g.G)[h] /\ h \in Nat
    <3>1. HeldIn(p, PkgOf(g.G), g.g1, g.g2)
      BY <1>3, <1>8, <2>1, HeldPacket
    <3> QED
      BY <3>1 DEF HeldIn
  <2>3. LineOfList(S, i, n, g.G[h].l, g.G[h].m, g.G[h].p) /\ p = g.G[h].p
    BY <1>2, <2>2 DEF Merged, MergedLine, PkgOf
  <2> QED
    BY <2>3, TagNumbers
<1>9. ASSUME NEW p \in Packets(inter_out) PROVE Numbered(p)
  <2>1. Holds(inter_out, o.K, o.k1, o.k2, 0, None)
    BY <1>2 DEF Out
  <2>2. PICK h \in o.k1 .. o.k2 - 1 : p = o.K[h] /\ h \in Nat
    <3>1. HeldIn(p, o.K, o.k1, o.k2)
      BY <1>3, <1>9, <2>1, HeldPacket
    <3> QED
      BY <3>1 DEF HeldIn
  <2>3. LineOfList(S, FirstId, n, o.J[h].l, o.J[h].m, p) /\ FirstId \in Nat
    BY <1>2, <2>2, Sizes DEF Out
  <2> QED
    BY <2>3, TagNumbers
<1> QED
  BY <1>5, <1>6, <1>7, <1>8, <1>9

\* The numbers in the streams into update_merge.
LEMMA AnswerNumbers ==
  ASSUME Rest, NEW f \in FrontSet, NEW w \in Seq(Nat), NEW u \in EngineSet, NEW v \in VdSet,
         NEW a \in EngineSet, NEW y \in LongSet, NEW c \in NumberSet, NEW g \in MergedSet,
         NEW o \in OutSet, Parts(f, w, u, v, a, y, c, g, o)
  PROVE  \A p \in Packets(update) \union Packets(next_vertex) : p.id \in Ids
<1>1. PICK S \in [Nat -> ListSet], n, b \in Nat : S = f.S /\ n = f.B[f.s] /\ b = f.B[f.b]
  BY FrontFields
<1>2. Empties(f, w) /\ Sampled(S, b, n, o) /\ o.t \in Nat
  BY <1>1, PlaceFields DEF Parts
<1>3. ASSUME NEW p \in Packets(update) PROVE p.id \in Ids
  <2>1. PICK k \in 1 .. Len(update) : p = update[k]
    BY <1>3 DEF Packets
  <2>2. k \in 1 .. Len(w) /\ p = [to |-> Dead, id |-> w[k] % IdMod, last |-> f.H[w[k]].last]
    BY <1>2, <2>1 DEF Empties
  <2>3. p.id = w[k] % IdMod
    <3>1. PICK x, z : x = w[k] % IdMod /\ z = f.H[w[k]].last
      OBVIOUS
    <3>2. p = [to |-> Dead, id |-> x, last |-> z]
      BY <2>2, <3>1
    <3> QED
      BY <3>1, <3>2
  <2>4. w[k] \in Nat
    BY <2>2
  <2> QED
    BY <2>3, <2>4, NumberInRange
<1>4. ASSUME NEW p \in Packets(next_vertex) PROVE p.id \in Ids
  <2>1. /\ Len(next_vertex) = o.t - b
        /\ \A l \in b .. o.t - 1 : next_vertex[l - b + 1] \in SampledPkg(S[l])
    BY <1>2 DEF Sampled
  <2>2. PICK k \in 1 .. Len(next_vertex) : p = next_vertex[k]
    BY <1>4 DEF Packets
  <2>3. PICK l \in Nat : l = b + (k - 1)
    BY <1>2, <2>1, <2>2
  <2>4. l \in b .. o.t - 1 /\ l - b + 1 = k
    <3>1. k \in 1 .. o.t - b
      BY <2>1, <2>2
    <3> QED
      BY <1>2, <2>3, <3>1
  <2>5. p \in SampledPkg(S[l])
    BY <2>1, <2>2, <2>4
  <2>6. p.id = S[l].a % IdMod /\ S[l].a \in Nat
    BY <2>5 DEF SampledPkg, ListSet
  <2> QED
    BY <2>6, NumberInRange
<1> QED
  BY <1>3, <1>4

\* The type invariant follows.
LEMMA TypesHold ==
  ASSUME Rest, NEW f \in FrontSet, NEW w \in Seq(Nat), NEW u \in EngineSet, NEW v \in VdSet,
         NEW a \in EngineSet, NEW y \in LongSet, NEW c \in NumberSet, NEW g \in MergedSet,
         NEW o \in OutSet, Parts(f, w, u, v, a, y, c, g, o)
  PROVE  TypeOK
<1>1. /\ \A p \in Packets(sync["single"]) \union Packets(sync["one"]) : Numbered(p)
      /\ \A p \in Packets(sync["long"]) \union Packets(sync["dynamic"]) : Numbered(p)
      /\ \A p \in Packets(inter_out) : Numbered(p)
  BY SyncNumbers
<1>2. \A s \in {inter_out, sync["one"], sync["long"], sync["single"], sync["dynamic"]} :
        \A p \in Packets(s) : p.id \in Ids /\ p.burst_id \in Ids /\ p.dynamic_id \in Ids
  BY <1>1 DEF Numbered
<1>3. \A p \in Packets(update) \union Packets(next_vertex) : p.id \in Ids
  BY AnswerNumbers
<1>4. /\ sync_id \in Ids /\ sync_burst_id \in Ids /\ update_id \in Ids
      /\ dynamic_burst_id \in Ids /\ intra_id \in Ids /\ inter_id \in Ids
  <2>1. PICK s \in Nat, b \in Nat, n \in Nat, lo \in Nat, hi \in Nat, i \in Nat :
          s = f.s /\ b = f.b /\ n = f.B[f.s] /\ lo = c.lo /\ hi = c.hi /\ i = o.i
    BY FrontFields, PlaceFields
  <2>2. /\ sync_id = s % IdMod /\ update_id = b % IdMod /\ sync_burst_id = n % IdMod
        /\ dynamic_burst_id = hi % IdMod /\ intra_id = lo % IdMod /\ inter_id = i % IdMod
    BY <2>1 DEF Parts, Requests, Counted, Out
  <2> QED
    BY <2>2, NumberInRange
<1>5. j \in 0 .. MaxBurst - 1
  BY DEF Parts, LongLines
<1>6. /\ asked \in 0..MaxReq /\ vs_pc \in {"run", "stop_single", "stop_dynamic", "done"}
      /\ running \in [Engines -> BOOLEAN]
  BY DEF Rest
<1> QED
  BY <1>2, <1>3, <1>4, <1>5, <1>6 DEF TypeOK

\* When the host starts the next run nothing of the old one is left, and the
\* numbers the free-running kernels kept are those their readers wait for; all
\* along every number is in the range it counts in.
THEOREM BurstRestart == Spec => []CleanRestart
<1>1. BurstInv => CleanRestart
  <2> SUFFICES ASSUME BurstInv PROVE CleanRestart
    OBVIOUS
  <2>1. PICK f \in FrontSet, w \in Seq(Nat), u \in EngineSet, v \in VdSet, a \in EngineSet,
             y \in LongSet, c \in NumberSet, g \in MergedSet, o \in OutSet :
             Parts(f, w, u, v, a, y, c, g, o)
    BY DEF BurstInv
  <2>2. Rest
    BY DEF BurstInv
  <2>3. TypeOK
    BY <2>1, <2>2, TypesHold
  <2>4. ASSUME RunOver PROVE Finished
    BY <2>1, <2>2, <2>4, RunOverEnds
  <2> QED
    BY <2>3, <2>4 DEF CleanRestart, Finished
<1> QED
  BY <1>1, BurstInvariant, PTL

\* An answer in update or next_vertex whose turn it is is one of the oldest
\* request, if the long bursts end within their lists.
LEMMA AnswerIsService ==
  ASSUME LongBurstsFit, BurstInv, UpdateMerge
  PROVE  Service!Answer
<1>1. PICK f \in FrontSet, w \in Seq(Nat), u \in EngineSet, v \in VdSet, a \in EngineSet,
           y \in LongSet, c \in NumberSet, g \in MergedSet, o \in OutSet :
           Parts(f, w, u, v, a, y, c, g, o)
  BY DEF BurstInv
<1>2. PICK n : n = f.B[f.s]
  OBVIOUS
<1>3. /\ Requests(f) /\ Numbering(f) /\ Empties(f, w) /\ Out(f.S, n, o)
      /\ Sampled(f.S, f.B[f.b], n, o)
  BY <1>1, <1>2 DEF Parts
<1>4. ASSUME f.b < f.s
      PROVE  pending # <<>> /\ Head(pending) = f.H[f.b]
  <2>1. Holds(pending, f.H, f.b, f.e, 0, None)
    BY <1>3 DEF Requests
  <2>2. f.b \in Nat /\ f.e \in Nat /\ f.b # f.e
    <3>1. f.b \in Nat /\ f.s \in Nat /\ f.e \in Nat /\ f.s <= f.e
      BY <1>3, FrontOrder
    <3> QED
      BY <1>4, <3>1
  <2>3. pending # <<>>
    BY <2>1, <2>2, StreamEmpty
  <2> QED
    BY <2>1, <2>2, <2>3, StreamPop
<1>5. CASE AnswerEmpty
  <2>1. /\ UpdateTurn(update) /\ pending' = Tail(pending)
        /\ answer' = [to |-> Head(update).to, last |-> Head(update).last]
    BY <1>5 DEF AnswerEmpty, Give
  <2>2. /\ f.b < f.s
        /\ Head(update) = [to |-> Dead, id |-> f.b % IdMod, last |-> f.H[f.b].last]
    BY <1>3, <2>1, EmptyAnswer
  <2>3. Head(update).to = Dead /\ Head(update).last = f.H[f.b].last
    BY <2>2
  <2>4. Dead \in Answers(f.H[f.b].vertex)
    BY DEF Answers
  <2>5. pending # <<>> /\ Head(pending) = f.H[f.b]
    BY <1>4, <2>2
  <2> QED
    BY <2>1, <2>3, <2>4, <2>5, Zenon DEF Service!Answer
<1>6. CASE AnswerSampled
  <2>1. /\ UpdateTurn(next_vertex) /\ pending' = Tail(pending)
        /\ answer' = [to |-> Head(next_vertex).to, last |-> Head(next_vertex).last]
    BY <1>6 DEF AnswerSampled, Give
  <2>2. /\ f.b < f.s /\ Head(next_vertex) \in SampledPkg(f.S[f.B[f.b]])
        /\ f.S[f.B[f.b]].p = f.H[f.b]
    BY <1>2, <1>3, <2>1, SampledAnswer
  <2>3. PICK x, r : x = f.S[f.B[f.b]] /\ r = Head(next_vertex) /\ r \in SampledPkg(x) /\ x.p = f.H[f.b]
    BY <2>2
  <2>4. r.to \in Answers(x.p.vertex) /\ r.last = x.p.last
    BY <2>3 DEF SampledPkg
  <2>5. Head(next_vertex).to \in Answers(f.H[f.b].vertex) /\ Head(next_vertex).last = f.H[f.b].last
    BY <2>3, <2>4
  <2>6. pending # <<>> /\ Head(pending) = f.H[f.b]
    BY <1>4, <2>2
  <2> QED
    BY <2>1, <2>5, <2>6, Zenon DEF Service!Answer
<1> QED
  BY <1>5, <1>6 DEF UpdateMerge, AnswerEmpty, AnswerSampled

\* The engine answers every request in its turn with a neighbour of its own
\* vertex or none, for every mix of engines the lists are read by, if the long
\* bursts end within their lists: a request is asked, update_merge answers and
\* every other step is invisible.
THEOREM BurstRefinement ==
  ASSUME LongBurstsFit
  PROVE  Spec => ImplementsService
<1>1. Init => Service!Init
  BY DEF Init, Service!Init
<1>2. BurstInv /\ [Next]_vars => [Service!Next]_Service!vars
  <2> SUFFICES ASSUME BurstInv, [Next]_vars
               PROVE  Service!Next \/ UNCHANGED <<pending, answer>>
    BY DEF Service!vars
  <2>1. CASE Request
    <3>1. Service!Ask
      BY <2>1 DEF Request, Service!Ask, outVars
    <3> QED
      BY <3>1 DEF Service!Next
  <2>2. CASE UpdateMerge
    BY <2>2, AnswerIsService DEF Service!Next
  <2>3. CASE Schedule \/ CmdGenerator
    BY <2>3 DEF Schedule, ScheduleEmpty, ScheduleSingle, ScheduleDynamic, StopSingle, StopDynamic,
                CmdGenerator, outVars, history
  <2>4. CASE Burst1 \/ Burst32 \/ Single
    BY <2>4 DEF Burst1, Burst32, Single, EngineStop, BurstOne, BurstLong, outVars, history
  <2>5. CASE IntraMerge \/ InterMerge \/ Sample \/ Restart
    BY <2>5 DEF IntraMerge, InterMerge, Sample, Restart, outVars, history
  <2>6. CASE Idle \/ UNCHANGED vars
    BY <2>6 DEF Idle, vars, outVars, history
  <2> QED
    BY <2>1, <2>2, <2>3, <2>4, <2>5, <2>6 DEF Next
<1> QED
  BY <1>1, <1>2, BurstInvariant, PTL DEF Spec, ImplementsService, Service!Spec

\* The number of wraps does not matter.
LEMMA OneRemainder ==
  ASSUME NEW M \in Nat, M > 0, NEW p \in Nat, NEW h \in 0 .. M - 1
  PROVE  (M * p + h) % M = h
OBVIOUS

\* The distance of two numbers that wrap.
LEMMA NumberDistance ==
  ASSUME NEW M \in Nat, M > 0, NEW b \in Nat, NEW a \in Nat, b <= a, a < b + M
  PROVE  ((a % M) - (b % M)) % M = a - b
<1>1. PICK q \in Nat, r \in 0 .. M - 1 : b = M * q + r /\ r = b % M
  BY QuotientRemainder
<1>2. PICK k \in Nat : k = a - b /\ k < M
  OBVIOUS
<1>3. CASE r + k < M
  <2>1. a = M * q + (r + k) /\ r + k \in 0 .. M - 1
    BY <1>1, <1>2, <1>3
  <2>2. a % M = r + k
    BY <2>1
  <2>3. (r + k) - r = k /\ k % M = k
    BY <1>1, <1>2
  <2> QED
    BY <1>1, <1>2, <2>2, <2>3
<1>4. CASE ~(r + k < M)
  <2>1. a = M * (q + 1) + (r + k - M) /\ r + k - M \in 0 .. M - 1
    BY <1>1, <1>2, <1>4
  <2>2. PICK p \in Nat, h \in 0 .. M - 1 : h = r + k - M /\ a = M * p + h
    BY <2>1
  <2>6. (M * p + h) % M = h
    BY OneRemainder, Zenon
  <2>5. a % M = h
    BY <2>2, <2>6
  <2>3. (r + k - M) - r = k - M
    BY <1>1, <1>2
  <2>4. (k - M) % M = k
    BY <1>2
  <2> QED
    BY <1>1, <1>2, <2>2, <2>3, <2>4, <2>5
<1> QED
  BY <1>3, <1>4

\* The line in front of the sampler: the line of the list it has come to, the
\* request the list is of, and the place of the request in pending.
LEMMA FrontLine ==
  ASSUME Rest, NEW f \in FrontSet, NEW w \in Seq(Nat), NEW u \in EngineSet, NEW v \in VdSet,
         NEW a \in EngineSet, NEW y \in LongSet, NEW c \in NumberSet, NEW g \in MergedSet,
         NEW o \in OutSet, Parts(f, w, u, v, a, y, c, g, o),
         inter_out # <<>>
  PROVE  /\ LineOfList(f.S, FirstId, f.B[f.s], o.t, o.mt, Head(inter_out))
         /\ o.t \in Nat /\ o.mt \in Nat /\ FirstId <= o.t /\ f.B[f.b] <= o.t /\ o.t < f.B[f.s]
<1>1. PICK S, n : S = f.S /\ n = f.B[f.s]
  OBVIOUS
<1>2. /\ Requests(f) /\ Numbering(f) /\ Out(S, n, o) /\ Sampled(S, f.B[f.b], n, o)
  BY <1>1 DEF Parts
<1>3. o.k1 \in Nat /\ o.k2 \in Nat /\ o.t \in Nat /\ o.mt \in Nat
  BY PlaceFields
<1>4. /\ Holds(inter_out, o.K, o.k1, o.k2, 0, None)
      /\ o.J[o.k1] = [l |-> o.t, m |-> o.mt]
      /\ \A h \in o.k1 .. o.k2 - 1 : LineOfList(S, FirstId, n, o.J[h].l, o.J[h].m, o.K[h])
  BY <1>2 DEF Out
<1>5. o.k1 # o.k2 /\ o.k1 <= o.k2
  BY <1>3, <1>4, StreamEmpty DEF Holds
<1>6. Head(inter_out) = o.K[o.k1]
  <2>1. PICK x \in Nat, y1 \in Nat : x = o.k1 /\ y1 = o.k2
    BY <1>3
  <2>2. Holds(inter_out, o.K, x, y1, 0, None) /\ inter_out # <<>>
    BY <1>4, <2>1
  <2>3. Head(inter_out) = o.K[x]
    BY <2>2, StreamPop
  <2> QED
    BY <2>1, <2>3
<1>7. o.k1 \in o.k1 .. o.k2 - 1
  BY <1>3, <1>5
<1>8. o.J[o.k1].l = o.t /\ o.J[o.k1].m = o.mt
  BY <1>4
<1>9. LineOfList(S, FirstId, n, o.t, o.mt, Head(inter_out))
  BY <1>4, <1>6, <1>7, <1>8
<1>10. o.t \in FirstId .. n - 1
  BY <1>9 DEF LineOfList, Listed
<1>11. n \in Nat /\ FirstId \in Nat /\ f.B[f.b] <= o.t
  BY <1>1, <1>2, ListWindow, Sizes DEF Sampled
<1> QED
  BY <1>1, <1>3, <1>9, <1>10, <1>11

\* The number of the line leads to the vertex whose list it is of.
LEMMA AskedByFront ==
  ASSUME Rest, NEW f \in FrontSet, NEW w \in Seq(Nat), NEW u \in EngineSet, NEW v \in VdSet,
         NEW a \in EngineSet, NEW y \in LongSet, NEW c \in NumberSet, NEW g \in MergedSet,
         NEW o \in OutSet, Parts(f, w, u, v, a, y, c, g, o),
         inter_out # <<>>
  PROVE  AskedBy(Head(inter_out).id) = f.S[o.t].p.vertex
<1>1. /\ LineOfList(f.S, FirstId, f.B[f.s], o.t, o.mt, Head(inter_out))
      /\ o.t \in Nat /\ FirstId <= o.t /\ f.B[f.b] <= o.t /\ o.t < f.B[f.s]
  BY FrontLine
<1>2. Requests(f) /\ Numbering(f)
  BY DEF Parts
<1>3. PICK x \in Nat : /\ x = f.S[o.t].a /\ f.b <= x /\ x < f.s /\ o.t < f.B[f.e]
                       /\ x < f.b + IdMod
  BY <1>1, <1>2, ListRequest
<1>4. f.S[o.t].p = f.H[x]
  BY <1>1, <1>2, <1>3, HistoryList
<1>5. Head(inter_out).id = x % IdMod
  BY <1>1, <1>3 DEF LineOfList, Listed
<1>6. f.b \in Nat /\ f.s \in Nat /\ f.e \in Nat /\ f.s <= f.e
  BY <1>2, FrontOrder
<1>7. update_id = f.b % IdMod /\ Holds(pending, f.H, f.b, f.e, 0, None)
  BY <1>2 DEF Requests
<1>8. ((x % IdMod) - (f.b % IdMod)) % IdMod = x - f.b
  <2>1. IdMod \in Nat /\ IdMod > 0
    BY Sizes
  <2>2. PICK r \in Nat : r = f.b
    BY <1>6
  <2>3. r <= x /\ x < r + IdMod
    BY <1>3, <2>2
  <2>4. ((x % IdMod) - (r % IdMod)) % IdMod = x - r
    BY <2>1, <2>3, NumberDistance
  <2> QED
    BY <2>2, <2>4
<1>9. pending[x - f.b + 1] = f.H[x]
  <2>1. x \in f.b .. f.e - 1
    BY <1>3, <1>6
  <2> QED
    BY <1>7, <2>1 DEF Holds
<1> QED
  BY <1>4, <1>5, <1>7, <1>8, <1>9 DEF AskedBy

\* When the last line of a list is in front of the sampler, it has been shown
\* the lines below it, and the line is the rest.
LEMMA LastLineShown ==
  ASSUME Rest, NEW f \in FrontSet, NEW w \in Seq(Nat), NEW u \in EngineSet, NEW v \in VdSet,
         NEW a \in EngineSet, NEW y \in LongSet, NEW c \in NumberSet, NEW g \in MergedSet,
         NEW o \in OutSet, Parts(f, w, u, v, a, y, c, g, o),
         LongBurstsWhole, inter_out # <<>>, Head(inter_out).end_of_burst
  PROVE  shown \union Head(inter_out).words = Words(f.S[o.t].p.vertex)
<1>1. PICK p, d, m : p = Head(inter_out) /\ d = f.S[o.t].p.vertex /\ m = o.mt
  OBVIOUS
<1>2. /\ LineOfList(f.S, FirstId, f.B[f.s], o.t, m, p)
      /\ o.t \in Nat /\ m \in Nat /\ FirstId <= o.t /\ f.B[f.b] <= o.t /\ o.t < f.B[f.s]
  BY <1>1, FrontLine
<1>3. p.end_of_burst = (m + 1 = Lines(d)) /\ Shows(d, m, p.words)
  BY <1>1, <1>2 DEF LineOfList
<1>4. m + 1 = Lines(d) /\ p.words = InLine(d, m)
  BY <1>1, <1>3 DEF Shows
<1>5. d.start \in Nat /\ d.size \in Nat /\ d.size # 0
  <2>1. Requests(f) /\ Numbering(f)
    BY DEF Parts
  <2>2. o.t < f.B[f.e]
    BY <1>2, <2>1, ListRequest
  <2> QED
    BY <1>1, <1>2, <2>1, <2>2, HistoryList
<1>6. shown = Below(d, m)
  <2>1. /\ m = 0 => shown = {}
        /\ m # 0 => shown = Below(d, m)
    BY <1>1 DEF Parts, Sampled
  <2>2. Below(d, 0) = {}
    BY <1>5, BelowLines
  <2> QED
    BY <2>1, <2>2
<1>7. Below(d, m) \union InLine(d, m) = Below(d, m + 1) /\ Below(d, Lines(d)) = Words(d)
  BY <1>2, <1>5, BelowLines
<1> QED
  BY <1>1, <1>4, <1>6, <1>7

\* However cmd_generator splits a neighbour list between the engines, the sampler
\* is shown every word of it and no other, if long bursts are made of whole lines.
THEOREM BurstShown ==
  ASSUME LongBurstsWhole
  PROVE  Spec => []NeighboursShown
<1>1. ASSUME BurstInv PROVE NeighboursShown
  <2>1. Rest
    BY <1>1 DEF BurstInv
  <2>2. PICK f \in FrontSet, w \in Seq(Nat), u \in EngineSet, v \in VdSet, a \in EngineSet,
             y \in LongSet, c \in NumberSet, g \in MergedSet, o \in OutSet :
             Parts(f, w, u, v, a, y, c, g, o)
    BY <1>1 DEF BurstInv
  <2> SUFFICES ASSUME inter_out # <<>>, Head(inter_out).end_of_burst
               PROVE  shown \union Head(inter_out).words
                        = Words(AskedBy(Head(inter_out).id))
    BY DEF NeighboursShown
  <2>3. AskedBy(Head(inter_out).id) = f.S[o.t].p.vertex
    BY <2>1, <2>2, AskedByFront
  <2>4. shown \union Head(inter_out).words = Words(f.S[o.t].p.vertex)
    BY <2>1, <2>2, LastLineShown
  <2> QED
    BY <2>3, <2>4
<1> QED
  BY <1>1, BurstInvariant, PTL
=============================================================================
