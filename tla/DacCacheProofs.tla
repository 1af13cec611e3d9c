--------------------------- MODULE DacCacheProofs ---------------------------
(***************************************************************************)
(* Proofs about the degree-aware vertex cache for every graph, cache size, *)
(* stream depth and number of lookups: the cache is coherent, and the      *)
(* kernels around it implement a memory that answers in order.             *)
(***************************************************************************)
EXTENDS DacCache, StreamLemmas, TLAPS

InputPkg   == [v: Vertices \union {Dead}, last: BOOLEAN]
CmdPkg     == [addr: Vertices \union {Dead}, last: BOOLEAN, dummy: BOOLEAN]
PendingPkg == [vertex: Vertices \union {Dead}, last: BOOLEAN]

\* the packets on their way to vcache_vd and to vcache_update, the next one to
\* be read first, and the answers of the memory on the same ways.  A packet
\* that vcache_duplicate has written to out1 only is still the head of its
\* input, but on the way to vcache_update only.
ToVd       == vds[1] \o (IF "vds" \in half THEN Tail(output) ELSE output)
ToUpdate   == vds[2] \o output
DataVd     == dup[1] \o (IF "data" \in half THEN Tail(data) ELSE data)
DataUpdate == dup[2] \o data

\* Answers D and then commands C belong to the packets P, by position.
Paired(P, D, C) ==
    /\ Len(P) = Len(D) + Len(C)
    /\ \A k \in 1..Len(P) : P[k].invalid => P[k].start \in Vertices
    /\ \A k \in 1..Len(D) : P[k].invalid => D[k] = Desc[P[k].start]
    /\ \A k \in 1..Len(C) : /\ C[k].dummy = ~P[Len(D) + k].invalid
                            /\ P[Len(D) + k].invalid => C[k].addr = P[Len(D) + k].start

\* packet p was made for lookup q
Made(p, q) ==
    /\ p.last = q.last
    /\ IF p.invalid THEN q.vertex # Dead /\ p.start = q.vertex
                    ELSE [start |-> p.start, size |-> p.size] \in Answers(q.vertex)

\* The lookups Q not answered are those of the packets P on their way to
\* vcache_vd and then of the packet in I, not looked up yet.
Waiting(P, I, Q) ==
    /\ Len(Q) = Len(P) + Len(I)
    /\ \A k \in 1..Len(P) : Made(P[k], Q[k])
    /\ \A k \in 1..Len(I) : /\ I[k].v = Q[Len(P) + k].vertex
                            /\ I[k].last = Q[Len(P) + k].last

HalfInv == /\ "vds" \in half => output # <<>>
           /\ "data" \in half => data # <<>>

\* The inductive invariant: the cache is coherent, whatever way a packet takes
\* it meets its own answer of the memory, and the packets are those of the
\* lookups not answered.
CacheInv ==
    /\ CacheCoherent
    /\ HalfInv
    /\ Paired(ToVd, DataVd, vertex_cmd)
    /\ Paired(ToUpdate, DataUpdate, vertex_cmd)
    /\ pending \in Seq(PendingPkg)
    /\ Waiting(ToVd, input, pending)

-----------------------------------------------------------------------------
(* Packets and their answers                                                *)

\* A lookup adds a packet and a command.
LEMMA PairedAsk ==
  ASSUME NEW P \in Seq(VdsPkg), NEW D \in Seq(DescPkg), NEW C \in Seq(CmdPkg),
         NEW p \in VdsPkg, NEW c \in CmdPkg, Paired(P, D, C),
         c.dummy = ~p.invalid, p.invalid => p.start \in Vertices /\ c.addr = p.start
  PROVE  Paired(Append(P, p), D, Append(C, c))
<1> DEFINE Q == Append(P, p)
           B == Append(C, c)
<1>1. /\ Q \in Seq(VdsPkg) /\ Len(Q) = Len(P) + 1 /\ Q[Len(P) + 1] = p
      /\ \A k \in 1..Len(P) : Q[k] = P[k]
  BY PushElements
<1>2. /\ B \in Seq(CmdPkg) /\ Len(B) = Len(C) + 1 /\ B[Len(C) + 1] = c
      /\ \A k \in 1..Len(C) : B[k] = C[k]
  BY PushElements
<1> HIDE DEF Q, B
<1>3. Len(P) \in Nat /\ Len(D) \in Nat /\ Len(C) \in Nat
  OBVIOUS
<1>4. Len(Q) = Len(D) + Len(B) /\ Len(P) = Len(D) + Len(C)
  BY <1>1, <1>2, <1>3 DEF Paired
<1>5. \A k \in 1..Len(Q) : Q[k].invalid => Q[k].start \in Vertices
  BY <1>1, <1>3 DEF Paired
<1>6. \A k \in 1..Len(D) : Q[k].invalid => D[k] = Desc[Q[k].start]
  BY <1>1, <1>3, <1>4, SMTT(30) DEF Paired
<1>7. \A k \in 1..Len(B) : /\ B[k].dummy = ~Q[Len(D) + k].invalid
                           /\ Q[Len(D) + k].invalid => B[k].addr = Q[Len(D) + k].start
  <2> SUFFICES ASSUME NEW k \in 1..Len(B)
               PROVE  /\ B[k].dummy = ~Q[Len(D) + k].invalid
                      /\ Q[Len(D) + k].invalid => B[k].addr = Q[Len(D) + k].start
    OBVIOUS
  <2>1. CASE k = Len(C) + 1
    <3>1. B[k] = c /\ Q[Len(D) + k] = p
      BY <1>1, <1>2, <1>3, <1>4, <2>1
    <3> QED
      BY <3>1
  <2>2. CASE k # Len(C) + 1
    <3>1. k \in 1..Len(C) /\ B[k] = C[k] /\ Q[Len(D) + k] = P[Len(D) + k]
      BY <1>1, <1>2, <1>3, <1>4, <2>2
    <3> QED
      BY <3>1 DEF Paired
  <2> QED
    BY <2>1, <2>2
<1> QED
  BY <1>4, <1>5, <1>6, <1>7 DEF Paired, Q, B

\* The memory answers the oldest command.
LEMMA PairedReply ==
  ASSUME NEW P \in Seq(VdsPkg), NEW D \in Seq(DescPkg), NEW C \in Seq(CmdPkg),
         NEW d \in DescPkg, Paired(P, D, C), C # <<>>,
         ~Head(C).dummy => d = Desc[Head(C).addr]
  PROVE  Paired(P, Append(D, d), Tail(C))
<1> DEFINE E == Append(D, d)
           B == Tail(C)
<1>1. /\ E \in Seq(DescPkg) /\ Len(E) = Len(D) + 1 /\ E[Len(D) + 1] = d
      /\ \A k \in 1..Len(D) : E[k] = D[k]
  BY PushElements
<1>2. /\ B \in Seq(CmdPkg) /\ Len(B) = Len(C) - 1 /\ Len(C) >= 1
      /\ \A k \in 1..Len(C) - 1 : B[k] = C[k + 1]
      /\ Head(C) = C[1]
  BY PopElements
<1> HIDE DEF E, B
<1>3. Len(P) \in Nat /\ Len(D) \in Nat /\ Len(C) \in Nat
  OBVIOUS
<1>4. Len(P) = Len(E) + Len(B)
  BY <1>1, <1>2, <1>3 DEF Paired
<1>5. P[Len(D) + 1].invalid => d = Desc[P[Len(D) + 1].start]
  <2>1. 1 \in 1..Len(C)
    BY <1>2, <1>3
  <2>2. /\ C[1].dummy = ~P[Len(D) + 1].invalid
        /\ P[Len(D) + 1].invalid => C[1].addr = P[Len(D) + 1].start
    BY <2>1, Zenon DEF Paired
  <2> QED
    BY <1>2, <2>2, Zenon
<1>6. \A k \in 1..Len(E) : P[k].invalid => E[k] = Desc[P[k].start]
  BY <1>1, <1>3, <1>5 DEF Paired
<1>7. \A k \in 1..Len(B) : /\ B[k].dummy = ~P[Len(E) + k].invalid
                           /\ P[Len(E) + k].invalid => B[k].addr = P[Len(E) + k].start
  <2> SUFFICES ASSUME NEW k \in 1..Len(B)
               PROVE  /\ B[k].dummy = ~P[Len(E) + k].invalid
                      /\ P[Len(E) + k].invalid => B[k].addr = P[Len(E) + k].start
    OBVIOUS
  <2>1. B[k] = C[k + 1] /\ k + 1 \in 1..Len(C) /\ Len(E) + k = Len(D) + (k + 1)
    BY <1>1, <1>2, <1>3
  <2> QED
    BY <2>1 DEF Paired
<1> QED
  BY <1>4, <1>6, <1>7 DEF Paired, E, B

\* A packet and its answer are read.
LEMMA PairedRead ==
  ASSUME NEW P \in Seq(VdsPkg), NEW D \in Seq(DescPkg), NEW C \in Seq(CmdPkg),
         Paired(P, D, C), P # <<>>, D # <<>>
  PROVE  /\ Paired(Tail(P), Tail(D), C)
         /\ Head(P).invalid => Head(P).start \in Vertices /\ Head(D) = Desc[Head(P).start]
<1> DEFINE Q == Tail(P)
           E == Tail(D)
<1>1. /\ Q \in Seq(VdsPkg) /\ Len(Q) = Len(P) - 1 /\ Len(P) >= 1 /\ Head(P) = P[1]
      /\ \A k \in 1..Len(P) - 1 : Q[k] = P[k + 1]
  BY PopElements
<1>2. /\ E \in Seq(DescPkg) /\ Len(E) = Len(D) - 1 /\ Len(D) >= 1 /\ Head(D) = D[1]
      /\ \A k \in 1..Len(D) - 1 : E[k] = D[k + 1]
  BY PopElements
<1> HIDE DEF Q, E
<1>3. Len(P) \in Nat /\ Len(D) \in Nat /\ Len(C) \in Nat
  OBVIOUS
<1>4. Len(Q) = Len(E) + Len(C)
  BY <1>1, <1>2, <1>3 DEF Paired
<1>5. \A k \in 1..Len(Q) : Q[k].invalid => Q[k].start \in Vertices
  BY <1>1, <1>3 DEF Paired
<1>6. \A k \in 1..Len(E) : Q[k].invalid => E[k] = Desc[Q[k].start]
  <2> SUFFICES ASSUME NEW k \in 1..Len(E)
               PROVE  Q[k].invalid => E[k] = Desc[Q[k].start]
    OBVIOUS
  <2>1. Q[k] = P[k + 1] /\ E[k] = D[k + 1] /\ k + 1 \in 1..Len(D)
    BY <1>1, <1>2, <1>3 DEF Paired
  <2> QED
    BY <2>1 DEF Paired
<1>7. \A k \in 1..Len(C) : /\ C[k].dummy = ~Q[Len(E) + k].invalid
                           /\ Q[Len(E) + k].invalid => C[k].addr = Q[Len(E) + k].start
  <2> SUFFICES ASSUME NEW k \in 1..Len(C)
               PROVE  /\ C[k].dummy = ~Q[Len(E) + k].invalid
                      /\ Q[Len(E) + k].invalid => C[k].addr = Q[Len(E) + k].start
    OBVIOUS
  <2>1. /\ Len(E) + k \in 1..Len(P) - 1
        /\ (Len(E) + k) + 1 = Len(D) + k
    BY <1>1, <1>2, <1>3, <1>4
  <2>2. Q[Len(E) + k] = P[Len(D) + k]
    BY <1>1, <2>1
  <2> QED
    BY <2>2 DEF Paired
<1>8. Head(P).invalid => Head(P).start \in Vertices /\ Head(D) = Desc[Head(P).start]
  BY <1>1, <1>2, <1>3 DEF Paired
<1> QED
  BY <1>4, <1>5, <1>6, <1>7, <1>8 DEF Paired, Q, E

-----------------------------------------------------------------------------
(* Packets and lookups                                                      *)

\* A new lookup waits behind all the others.
LEMMA WaitingAsk ==
  ASSUME NEW P \in Seq(VdsPkg), NEW Q \in Seq(PendingPkg),
         NEW v \in Vertices \union {Dead}, NEW last \in BOOLEAN, Waiting(P, <<>>, Q)
  PROVE  Waiting(P, <<[v |-> v, last |-> last]>>, Append(Q, [vertex |-> v, last |-> last]))
<1> DEFINE q == [vertex |-> v, last |-> last]
           R == Append(Q, q)
<1>1. /\ R \in Seq(PendingPkg) /\ Len(R) = Len(Q) + 1 /\ R[Len(Q) + 1] = q
      /\ \A k \in 1..Len(Q) : R[k] = Q[k]
  <2>1. q \in PendingPkg
    BY DEF PendingPkg
  <2> QED
    BY <2>1, PushElements
<1>2. q.vertex = v /\ q.last = last
  OBVIOUS
<1> HIDE DEF R, q
<1>3. Len(P) \in Nat /\ Len(Q) = Len(P)
  BY DEF Waiting
<1>4. \A k \in 1..Len(P) : Made(P[k], R[k])
  BY <1>1, <1>3, Zenon DEF Waiting
<1> DEFINE I == <<[v |-> v, last |-> last]>>
<1>5. Len(I) = 1 /\ I[1].v = v /\ I[1].last = last
  OBVIOUS
<1> HIDE DEF I
<1>6. \A k \in 1..Len(I) : I[k].v = R[Len(P) + k].vertex /\ I[k].last = R[Len(P) + k].last
  BY <1>1, <1>2, <1>3, <1>5
<1>7. Len(R) = Len(P) + Len(I)
  BY <1>1, <1>3, <1>5
<1> QED
  BY <1>4, <1>6, <1>7 DEF Waiting, R, I, q

\* The packet of a lookup takes the place of the lookup.
LEMMA WaitingLookup ==
  ASSUME NEW P \in Seq(VdsPkg), NEW I \in Seq(InputPkg), NEW Q \in Seq(PendingPkg),
         NEW p \in VdsPkg, Waiting(P, I, Q), I # <<>>,
         \A q \in PendingPkg : q.vertex = Head(I).v /\ q.last = Head(I).last => Made(p, q)
  PROVE  Waiting(Append(P, p), Tail(I), Q)
<1> DEFINE T == Append(P, p)
           J == Tail(I)
<1>1. /\ T \in Seq(VdsPkg) /\ Len(T) = Len(P) + 1 /\ T[Len(P) + 1] = p
      /\ \A k \in 1..Len(P) : T[k] = P[k]
  BY PushElements
<1>2. /\ J \in Seq(InputPkg) /\ Len(J) = Len(I) - 1 /\ Len(I) >= 1 /\ Head(I) = I[1]
      /\ \A k \in 1..Len(I) - 1 : J[k] = I[k + 1]
  BY PopElements
<1> HIDE DEF T, J
<1>3. Len(P) \in Nat /\ Len(I) \in Nat /\ Len(Q) \in Nat /\ Len(Q) = Len(P) + Len(I)
  BY DEF Waiting
<1>4. Made(p, Q[Len(P) + 1])
  <2>1. Len(P) + 1 \in 1..Len(Q) /\ 1 \in 1..Len(I)
    BY <1>2, <1>3
  <2>2. Q[Len(P) + 1] \in PendingPkg
    BY <2>1
  <2> QED
    BY <1>2, <2>1, <2>2 DEF Waiting
<1>5. \A k \in 1..Len(T) : Made(T[k], Q[k])
  <2> SUFFICES ASSUME NEW k \in 1..Len(T)
               PROVE  Made(T[k], Q[k])
    OBVIOUS
  <2>1. k \in 1..Len(P) \/ k = Len(P) + 1
    BY <1>1, <1>3
  <2> QED
    BY <1>1, <1>4, <2>1, Zenon DEF Waiting
<1>6. \A k \in 1..Len(J) : J[k].v = Q[Len(T) + k].vertex /\ J[k].last = Q[Len(T) + k].last
  <2> SUFFICES ASSUME NEW k \in 1..Len(J)
               PROVE  J[k].v = Q[Len(T) + k].vertex /\ J[k].last = Q[Len(T) + k].last
    OBVIOUS
  <2>1. J[k] = I[k + 1] /\ k + 1 \in 1..Len(I) /\ Len(T) + k = Len(P) + (k + 1)
    BY <1>1, <1>2, <1>3
  <2> QED
    BY <2>1 DEF Waiting
<1>7. Len(Q) = Len(T) + Len(J)
  BY <1>1, <1>2, <1>3
<1> QED
  BY <1>5, <1>6, <1>7 DEF Waiting, T, J

\* The oldest lookup is answered from the first packet.
LEMMA WaitingRead ==
  ASSUME NEW P \in Seq(VdsPkg), NEW I \in Seq(InputPkg), NEW Q \in Seq(PendingPkg),
         Waiting(P, I, Q), P # <<>>
  PROVE  Waiting(Tail(P), I, Tail(Q)) /\ Q # <<>> /\ Made(Head(P), Head(Q))
<1> DEFINE T == Tail(P)
           R == Tail(Q)
<1>1. /\ T \in Seq(VdsPkg) /\ Len(T) = Len(P) - 1 /\ Len(P) >= 1 /\ Head(P) = P[1]
      /\ \A k \in 1..Len(P) - 1 : T[k] = P[k + 1]
  BY PopElements
<1>2. Len(P) \in Nat /\ Len(I) \in Nat /\ Len(Q) \in Nat /\ Len(Q) = Len(P) + Len(I)
  BY DEF Waiting
<1>3. Q # <<>>
  BY <1>1, <1>2
<1>4. /\ R \in Seq(PendingPkg) /\ Len(R) = Len(Q) - 1 /\ Len(Q) >= 1 /\ Head(Q) = Q[1]
      /\ \A k \in 1..Len(Q) - 1 : R[k] = Q[k + 1]
  BY <1>3, PopElements
<1> HIDE DEF T, R
<1>5. \A k \in 1..Len(T) : Made(T[k], R[k])
  <2> SUFFICES ASSUME NEW k \in 1..Len(T)
               PROVE  Made(T[k], R[k])
    OBVIOUS
  <2>1. T[k] = P[k + 1] /\ R[k] = Q[k + 1] /\ k + 1 \in 1..Len(P)
    BY <1>1, <1>2, <1>4
  <2> QED
    BY <2>1, Zenon DEF Waiting
<1>6. \A k \in 1..Len(I) : I[k].v = R[Len(T) + k].vertex /\ I[k].last = R[Len(T) + k].last
  <2> SUFFICES ASSUME NEW k \in 1..Len(I)
               PROVE  I[k].v = R[Len(T) + k].vertex /\ I[k].last = R[Len(T) + k].last
    OBVIOUS
  <2>1. Len(T) + k \in 1..Len(Q) - 1 /\ (Len(T) + k) + 1 = Len(P) + k
    BY <1>1, <1>2
  <2>2. R[Len(T) + k] = Q[Len(P) + k]
    BY <1>4, <2>1
  <2> QED
    BY <2>2 DEF Waiting
<1>7. Len(R) = Len(T) + Len(I)
  BY <1>1, <1>2, <1>4
<1>8. Made(Head(P), Head(Q))
  BY <1>1, <1>2, <1>4 DEF Waiting
<1> QED
  BY <1>3, <1>5, <1>6, <1>7, <1>8 DEF Waiting, T, R

-----------------------------------------------------------------------------
(* The cache                                                                *)

\* A vertex has a slot.
LEMMA SlotType ==
  ASSUME NEW v \in Vertices
  PROVE  SlotOf(v) \in Slots /\ v # Dead /\ v # NoTag /\ v \in Nat
BY CacheAssumption DEF SlotOf, Slots, Dead, NoTag

\* What the cache knows of a vertex is right: the packet of a lookup carries
\* the descriptor on a hit and the vertex on a miss.
LEMMA LookupRight ==
  ASSUME CacheCoherent, NEW p \in InputPkg
  PROVE  /\ LookupPkg(p) \in VdsPkg
         /\ LookupPkg(p).invalid => p.v \in Vertices /\ LookupPkg(p).start = p.v
         /\ \A q \in PendingPkg :
               q.vertex = p.v /\ q.last = p.last => Made(LookupPkg(p), q)
<1>1. p.v \in Vertices \union {Dead} /\ p.last \in BOOLEAN
  BY DEF InputPkg
<1>2. CASE p.v = Dead
  <2>1. LookupPkg(p) = [start |-> Dead, size |-> 0, invalid |-> FALSE, last |-> p.last]
    BY <1>2 DEF LookupPkg
  <2> QED
    BY <1>1, <1>2, <2>1 DEF Made, Answers, VdsPkg
<1>3. CASE p.v # Dead
  <2>1. p.v \in Vertices /\ p.v \in Nat /\ SlotOf(p.v) \in Slots /\ p.v # NoTag
    BY <1>1, <1>3, SlotType
  <2>2. cache[SlotOf(p.v)] \in DescPkg
    BY <2>1 DEF CacheCoherent, TypeOK
  <2>3. /\ cache[SlotOf(p.v)].start \in Nat /\ cache[SlotOf(p.v)].size \in Nat
        /\ cache[SlotOf(p.v)] = [start |-> cache[SlotOf(p.v)].start,
                                 size |-> cache[SlotOf(p.v)].size]
    BY <2>2 DEF DescPkg
  <2>4. CASE Hit(p.v)
    <3>1. cache[SlotOf(p.v)] = Desc[p.v]
      BY <2>1, <2>4 DEF Hit, CacheCoherent
    <3>2. LookupPkg(p) = [start |-> cache[SlotOf(p.v)].start,
                          size |-> cache[SlotOf(p.v)].size,
                          invalid |-> FALSE, last |-> p.last]
      BY <1>3, <2>4 DEF LookupPkg
    <3> QED
      BY <1>1, <1>3, <2>3, <3>1, <3>2 DEF Made, Answers, VdsPkg
  <2>5. CASE ~Hit(p.v)
    <3>1. LookupPkg(p) = [start |-> p.v, size |-> cache[SlotOf(p.v)].size,
                          invalid |-> TRUE, last |-> p.last]
      BY <1>3, <2>5 DEF LookupPkg
    <3> QED
      BY <1>1, <1>3, <2>1, <2>3, <3>1 DEF Made, VdsPkg
  <2> QED
    BY <2>4, <2>5
<1> QED
  BY <1>2, <1>3

\* The chains are sequences of packets and of descriptors.
LEMMA ChainTypes ==
  ASSUME TypeOK, HalfInv
  PROVE  /\ ToVd \in Seq(VdsPkg) /\ ToUpdate \in Seq(VdsPkg)
         /\ DataVd \in Seq(DescPkg) /\ DataUpdate \in Seq(DescPkg)
         /\ vds[1] \in Seq(VdsPkg) /\ vds[2] \in Seq(VdsPkg)
         /\ dup[1] \in Seq(DescPkg) /\ dup[2] \in Seq(DescPkg)
         /\ output \in Seq(VdsPkg) /\ data \in Seq(DescPkg)
<1>1. /\ vds[1] \in Seq(VdsPkg) /\ vds[2] \in Seq(VdsPkg)
      /\ dup[1] \in Seq(DescPkg) /\ dup[2] \in Seq(DescPkg)
      /\ output \in Seq(VdsPkg) /\ data \in Seq(DescPkg)
  BY DEF TypeOK
<1>2. "vds" \in half => Tail(output) \in Seq(VdsPkg)
  BY <1>1, PopElements DEF HalfInv
<1>3. "data" \in half => Tail(data) \in Seq(DescPkg)
  BY <1>1, PopElements DEF HalfInv
<1>4. ToVd \in Seq(VdsPkg) /\ ToUpdate \in Seq(VdsPkg)
  BY <1>1, <1>2, ChainElements DEF ToVd, ToUpdate
<1>5. DataVd \in Seq(DescPkg) /\ DataUpdate \in Seq(DescPkg)
  BY <1>1, <1>3, ChainElements DEF DataVd, DataUpdate
<1> QED
  BY <1>1, <1>4, <1>5

\* The cache starts coherent and nothing is on its way.
LEMMA CacheInit == Init => CacheInv
<1> SUFFICES ASSUME Init PROVE CacheInv
  OBVIOUS
<1>1. TypeOK
  <2>1. tag \in [Slots -> Vertices \union {NoTag}] /\ cache \in [Slots -> DescPkg]
    BY DEF Init, EmptyTag, EmptyCache, Nothing, DescPkg
  <2> QED
    BY <2>1, CacheAssumption DEF Init, TypeOK
<1>2. CacheCoherent
  BY <1>1 DEF Init, CacheCoherent, EmptyTag
<1>3. HalfInv
  BY DEF Init, HalfInv
<1>4. ToVd = <<>> /\ ToUpdate = <<>> /\ DataVd = <<>> /\ DataUpdate = <<>>
  BY DEF Init, ToVd, ToUpdate, DataVd, DataUpdate
<1>5. Paired(<<>>, <<>>, <<>>) /\ Waiting(<<>>, <<>>, <<>>)
  BY DEF Paired, Waiting
<1> QED
  BY <1>2, <1>3, <1>4, <1>5 DEF CacheInv, Init

-----------------------------------------------------------------------------
(* One lemma per action: the inductive invariant is preserved               *)

\* What does not touch the streams or the cache preserves the invariant.
LEMMA StreamsSame ==
  ASSUME CacheInv, UNCHANGED <<output, data, half, vds, dup, vertex_cmd>>
  PROVE  /\ HalfInv' /\ ToVd' = ToVd
         /\ Paired(ToVd, DataVd, vertex_cmd)'
         /\ Paired(ToUpdate, DataUpdate, vertex_cmd)'
<1>1. ToVd' = ToVd /\ ToUpdate' = ToUpdate /\ DataVd' = DataVd /\ DataUpdate' = DataUpdate
  BY DEF ToVd, ToUpdate, DataVd, DataUpdate
<1>2. HalfInv'
  BY DEF CacheInv, HalfInv
<1> QED
  BY <1>1, <1>2 DEF CacheInv, Paired

\* Request asks for a vertex when the loader has taken the one before.
LEMMA RequestStep == CacheInv /\ Request => CacheInv'
<1> SUFFICES ASSUME CacheInv, Request PROVE CacheInv'
  OBVIOUS
<1> USE DEF feedVars, loaderVars, memVars, dupVars
<1>1. PICK v \in Vertices \union {Dead}, last \in BOOLEAN :
         /\ input' = <<[v |-> v, last |-> last]>>
         /\ pending' = Append(pending, [vertex |-> v, last |-> last])
  BY DEF Request
<1>2. TypeOK'
  <2>1. input' \in Seq(InputPkg)
    BY <1>1 DEF InputPkg
  <2>2. asked' \in 0..MaxReq
    BY CacheAssumption DEF CacheInv, CacheCoherent, TypeOK, Request
  <2> QED
    BY <2>1, <2>2 DEF Request, CacheInv, CacheCoherent, TypeOK, InputPkg
<1>3. CacheCoherent'
  BY <1>2 DEF Request, CacheInv, CacheCoherent
<1>4. pending' \in Seq(PendingPkg)
  <2>1. [vertex |-> v, last |-> last] \in PendingPkg
    BY DEF PendingPkg
  <2> QED
    BY <1>1, <2>1, PushElements DEF CacheInv
<1>5. /\ HalfInv' /\ ToVd' = ToVd
      /\ Paired(ToVd, DataVd, vertex_cmd)'
      /\ Paired(ToUpdate, DataUpdate, vertex_cmd)'
  BY StreamsSame DEF Request
<1>6. Waiting(ToVd, input, pending)'
  <2>1. ToVd \in Seq(VdsPkg) /\ pending \in Seq(PendingPkg)
    BY ChainTypes DEF CacheInv, CacheCoherent
  <2>2. Waiting(ToVd, <<>>, pending)
    BY DEF CacheInv, Request
  <2>3. Waiting(ToVd, <<[v |-> v, last |-> last]>>, Append(pending, [vertex |-> v, last |-> last]))
    BY <2>1, <2>2, WaitingAsk
  <2> QED
    BY <1>1, <1>5, <2>3
<1> QED
  BY <1>3, <1>4, <1>5, <1>6 DEF CacheInv

\* LoaderLookup sends a packet and a command for the vertex.
LEMMA LookupStep == CacheInv /\ LoaderLookup => CacheInv'
<1> SUFFICES ASSUME CacheInv, LoaderLookup PROVE CacheInv'
  OBVIOUS
<1> USE DEF feedVars, loaderVars, memVars, dupVars
<1> DEFINE p == Head(input)
           x == LookupPkg(p)
           c == [addr |-> p.v, last |-> p.last, dummy |-> ~x.invalid]
<1>1. TypeOK /\ CacheCoherent /\ HalfInv
  BY DEF CacheInv, CacheCoherent
<1>2. input \in Seq(InputPkg) /\ input # <<>> /\ vertex_cmd \in Seq(CmdPkg)
  BY <1>1 DEF TypeOK, LoaderLookup, InputPkg, CmdPkg
<1>3. p \in InputPkg /\ Tail(input) \in Seq(InputPkg)
  BY <1>2, PopElements
<1>4. /\ x \in VdsPkg
      /\ x.invalid => p.v \in Vertices /\ x.start = p.v
      /\ \A q \in PendingPkg : q.vertex = p.v /\ q.last = p.last => Made(x, q)
  BY <1>1, <1>3, LookupRight
<1>5. c \in CmdPkg /\ c.dummy = ~x.invalid /\ c.addr = p.v
  BY <1>3, <1>4 DEF CmdPkg, InputPkg, VdsPkg
<1>6. /\ vertex_cmd' = Append(vertex_cmd, c) /\ output' = Append(output, x)
      /\ input' = Tail(input)
      /\ UNCHANGED <<asked, tag, cache, mem_run, data, half, vds, dup,
                     cache_update, answer, pending>>
      /\ vl_pc' \in {"lookup", "update", "drain", "done"}
  BY DEF LoaderLookup
<1> HIDE DEF x, c, p
<1>7. /\ vertex_cmd' \in Seq(CmdPkg) /\ output' \in Seq(VdsPkg) /\ output' # <<>>
      /\ input' \in Seq(InputPkg)
  <2>1. output \in Seq(VdsPkg)
    BY <1>1 DEF TypeOK
  <2>2. /\ Append(output, x) \in Seq(VdsPkg) /\ Len(Append(output, x)) = Len(output) + 1
        /\ Append(vertex_cmd, c) \in Seq(CmdPkg)
    BY <1>2, <1>4, <1>5, <2>1
  <2>3. Append(output, x) # <<>>
    BY <2>1, <2>2
  <2> QED
    BY <1>3, <1>6, <2>2, <2>3
<1>8. CacheCoherent'
  <2>1. TypeOK'
    BY <1>1, <1>6, <1>7 DEF TypeOK, InputPkg, CmdPkg
  <2> QED
    BY <1>1, <1>6, <2>1 DEF CacheCoherent
<1>9. HalfInv'
  BY <1>1, <1>6, <1>7 DEF HalfInv
<1>10. /\ ToVd' = Append(ToVd, x) /\ ToUpdate' = Append(ToUpdate, x)
       /\ DataVd' = DataVd /\ DataUpdate' = DataUpdate
  <2>1. vds[1] \in Seq(VdsPkg) /\ vds[2] \in Seq(VdsPkg) /\ output \in Seq(VdsPkg)
    BY <1>1, ChainTypes
  <2> HIDE DEF feedVars, loaderVars, memVars, dupVars
  <2>0. \A a, b \in Seq(VdsPkg) : a \o Append(b, x) = Append(a \o b, x)
    <3>1. x \in VdsPkg
      BY <1>4
    <3> QED
      BY <3>1, PushChain
  <2>2. ASSUME "vds" \in half PROVE ToVd' = Append(ToVd, x)
    <3>1. output # <<>> /\ Tail(output) \in Seq(VdsPkg)
      BY <1>1, <2>1, <2>2, PopElements DEF HalfInv
    <3>2. Tail(Append(output, x)) = Append(Tail(output), x)
      BY <1>4, <2>1, <3>1
    <3>3. vds[1] \o Append(Tail(output), x) = Append(vds[1] \o Tail(output), x)
      BY <2>0, <2>1, <3>1
    <3> QED
      BY <1>6, <2>2, <3>2, <3>3 DEF ToVd
  <2>3. ASSUME "vds" \notin half PROVE ToVd' = Append(ToVd, x)
    <3>1. vds[1] \o Append(output, x) = Append(vds[1] \o output, x)
      BY <2>0, <2>1
    <3> QED
      BY <1>6, <2>3, <3>1 DEF ToVd
  <2>4. vds[2] \o Append(output, x) = Append(vds[2] \o output, x)
    BY <2>0, <2>1
  <2>5. ToUpdate' = Append(ToUpdate, x) /\ DataVd' = DataVd /\ DataUpdate' = DataUpdate
    BY <1>6, <2>4 DEF ToUpdate, DataVd, DataUpdate
  <2> QED
    BY <2>2, <2>3, <2>5
<1>11. /\ ToVd \in Seq(VdsPkg) /\ ToUpdate \in Seq(VdsPkg)
       /\ DataVd \in Seq(DescPkg) /\ DataUpdate \in Seq(DescPkg)
  BY <1>1, ChainTypes
<1>12. Paired(ToVd, DataVd, vertex_cmd)' /\ Paired(ToUpdate, DataUpdate, vertex_cmd)'
  <2>1. Paired(ToVd, DataVd, vertex_cmd) /\ Paired(ToUpdate, DataUpdate, vertex_cmd)
    BY DEF CacheInv
  <2>2. Paired(Append(ToVd, x), DataVd, Append(vertex_cmd, c))
    BY <1>2, <1>4, <1>5, <1>11, <2>1, PairedAsk
  <2>3. Paired(Append(ToUpdate, x), DataUpdate, Append(vertex_cmd, c))
    BY <1>2, <1>4, <1>5, <1>11, <2>1, PairedAsk
  <2> QED
    BY <1>6, <1>10, <2>2, <2>3
<1>13. pending' \in Seq(PendingPkg) /\ Waiting(ToVd, input, pending)'
  <2>1. pending \in Seq(PendingPkg) /\ Waiting(ToVd, input, pending)
    BY DEF CacheInv
  <2>2. Waiting(Append(ToVd, x), Tail(input), pending)
    BY <1>2, <1>4, <1>11, <2>1, WaitingLookup DEF p
  <2> QED
    BY <1>6, <1>10, <2>1, <2>2
<1> QED
  BY <1>8, <1>9, <1>12, <1>13 DEF CacheInv

\* LoaderUpdate writes an entry that is right, at the slot of its vertex.
LEMMA UpdateStep == CacheInv /\ LoaderUpdate => CacheInv'
<1> SUFFICES ASSUME CacheInv, LoaderUpdate PROVE CacheInv'
  OBVIOUS
<1> USE DEF feedVars, loaderVars, memVars, dupVars
<1> DEFINE u == Head(cache_update)
<1>1. /\ cache_update # <<>> /\ cache_update' = Tail(cache_update)
      /\ tag' = [tag EXCEPT ![SlotOf(u.v)] = u.v]
      /\ cache' = [cache EXCEPT ![SlotOf(u.v)] = [start |-> u.start, size |-> u.size]]
      /\ vl_pc' = "lookup"
      /\ UNCHANGED <<asked, input, vertex_cmd, mem_run, output, data, half, vds, dup,
                     answer, pending>>
  BY DEF LoaderUpdate
<1>2. TypeOK /\ CacheCoherent
  BY DEF CacheInv, CacheCoherent
<1>3. /\ u \in UpdatePkgs /\ u = cache_update[1] /\ Tail(cache_update) \in Seq(UpdatePkgs)
      /\ Len(cache_update) >= 1 /\ Len(Tail(cache_update)) = Len(cache_update) - 1
      /\ \A i \in 1 .. Len(cache_update) - 1 : Tail(cache_update)[i] = cache_update[i + 1]
  <2>1. cache_update \in Seq(UpdatePkgs)
    BY <1>2 DEF TypeOK
  <2> QED
    BY <1>1, <2>1, PopElements
<1>4. Len(cache_update) \in Nat
  BY <1>2 DEF TypeOK
<1> HIDE DEF u
<1>5. Desc[u.v] = [start |-> u.start, size |-> u.size]
  BY <1>2, <1>3, <1>4 DEF CacheCoherent
<1>6. u.v \in Vertices /\ u.start \in Nat /\ u.size \in Nat
  BY <1>3 DEF UpdatePkgs
<1>7. SlotOf(u.v) \in Slots
  BY <1>6, SlotType
<1>8. TypeOK'
  <2>1. tag' \in [Slots -> Vertices \union {NoTag}]
    BY <1>1, <1>2, <1>6, <1>7 DEF TypeOK
  <2>2. cache' \in [Slots -> DescPkg]
    BY <1>1, <1>2, <1>6, <1>7 DEF TypeOK, DescPkg
  <2> QED
    BY <1>1, <1>2, <1>3, <2>1, <2>2 DEF TypeOK
<1>9. ASSUME NEW s \in Slots, tag'[s] # NoTag
      PROVE  SlotOf(tag'[s]) = s /\ cache'[s] = Desc[tag'[s]]
  <2>1. CASE s = SlotOf(u.v)
    <3>1. tag'[s] = u.v /\ cache'[s] = [start |-> u.start, size |-> u.size]
      BY <1>1, <1>2, <2>1 DEF TypeOK
    <3> QED
      BY <1>5, <2>1, <3>1
  <2>2. CASE s # SlotOf(u.v)
    <3>1. tag'[s] = tag[s] /\ cache'[s] = cache[s]
      BY <1>1, <1>2, <2>2 DEF TypeOK
    <3> QED
      BY <1>2, <1>9, <3>1 DEF CacheCoherent
  <2> QED
    BY <2>1, <2>2
<1>10. ASSUME NEW i \in 1..Len(cache_update')
       PROVE  Desc[cache_update'[i].v] = [start |-> cache_update'[i].start,
                                          size |-> cache_update'[i].size]
  <2>1. cache_update'[i] = cache_update[i + 1] /\ i + 1 \in 1..Len(cache_update)
    BY <1>1, <1>3, <1>4
  <2> QED
    BY <1>2, <2>1 DEF CacheCoherent
<1>11. CacheCoherent'
  BY <1>8, <1>9, <1>10 DEF CacheCoherent, SlotOf, Slots
<1>12. /\ HalfInv' /\ ToVd' = ToVd
       /\ Paired(ToVd, DataVd, vertex_cmd)' /\ Paired(ToUpdate, DataUpdate, vertex_cmd)'
  BY <1>1, StreamsSame
<1> QED
  BY <1>1, <1>11, <1>12 DEF CacheInv

\* The loader's other steps only move on or throw an update away, and a new
\* run starts with an empty cache.
LEMMA LoaderRest ==
  CacheInv /\ (LoaderNoUpdate \/ LoaderDrain \/ LoaderReturn \/ Restart) => CacheInv'
<1> SUFFICES ASSUME CacheInv, LoaderNoUpdate \/ LoaderDrain \/ LoaderReturn \/ Restart
             PROVE  CacheInv'
  OBVIOUS
<1> USE DEF feedVars, loaderVars, memVars, dupVars
<1>1. TypeOK /\ CacheCoherent
  BY DEF CacheInv, CacheCoherent
<1>2. UNCHANGED <<asked, input, vertex_cmd, output, data, half, vds, dup, pending>>
  BY DEF LoaderNoUpdate, LoaderDrain, LoaderReturn, Restart
<1>3. /\ HalfInv' /\ ToVd' = ToVd
      /\ Paired(ToVd, DataVd, vertex_cmd)' /\ Paired(ToUpdate, DataUpdate, vertex_cmd)'
  BY <1>2, StreamsSame
<1>4. CASE LoaderNoUpdate \/ LoaderReturn
  <2>1. TypeOK'
    BY <1>1, <1>4 DEF LoaderNoUpdate, LoaderReturn, TypeOK
  <2> QED
    BY <1>1, <1>2, <1>3, <1>4, <2>1 DEF LoaderNoUpdate, LoaderReturn, CacheInv, CacheCoherent
<1>5. CASE Restart
  <2>1. tag' = EmptyTag /\ cache' = EmptyCache
    BY <1>5 DEF Restart
  <2>2. tag' \in [Slots -> Vertices \union {NoTag}] /\ cache' \in [Slots -> DescPkg]
    BY <2>1 DEF EmptyTag, EmptyCache, Nothing, DescPkg
  <2>3. TypeOK'
    BY <1>1, <1>5, <2>2 DEF Restart, TypeOK
  <2>4. \A s \in Slots : tag'[s] = NoTag
    BY <2>1 DEF EmptyTag
  <2>5. CacheCoherent'
    BY <1>1, <1>5, <2>3, <2>4 DEF CacheCoherent, Restart, Slots
  <2> QED
    BY <1>2, <1>3, <2>5 DEF CacheInv
<1>6. CASE LoaderDrain
  <2>1. cache_update # <<>> /\ cache_update' = Tail(cache_update)
    BY <1>6 DEF LoaderDrain
  <2>2. /\ Tail(cache_update) \in Seq(UpdatePkgs)
        /\ Len(Tail(cache_update)) = Len(cache_update) - 1
        /\ \A i \in 1 .. Len(cache_update) - 1 : Tail(cache_update)[i] = cache_update[i + 1]
    BY <1>1, <2>1, PopElements DEF TypeOK
  <2>3. Len(cache_update) \in Nat
    BY <1>1 DEF TypeOK
  <2>4. TypeOK'
    BY <1>1, <1>6, <2>1, <2>2 DEF LoaderDrain, TypeOK
  <2>5. ASSUME NEW i \in 1..Len(cache_update')
        PROVE  Desc[cache_update'[i].v] = [start |-> cache_update'[i].start,
                                           size |-> cache_update'[i].size]
    <3>1. cache_update'[i] = cache_update[i + 1] /\ i + 1 \in 1..Len(cache_update)
      BY <2>1, <2>2, <2>3
    <3> QED
      BY <1>1, <3>1 DEF CacheCoherent
  <2>6. CacheCoherent'
    BY <1>1, <1>6, <2>4, <2>5 DEF CacheCoherent, LoaderDrain
  <2> QED
    BY <1>2, <1>3, <2>6 DEF CacheInv
<1> QED
  BY <1>4, <1>5, <1>6

\* vcache_mem answers the oldest command.
LEMMA MemStep == CacheInv /\ VcacheMem => CacheInv'
<1> SUFFICES ASSUME CacheInv, VcacheMem PROVE CacheInv'
  OBVIOUS
<1> USE DEF feedVars, loaderVars, memVars, dupVars
<1> DEFINE c == Head(vertex_cmd)
           d == IF c.dummy THEN Nothing ELSE Desc[c.addr]
<1>1. TypeOK /\ CacheCoherent /\ HalfInv
  BY DEF CacheInv, CacheCoherent
<1>2. vertex_cmd \in Seq(CmdPkg) /\ vertex_cmd # <<>>
  BY <1>1 DEF VcacheMem, TypeOK, CmdPkg
<1>3. c \in CmdPkg /\ Tail(vertex_cmd) \in Seq(CmdPkg)
  BY <1>2, PopElements
<1>4. /\ data' = Append(data, d) /\ mem_run' = ~c.last /\ vertex_cmd' = Tail(vertex_cmd)
      /\ UNCHANGED <<asked, input, vl_pc, tag, cache, output, half, vds, dup,
                     cache_update, answer, pending>>
  BY DEF VcacheMem
<1>5. /\ ToVd \in Seq(VdsPkg) /\ ToUpdate \in Seq(VdsPkg)
      /\ DataVd \in Seq(DescPkg) /\ DataUpdate \in Seq(DescPkg)
      /\ dup[1] \in Seq(DescPkg) /\ dup[2] \in Seq(DescPkg) /\ data \in Seq(DescPkg)
  BY <1>1, ChainTypes
<1>6. d \in DescPkg
  <2>1. CASE c.dummy
    BY <2>1 DEF Nothing, DescPkg
  <2>2. CASE ~c.dummy
    <3>1. Paired(ToVd, DataVd, vertex_cmd)
      BY DEF CacheInv
    <3>2. Len(vertex_cmd) >= 1 /\ Len(vertex_cmd) \in Nat /\ c = vertex_cmd[1]
      BY <1>2, PopElements
    <3>3. 1 \in 1..Len(vertex_cmd)
      BY <3>2
    <3>4. /\ c.dummy = ~ToVd[Len(DataVd) + 1].invalid
          /\ ToVd[Len(DataVd) + 1].invalid => c.addr = ToVd[Len(DataVd) + 1].start
      BY <3>1, <3>2, <3>3, Zenon DEF Paired
    <3>5. Len(DataVd) + 1 \in 1..Len(ToVd)
      BY <1>5, <3>1, <3>2 DEF Paired
    <3>6. c.addr \in Vertices
      BY <2>2, <3>1, <3>4, <3>5, Zenon DEF Paired
    <3> QED
      BY <2>2, <3>6, CacheAssumption DEF DescPkg
  <2> QED
    BY <2>1, <2>2
<1>7. ~Head(vertex_cmd).dummy => d = Desc[Head(vertex_cmd).addr]
  OBVIOUS
<1> HIDE DEF d
<1>8. Append(data, d) \in Seq(DescPkg) /\ Append(data, d) # <<>>
  <2>1. data \in Seq(DescPkg)
    BY <1>5
  <2>2. Append(data, d) \in Seq(DescPkg) /\ Len(Append(data, d)) = Len(data) + 1
    BY <1>6, <2>1
  <2>3. Append(data, d) # <<>>
    BY <1>6, <2>1, AppendProperties
  <2> QED
    BY <2>2, <2>3
<1>9. CacheCoherent'
  <2>1. mem_run' \in BOOLEAN
    BY <1>4
  <2>2. TypeOK'
    BY <1>1, <1>3, <1>4, <1>8, <2>1 DEF TypeOK, CmdPkg
  <2> QED
    BY <1>1, <1>4, <2>2 DEF CacheCoherent
<1>10. HalfInv'
  BY <1>1, <1>4, <1>8 DEF HalfInv
<1>11. ToVd' = ToVd /\ ToUpdate' = ToUpdate
  BY <1>4 DEF ToVd, ToUpdate
<1>12. \A a, b \in Seq(DescPkg) : a \o Append(b, d) = Append(a \o b, d)
  BY <1>6, PushChain
<1>13. DataUpdate' = Append(DataUpdate, d)
  <2>1. dup[2] \o Append(data, d) = Append(dup[2] \o data, d)
    BY <1>5, <1>12
  <2> QED
    BY <1>4, <2>1 DEF DataUpdate
<1>14. DataVd' = Append(DataVd, d)
  <2>1. ASSUME "data" \in half PROVE DataVd' = Append(DataVd, d)
    <3>1. data # <<>> /\ Tail(data) \in Seq(DescPkg)
      BY <1>1, <1>5, <2>1, PopElements DEF HalfInv
    <3>2. Tail(Append(data, d)) = Append(Tail(data), d)
      BY <1>5, <1>6, <3>1
    <3>3. dup[1] \o Append(Tail(data), d) = Append(dup[1] \o Tail(data), d)
      BY <1>5, <1>12, <3>1
    <3> QED
      BY <1>4, <2>1, <3>2, <3>3 DEF DataVd
  <2>2. ASSUME "data" \notin half PROVE DataVd' = Append(DataVd, d)
    <3>1. dup[1] \o Append(data, d) = Append(dup[1] \o data, d)
      BY <1>5, <1>12
    <3> QED
      BY <1>4, <2>2, <3>1 DEF DataVd
  <2> QED
    BY <2>1, <2>2
<1>15. Paired(ToVd, DataVd, vertex_cmd)' /\ Paired(ToUpdate, DataUpdate, vertex_cmd)'
  <2>1. Paired(ToVd, DataVd, vertex_cmd) /\ Paired(ToUpdate, DataUpdate, vertex_cmd)
    BY DEF CacheInv
  <2>2. Paired(ToVd, Append(DataVd, d), Tail(vertex_cmd))
    BY <1>2, <1>5, <1>6, <1>7, <2>1, PairedReply
  <2>3. Paired(ToUpdate, Append(DataUpdate, d), Tail(vertex_cmd))
    BY <1>2, <1>5, <1>6, <1>7, <2>1, PairedReply
  <2> QED
    BY <1>4, <1>11, <1>13, <1>14, <2>2, <2>3
<1> QED
  BY <1>4, <1>9, <1>10, <1>11, <1>15 DEF CacheInv

\* vcache_duplicate hands the head of a stream on: to out1 first, where the
\* packet joins the way to vcache_vd, and then to out2.
LEMMA DuplicateStep ==
  ASSUME CacheInv, NEW i \in 1..2, DuplicateVds(i) \/ DuplicateData(i)
  PROVE  CacheInv'
<1> USE DEF feedVars, loaderVars, memVars, dupVars
<1>1. TypeOK /\ CacheCoherent /\ HalfInv
  BY DEF CacheInv, CacheCoherent
<1>2. /\ vds[1] \in Seq(VdsPkg) /\ vds[2] \in Seq(VdsPkg)
      /\ dup[1] \in Seq(DescPkg) /\ dup[2] \in Seq(DescPkg)
      /\ output \in Seq(VdsPkg) /\ data \in Seq(DescPkg)
  BY <1>1, ChainTypes
<1>3. /\ TypeOK' /\ HalfInv'
      /\ ToVd' = ToVd /\ ToUpdate' = ToUpdate
      /\ DataVd' = DataVd /\ DataUpdate' = DataUpdate
  <2>1. CASE DuplicateVds(1)
    <3>1. /\ output # <<>> /\ "vds" \notin half /\ half' = half \union {"vds"}
          /\ vds' = [vds EXCEPT ![1] = Append(@, Head(output))]
          /\ UNCHANGED <<output, data, dup>>
      BY <2>1 DEF DuplicateVds
    <3>2. Head(output) \in VdsPkg /\ Tail(output) \in Seq(VdsPkg)
      BY <1>2, <3>1, PopElements
    <3>3. /\ vds' \in [1..2 -> Seq(VdsPkg)] /\ vds'[1] = Append(vds[1], Head(output))
          /\ vds'[2] = vds[2]
      BY <1>1, <1>2, <3>1, <3>2, SMTT(30) DEF TypeOK
    <3>4. Append(vds[1], Head(output)) \o Tail(output) = vds[1] \o output
      BY <1>2, <3>1, MoveHead
    <3>5. "vds" \in half' /\ ("data" \in half' <=> "data" \in half)
      BY <3>1
    <3>6. ToVd' = ToVd
      BY <3>1, <3>3, <3>4, <3>5 DEF ToVd
    <3>7. ToUpdate' = ToUpdate /\ DataVd' = DataVd /\ DataUpdate' = DataUpdate
      BY <3>1, <3>3, <3>5 DEF ToUpdate, DataVd, DataUpdate
    <3>8. TypeOK'
      BY <1>1, <2>1, <3>1, <3>3 DEF DuplicateVds, TypeOK
    <3>9. HalfInv'
      BY <1>1, <3>1, <3>5 DEF HalfInv
    <3> QED
      BY <3>6, <3>7, <3>8, <3>9
  <2>2. CASE DuplicateVds(2)
    <3>1. /\ output # <<>> /\ "vds" \in half /\ half' = half \ {"vds"}
          /\ vds' = [vds EXCEPT ![2] = Append(@, Head(output))]
          /\ output' = Tail(output) /\ UNCHANGED <<data, dup>>
      BY <2>2 DEF DuplicateVds
    <3>2. Head(output) \in VdsPkg /\ Tail(output) \in Seq(VdsPkg)
      BY <1>2, <3>1, PopElements
    <3>3. /\ vds' \in [1..2 -> Seq(VdsPkg)] /\ vds'[2] = Append(vds[2], Head(output))
          /\ vds'[1] = vds[1]
      BY <1>1, <1>2, <3>1, <3>2, SMTT(30) DEF TypeOK
    <3>4. Append(vds[2], Head(output)) \o Tail(output) = vds[2] \o output
      BY <1>2, <3>1, MoveHead
    <3>5. "vds" \notin half' /\ ("data" \in half' <=> "data" \in half)
      BY <3>1
    <3>6. ToUpdate' = ToUpdate
      BY <3>1, <3>3, <3>4 DEF ToUpdate
    <3>7. ToVd' = ToVd /\ DataVd' = DataVd /\ DataUpdate' = DataUpdate
      BY <3>1, <3>3, <3>5 DEF ToVd, DataVd, DataUpdate
    <3>8. TypeOK'
      BY <1>1, <2>2, <3>1, <3>2, <3>3 DEF DuplicateVds, TypeOK
    <3>9. HalfInv'
      BY <1>1, <3>1, <3>5 DEF HalfInv
    <3> QED
      BY <3>6, <3>7, <3>8, <3>9
  <2>3. CASE DuplicateData(1)
    <3>1. /\ data # <<>> /\ "data" \notin half /\ half' = half \union {"data"}
          /\ dup' = [dup EXCEPT ![1] = Append(@, Head(data))]
          /\ UNCHANGED <<output, data, vds>>
      BY <2>3 DEF DuplicateData
    <3>2. Head(data) \in DescPkg /\ Tail(data) \in Seq(DescPkg)
      BY <1>2, <3>1, PopElements
    <3>3. /\ dup' \in [1..2 -> Seq(DescPkg)] /\ dup'[1] = Append(dup[1], Head(data))
          /\ dup'[2] = dup[2]
      BY <1>1, <1>2, <3>1, <3>2, SMTT(30) DEF TypeOK
    <3>4. Append(dup[1], Head(data)) \o Tail(data) = dup[1] \o data
      BY <1>2, <3>1, MoveHead
    <3>5. "data" \in half' /\ ("vds" \in half' <=> "vds" \in half)
      BY <3>1
    <3>6. DataVd' = DataVd
      BY <3>1, <3>3, <3>4, <3>5 DEF DataVd
    <3>7. ToUpdate' = ToUpdate /\ ToVd' = ToVd /\ DataUpdate' = DataUpdate
      BY <3>1, <3>3, <3>5 DEF ToUpdate, ToVd, DataUpdate
    <3>8. TypeOK'
      BY <1>1, <2>3, <3>1, <3>3 DEF DuplicateData, TypeOK
    <3>9. HalfInv'
      BY <1>1, <3>1, <3>5 DEF HalfInv
    <3> QED
      BY <3>6, <3>7, <3>8, <3>9
  <2>4. CASE DuplicateData(2)
    <3>1. /\ data # <<>> /\ "data" \in half /\ half' = half \ {"data"}
          /\ dup' = [dup EXCEPT ![2] = Append(@, Head(data))]
          /\ data' = Tail(data) /\ UNCHANGED <<output, vds>>
      BY <2>4 DEF DuplicateData
    <3>2. Head(data) \in DescPkg /\ Tail(data) \in Seq(DescPkg)
      BY <1>2, <3>1, PopElements
    <3>3. /\ dup' \in [1..2 -> Seq(DescPkg)] /\ dup'[2] = Append(dup[2], Head(data))
          /\ dup'[1] = dup[1]
      BY <1>1, <1>2, <3>1, <3>2, SMTT(30) DEF TypeOK
    <3>4. Append(dup[2], Head(data)) \o Tail(data) = dup[2] \o data
      BY <1>2, <3>1, MoveHead
    <3>5. "data" \notin half' /\ ("vds" \in half' <=> "vds" \in half)
      BY <3>1
    <3>6. DataUpdate' = DataUpdate
      BY <3>1, <3>3, <3>4 DEF DataUpdate
    <3>7. ToVd' = ToVd /\ DataVd' = DataVd /\ ToUpdate' = ToUpdate
      BY <3>1, <3>3, <3>5 DEF ToVd, DataVd, ToUpdate
    <3>8. TypeOK'
      BY <1>1, <2>4, <3>1, <3>2, <3>3 DEF DuplicateData, TypeOK
    <3>9. HalfInv'
      BY <1>1, <3>1, <3>5 DEF HalfInv
    <3> QED
      BY <3>6, <3>7, <3>8, <3>9
  <2>5. i = 1 \/ i = 2
    OBVIOUS
  <2> QED
    BY <2>1, <2>2, <2>3, <2>4, <2>5
<1>4. UNCHANGED <<tag, cache, cache_update, vertex_cmd, input, pending>>
  BY DEF DuplicateVds, DuplicateData
<1>5. CacheCoherent'
  BY <1>1, <1>3, <1>4 DEF CacheCoherent
<1> QED
  BY <1>3, <1>4, <1>5 DEF CacheInv

\* vcache_vd answers the oldest lookup, with the descriptor of its vertex.
LEMMA VdStep ==
  ASSUME CacheInv, VcacheVd
  PROVE  CacheInv' /\ Service!Answer
<1> USE DEF feedVars, loaderVars, memVars, dupVars
<1> DEFINE p == Head(vds[1])
           d == Head(dup[1])
<1>1. TypeOK /\ CacheCoherent /\ HalfInv
  BY DEF CacheInv, CacheCoherent
<1>2. /\ ToVd \in Seq(VdsPkg) /\ ToUpdate \in Seq(VdsPkg)
      /\ DataVd \in Seq(DescPkg) /\ DataUpdate \in Seq(DescPkg)
      /\ vds[1] \in Seq(VdsPkg) /\ dup[1] \in Seq(DescPkg)
      /\ output \in Seq(VdsPkg) /\ data \in Seq(DescPkg)
  BY <1>1, ChainTypes
<1>3. /\ vds[1] # <<>> /\ dup[1] # <<>>
      /\ vds' = [vds EXCEPT ![1] = Tail(@)] /\ dup' = [dup EXCEPT ![1] = Tail(@)]
      /\ answer' = [to |-> IF p.invalid THEN d ELSE [start |-> p.start, size |-> p.size],
                    last |-> p.last]
      /\ pending' = Tail(pending)
      /\ UNCHANGED <<asked, input, vl_pc, tag, cache, vertex_cmd, mem_run, output, data,
                     half, cache_update>>
  BY DEF VcacheVd
<1>4. Tail(vds[1]) \in Seq(VdsPkg) /\ Tail(dup[1]) \in Seq(DescPkg)
  BY <1>2, <1>3, PopElements
<1>5. /\ vds' \in [1..2 -> Seq(VdsPkg)] /\ vds'[1] = Tail(vds[1]) /\ vds'[2] = vds[2]
      /\ dup' \in [1..2 -> Seq(DescPkg)] /\ dup'[1] = Tail(dup[1]) /\ dup'[2] = dup[2]
  BY <1>1, <1>3, <1>4, SMTT(30) DEF TypeOK
<1>6. CacheCoherent' /\ HalfInv'
  <2>1. TypeOK'
    BY <1>1, <1>3, <1>5 DEF TypeOK
  <2> QED
    BY <1>1, <1>3, <2>1 DEF CacheCoherent, HalfInv
<1>7. ToVd' = Tail(ToVd) /\ Head(ToVd) = p /\ ToVd # <<>>
  <2> DEFINE o == IF "vds" \in half THEN Tail(output) ELSE output
  <2>1. o \in Seq(VdsPkg)
    BY <1>1, <1>2, PopElements DEF HalfInv
  <2>2. ToVd = vds[1] \o o /\ ToVd' = Tail(vds[1]) \o o
    BY <1>3, <1>5 DEF ToVd
  <2> HIDE DEF o
  <2>3. Tail(vds[1]) \o o = Tail(vds[1] \o o) /\ Head(vds[1] \o o) = Head(vds[1])
    BY <1>2, <1>3, <2>1, PopChain
  <2>4. vds[1] \o o # <<>>
    BY <1>2, <1>3, <2>1
  <2> QED
    BY <2>2, <2>3, <2>4
<1>8. DataVd' = Tail(DataVd) /\ Head(DataVd) = d /\ DataVd # <<>>
  <2> DEFINE o == IF "data" \in half THEN Tail(data) ELSE data
  <2>1. o \in Seq(DescPkg)
    BY <1>1, <1>2, PopElements DEF HalfInv
  <2>2. DataVd = dup[1] \o o /\ DataVd' = Tail(dup[1]) \o o
    BY <1>3, <1>5 DEF DataVd
  <2> HIDE DEF o
  <2>3. Tail(dup[1]) \o o = Tail(dup[1] \o o) /\ Head(dup[1] \o o) = Head(dup[1])
    BY <1>2, <1>3, <2>1, PopChain
  <2>4. dup[1] \o o # <<>>
    BY <1>2, <1>3, <2>1
  <2> QED
    BY <2>2, <2>3, <2>4
<1>9. ToUpdate' = ToUpdate /\ DataUpdate' = DataUpdate
  BY <1>3, <1>5 DEF ToUpdate, DataUpdate
<1>10. /\ Paired(ToVd, DataVd, vertex_cmd) /\ Paired(ToUpdate, DataUpdate, vertex_cmd)
       /\ vertex_cmd \in Seq(CmdPkg) /\ input \in Seq(InputPkg)
       /\ pending \in Seq(PendingPkg) /\ Waiting(ToVd, input, pending)
  BY <1>1 DEF CacheInv, TypeOK, CmdPkg, InputPkg
<1> HIDE DEF p, d
<1>11. /\ Paired(Tail(ToVd), Tail(DataVd), vertex_cmd)
       /\ p.invalid => p.start \in Vertices /\ d = Desc[p.start]
  BY <1>2, <1>7, <1>8, <1>10, PairedRead
<1>12. Waiting(Tail(ToVd), input, Tail(pending)) /\ pending # <<>> /\ Made(p, Head(pending))
  BY <1>2, <1>7, <1>10, WaitingRead
<1>13. Tail(pending) \in Seq(PendingPkg)
  BY <1>10, <1>12, PopElements
<1>14. CacheInv'
  <2>1. Paired(ToVd, DataVd, vertex_cmd)' /\ Paired(ToUpdate, DataUpdate, vertex_cmd)'
    BY <1>3, <1>7, <1>8, <1>9, <1>10, <1>11
  <2>2. pending' \in Seq(PendingPkg) /\ Waiting(ToVd, input, pending)'
    BY <1>3, <1>7, <1>12, <1>13
  <2> QED
    BY <1>6, <2>1, <2>2 DEF CacheInv
<1>15. Service!Answer
  <2> DEFINE to == IF p.invalid THEN d ELSE [start |-> p.start, size |-> p.size]
  <2>1. p.last = Head(pending).last
    BY <1>12 DEF Made
  <2>2. to \in Answers(Head(pending).vertex)
    <3>1. CASE p.invalid
      BY <1>11, <1>12, <3>1 DEF Made, Answers
    <3>2. CASE ~p.invalid
      BY <1>12, <3>2 DEF Made
    <3> QED
      BY <3>1, <3>2
  <2>3. answer' = [to |-> to, last |-> Head(pending).last]
    BY <1>3, <2>1
  <2> HIDE DEF to
  <2> QED
    BY <1>3, <1>12, <2>2, <2>3 DEF Service!Answer
<1> QED
  BY <1>14, <1>15

\* vcache_update sends a descriptor back with the vertex it belongs to.
LEMMA SendUpdateStep == CacheInv /\ VcacheUpdate => CacheInv'
<1> SUFFICES ASSUME CacheInv, VcacheUpdate PROVE CacheInv'
  OBVIOUS
<1> USE DEF feedVars, loaderVars, memVars, dupVars
<1> DEFINE p == Head(vds[2])
           d == Head(dup[2])
           u == UpdatePkg(p, d)
<1>1. TypeOK /\ CacheCoherent /\ HalfInv
  BY DEF CacheInv, CacheCoherent
<1>2. /\ ToVd \in Seq(VdsPkg) /\ ToUpdate \in Seq(VdsPkg)
      /\ DataVd \in Seq(DescPkg) /\ DataUpdate \in Seq(DescPkg)
      /\ vds[2] \in Seq(VdsPkg) /\ dup[2] \in Seq(DescPkg)
      /\ output \in Seq(VdsPkg) /\ data \in Seq(DescPkg)
  BY <1>1, ChainTypes
<1>3. /\ vds[2] # <<>> /\ dup[2] # <<>>
      /\ vds' = [vds EXCEPT ![2] = Tail(@)] /\ dup' = [dup EXCEPT ![2] = Tail(@)]
      /\ (p.invalid /\ cache_update' = Append(cache_update, u)) \/ UNCHANGED cache_update
      /\ UNCHANGED <<asked, input, vl_pc, tag, cache, vertex_cmd, mem_run, output, data,
                     half, answer, pending>>
  BY DEF VcacheUpdate
<1>4. /\ Tail(vds[2]) \in Seq(VdsPkg) /\ Tail(dup[2]) \in Seq(DescPkg)
      /\ p \in VdsPkg /\ d \in DescPkg
  BY <1>2, <1>3, PopElements
<1>5. /\ vds' \in [1..2 -> Seq(VdsPkg)] /\ vds'[2] = Tail(vds[2]) /\ vds'[1] = vds[1]
      /\ dup' \in [1..2 -> Seq(DescPkg)] /\ dup'[2] = Tail(dup[2]) /\ dup'[1] = dup[1]
  BY <1>1, <1>3, <1>4, SMTT(30) DEF TypeOK
<1>6. ToUpdate' = Tail(ToUpdate) /\ Head(ToUpdate) = p /\ ToUpdate # <<>>
  <2>1. ToUpdate = vds[2] \o output /\ ToUpdate' = Tail(vds[2]) \o output
    BY <1>3, <1>5 DEF ToUpdate
  <2>2. Tail(vds[2]) \o output = Tail(vds[2] \o output) /\ Head(vds[2] \o output) = Head(vds[2])
    BY <1>2, <1>3, PopChain
  <2>3. vds[2] \o output # <<>>
    BY <1>2, <1>3
  <2> QED
    BY <2>1, <2>2, <2>3
<1>7. DataUpdate' = Tail(DataUpdate) /\ Head(DataUpdate) = d /\ DataUpdate # <<>>
  <2>1. DataUpdate = dup[2] \o data /\ DataUpdate' = Tail(dup[2]) \o data
    BY <1>3, <1>5 DEF DataUpdate
  <2>2. Tail(dup[2]) \o data = Tail(dup[2] \o data) /\ Head(dup[2] \o data) = Head(dup[2])
    BY <1>2, <1>3, PopChain
  <2>3. dup[2] \o data # <<>>
    BY <1>2, <1>3
  <2> QED
    BY <2>1, <2>2, <2>3
<1>8. ToVd' = ToVd /\ DataVd' = DataVd
  BY <1>3, <1>5 DEF ToVd, DataVd
<1>9. /\ Paired(ToVd, DataVd, vertex_cmd) /\ Paired(ToUpdate, DataUpdate, vertex_cmd)
      /\ vertex_cmd \in Seq(CmdPkg)
  BY <1>1 DEF CacheInv, TypeOK, CmdPkg
<1> HIDE DEF p, d
<1>10. /\ Paired(Tail(ToUpdate), Tail(DataUpdate), vertex_cmd)
       /\ p.invalid => p.start \in Vertices /\ d = Desc[p.start]
  BY <1>2, <1>6, <1>7, <1>9, PairedRead
<1>11. p.invalid => /\ u \in UpdatePkgs
                    /\ Desc[u.v] = [start |-> u.start, size |-> u.size]
  BY <1>4, <1>10 DEF UpdatePkg, UpdatePkgs, DescPkg
<1> HIDE DEF u
<1>12. /\ cache_update' \in Seq(UpdatePkgs)
       /\ \A k \in 1..Len(cache_update') :
             Desc[cache_update'[k].v] = [start |-> cache_update'[k].start,
                                         size |-> cache_update'[k].size]
  <2>1. /\ cache_update \in Seq(UpdatePkgs) /\ Len(cache_update) \in Nat
        /\ \A k \in 1..Len(cache_update) :
             Desc[cache_update[k].v] = [start |-> cache_update[k].start,
                                        size |-> cache_update[k].size]
    BY <1>1 DEF CacheCoherent, TypeOK
  <2>2. CASE p.invalid /\ cache_update' = Append(cache_update, u)
    <3>1. /\ cache_update' \in Seq(UpdatePkgs) /\ Len(cache_update') = Len(cache_update) + 1
          /\ \A k \in 1..Len(cache_update) : cache_update'[k] = cache_update[k]
          /\ cache_update'[Len(cache_update) + 1] = u
      BY <1>11, <2>1, <2>2, PushElements
    <3>2. ASSUME NEW k \in 1..Len(cache_update')
          PROVE  Desc[cache_update'[k].v] = [start |-> cache_update'[k].start,
                                             size |-> cache_update'[k].size]
      <4>1. CASE k = Len(cache_update) + 1
        BY <1>11, <2>2, <3>1, <4>1
      <4>2. CASE k # Len(cache_update) + 1
        <5>1. k \in 1..Len(cache_update) /\ cache_update'[k] = cache_update[k]
          BY <2>1, <3>1, <4>2
        <5> QED
          BY <2>1, <5>1
      <4> QED
        BY <4>1, <4>2
    <3> QED
      BY <3>1, <3>2
  <2> QED
    BY <1>3, <2>1, <2>2
<1>13. CacheCoherent' /\ HalfInv'
  <2>1. TypeOK'
    BY <1>1, <1>3, <1>5, <1>12 DEF TypeOK
  <2>2. HalfInv'
    BY <1>1, <1>3 DEF HalfInv
  <2> QED
    BY <1>1, <1>3, <1>12, <2>1, <2>2 DEF CacheCoherent
<1>14. Paired(ToVd, DataVd, vertex_cmd)' /\ Paired(ToUpdate, DataUpdate, vertex_cmd)'
  BY <1>3, <1>6, <1>7, <1>8, <1>9, <1>10
<1>15. pending' \in Seq(PendingPkg) /\ Waiting(ToVd, input, pending)'
  BY <1>3, <1>8 DEF CacheInv
<1> QED
  BY <1>13, <1>14, <1>15 DEF CacheInv

\* Nothing is lost when no kernel moves.
LEMMA CacheStutter == CacheInv /\ UNCHANGED vars => CacheInv'
<1> SUFFICES ASSUME CacheInv, UNCHANGED vars PROVE CacheInv'
  OBVIOUS
<1> USE DEF vars, feedVars, loaderVars, memVars, dupVars
<1>1. CacheCoherent'
  BY DEF CacheInv, CacheCoherent, TypeOK
<1>2. /\ HalfInv' /\ ToVd' = ToVd
      /\ Paired(ToVd, DataVd, vertex_cmd)' /\ Paired(ToUpdate, DataUpdate, vertex_cmd)'
  BY StreamsSame
<1> QED
  BY <1>1, <1>2 DEF CacheInv

\* Every step preserves the inductive invariant.
LEMMA CacheStep == CacheInv /\ [Next]_vars => CacheInv'
<1> SUFFICES ASSUME CacheInv, [Next]_vars PROVE CacheInv'
  OBVIOUS
<1>1. CASE Request
  BY <1>1, RequestStep
<1>2. CASE Loader
  BY <1>2, LookupStep, UpdateStep, LoaderRest DEF Loader
<1>3. CASE VcacheMem
  BY <1>3, MemStep
<1>4. CASE VcacheVd
  BY <1>4, VdStep
<1>5. CASE VcacheUpdate
  BY <1>5, SendUpdateStep
<1>6. CASE \E i \in 1..2 : DuplicateVds(i) \/ DuplicateData(i)
  BY <1>6, DuplicateStep
<1>7. CASE Restart
  BY <1>7, LoaderRest
<1>8. CASE Idle \/ UNCHANGED vars
  BY <1>8, CacheStutter DEF Idle
<1> QED
  BY <1>1, <1>2, <1>3, <1>4, <1>5, <1>6, <1>7, <1>8 DEF Next

-----------------------------------------------------------------------------
(* Theorems                                                                 *)

\* CacheInv holds in every reachable state: whatever the kernels between do,
\* a packet meets the answer of its own command at vcache_vd and vcache_update,
\* which pop both streams without comparing anything.
THEOREM CacheInvariant == Spec => []CacheInv
<1>1. Init => CacheInv
  BY CacheInit
<1>2. CacheInv /\ [Next]_vars => CacheInv'
  BY CacheStep
<1> QED
  BY <1>1, <1>2, PTL DEF Spec

\* Every valid entry of the cache, and every update on its way to it, holds
\* the descriptor of the vertex it is filed under, across evictions, late
\* updates and restarts of the kernels.
THEOREM Coherence == Spec => []CacheCoherent
<1>1. CacheInv => CacheCoherent
  BY DEF CacheInv
<1> QED
  BY <1>1, CacheInvariant, PTL

\* The cache and the kernels around it implement the memory behind them:
\* lookups are answered in order, each with the descriptor of its vertex.
\* Request asks, vcache_vd answers and every other step is invisible.
THEOREM LookupRefinement == Spec => ImplementsLookup
<1>1. Init => Service!Init
  BY DEF Init, Service!Init
<1>2. CacheInv /\ [Next]_vars => [Service!Next]_Service!vars
  <2> SUFFICES ASSUME CacheInv, [Next]_vars
               PROVE  Service!Next \/ UNCHANGED <<pending, answer>>
    BY DEF Service!vars
  <2>1. CASE Request
    <3>1. Service!Ask
      BY <2>1 DEF Request, Service!Ask
    <3> QED
      BY <3>1 DEF Service!Next
  <2>2. CASE VcacheVd
    BY <2>2, VdStep DEF Service!Next
  <2>3. CASE Loader \/ VcacheMem \/ VcacheUpdate \/ Restart
    BY <2>3 DEF Loader, LoaderLookup, LoaderUpdate, LoaderNoUpdate, LoaderDrain,
                LoaderReturn, VcacheMem, VcacheUpdate, Restart
  <2>4. CASE \E i \in 1..2 : DuplicateVds(i) \/ DuplicateData(i)
    BY <2>4 DEF DuplicateVds, DuplicateData
  <2>5. CASE Idle \/ UNCHANGED vars
    BY <2>5 DEF Idle, vars
  <2> QED
    BY <2>1, <2>2, <2>3, <2>4, <2>5 DEF Next
<1> QED
  BY <1>1, <1>2, CacheInvariant, PTL DEF Spec, ImplementsLookup, Service!Spec
=============================================================================
