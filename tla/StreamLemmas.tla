---------------------------- MODULE StreamLemmas ----------------------------
(***************************************************************************)
(* Facts about streams, that is, about finite sequences that are extended  *)
(* at the end and consumed at the front, and about chains of them.         *)
(***************************************************************************)
EXTENDS Integers, Sequences, SequenceTheorems, TLAPS

\* The elements of a chain of two streams.
LEMMA ChainElements ==
  ASSUME NEW S, NEW a \in Seq(S), NEW b \in Seq(S)
  PROVE  /\ a \o b \in Seq(S)
         /\ Len(a \o b) = Len(a) + Len(b)
         /\ \A i \in 1 .. Len(a) : (a \o b)[i] = a[i]
         /\ \A i \in Len(a) + 1 .. Len(a) + Len(b) : (a \o b)[i] = b[i - Len(a)]
OBVIOUS

\* What is left of a stream when its head is consumed.
LEMMA PopElements ==
  ASSUME NEW S, NEW a \in Seq(S), a # <<>>
  PROVE  /\ Head(a) \in S /\ Head(a) = a[1]
         /\ Tail(a) \in Seq(S)
         /\ Len(a) >= 1 /\ Len(Tail(a)) = Len(a) - 1
         /\ \A i \in 1 .. Len(a) - 1 : Tail(a)[i] = a[i + 1]
OBVIOUS

\* A packet written to a stream is behind all the others.
LEMMA PushElements ==
  ASSUME NEW S, NEW a \in Seq(S), NEW x \in S
  PROVE  /\ Append(a, x) \in Seq(S)
         /\ Len(Append(a, x)) = Len(a) + 1
         /\ \A i \in 1 .. Len(a) : Append(a, x)[i] = a[i]
         /\ Append(a, x)[Len(a) + 1] = x
OBVIOUS

\* Handing the head of one stream on to the stream in front of it leaves the
\* chain as it is.
LEMMA MoveHead ==
  ASSUME NEW S, NEW a \in Seq(S), NEW b \in Seq(S), b # <<>>
  PROVE  Append(a, Head(b)) \o Tail(b) = a \o b
<1> DEFINE l == Append(a, Head(b)) \o Tail(b)
           r == a \o b
<1>1. Head(b) \in S /\ Tail(b) \in Seq(S) /\ Len(b) >= 1
  BY PopElements
<1>2. l \in Seq(S) /\ r \in Seq(S) /\ Len(l) = Len(r)
  BY <1>1
<1>3. ASSUME NEW i \in 1 .. Len(l)
      PROVE  l[i] = r[i]
  BY <1>1
<1> HIDE DEF l, r
<1>4. l = r
  BY <1>2, <1>3, SeqEqual
<1> QED
  BY <1>4 DEF l, r

\* Writing to the last stream of a chain writes to the chain.
LEMMA PushChain ==
  ASSUME NEW S, NEW a \in Seq(S), NEW b \in Seq(S), NEW x \in S
  PROVE  a \o Append(b, x) = Append(a \o b, x)
<1> DEFINE l == a \o Append(b, x)
           r == Append(a \o b, x)
<1>1. l \in Seq(S) /\ r \in Seq(S) /\ Len(l) = Len(r)
  OBVIOUS
<1>2. ASSUME NEW i \in 1 .. Len(l)
      PROVE  l[i] = r[i]
  OBVIOUS
<1> HIDE DEF l, r
<1>3. l = r
  BY <1>1, <1>2, SeqEqual
<1> QED
  BY <1>3 DEF l, r

\* Consuming from the first stream of a chain consumes from the chain.
LEMMA PopChain ==
  ASSUME NEW S, NEW a \in Seq(S), NEW b \in Seq(S), a # <<>>
  PROVE  Tail(a) \o b = Tail(a \o b) /\ Head(a \o b) = Head(a)
<1> DEFINE l == Tail(a) \o b
           r == Tail(a \o b)
<1>1. l \in Seq(S) /\ r \in Seq(S) /\ Len(l) = Len(r)
  OBVIOUS
<1>2. ASSUME NEW i \in 1 .. Len(l)
      PROVE  l[i] = r[i]
  OBVIOUS
<1> HIDE DEF l, r
<1>3. l = r
  BY <1>1, <1>2, SeqEqual
<1> QED
  BY <1>3 DEF l, r
-----------------------------------------------------------------------------
(* Streams as parts of a history: stream s holds what its writer has        *)
(* written, f[0], f[1] ..., and its reader has not read.                    *)

PacketsIn(s) == {s[i] : i \in 1..Len(s)}

IsSeq(s) == s \in Seq(PacketsIn(s))

Bit == {0, 1}

\* stream s holds the part of f from x up to y, and behind it z stop packets
Holds(s, f, x, y, z, stop) ==
    /\ IsSeq(s)
    /\ x <= y /\ Len(s) = (y - x) + z
    /\ \A c \in x .. y - 1 : s[c - x + 1] = f[c]
    /\ z = 1 => s[Len(s)] = stop

\* there is no stop packet on this stream
None == <<>>

\* Any sequence is one of its own elements.
LEMMA SeqIsSeq ==
  ASSUME NEW T, NEW s \in Seq(T)
  PROVE  IsSeq(s)
<1>1. Len(s) \in Nat /\ s = [i \in 1 .. Len(s) |-> s[i]]
  OBVIOUS
<1>2. \A i \in 1 .. Len(s) : s[i] \in PacketsIn(s)
  BY DEF PacketsIn
<1> HIDE DEF PacketsIn
<1>3. s \in [1 .. Len(s) -> PacketsIn(s)]
  BY <1>1, <1>2
<1> QED
  BY <1>1, <1>3, SeqDef DEF IsSeq

\* Popping and pushing.
LEMMA PopIsSeq ==
  ASSUME NEW s, IsSeq(s), s # <<>>
  PROVE  /\ IsSeq(Tail(s)) /\ Len(s) \in Nat /\ Len(s) >= 1 /\ Len(Tail(s)) = Len(s) - 1
         /\ Head(s) = s[1]
         /\ \A n \in 1 .. Len(s) - 1 : Tail(s)[n] = s[n + 1]
<1> DEFINE T == PacketsIn(s)
<1>1. s \in Seq(T)
  BY DEF IsSeq
<1> HIDE DEF T
<1>2. Tail(s) \in Seq(T)
  BY <1>1, PopElements
<1>3. IsSeq(Tail(s))
  BY <1>2, SeqIsSeq
<1> QED
  BY <1>1, <1>3, PopElements

\* The same when a packet is written.
LEMMA PushIsSeq ==
  ASSUME NEW s, IsSeq(s), NEW x
  PROVE  /\ IsSeq(Append(s, x)) /\ Len(s) \in Nat /\ Len(Append(s, x)) = Len(s) + 1
         /\ Append(s, x)[Len(s) + 1] = x
         /\ \A n \in 1 .. Len(s) : Append(s, x)[n] = s[n]
<1> DEFINE T == PacketsIn(s) \union {x}
<1>1. s \in Seq(T) /\ x \in T
  <2>1. s \in Seq(PacketsIn(s))
    BY DEF IsSeq
  <2> HIDE DEF PacketsIn
  <2> QED
    BY <2>1
<1> HIDE DEF T
<1>2. Append(s, x) \in Seq(T)
  BY <1>1, PushElements
<1>3. IsSeq(Append(s, x))
  BY <1>2, SeqIsSeq
<1> QED
  BY <1>1, <1>3, PushElements

\* The empty stream, the only one of length 0.
LEMMA EmptyIsSeq ==
  /\ IsSeq(<<>>) /\ Len(<<>>) = 0
  /\ \A s : IsSeq(s) => Len(s) \in Nat /\ (Len(s) = 0 <=> s = <<>>)
<1>1. <<>> \in Seq({})
  OBVIOUS
<1>2. IsSeq(<<>>)
  BY <1>1, SeqIsSeq
<1>3. ASSUME NEW s, IsSeq(s) PROVE Len(s) \in Nat /\ (Len(s) = 0 <=> s = <<>>)
  <2>1. s \in Seq(PacketsIn(s))
    BY <1>3 DEF IsSeq
  <2> HIDE DEF PacketsIn
  <2> QED
    BY <2>1
<1> QED
  BY <1>2, <1>3

\* A stream nothing has been written to.
LEMMA NoneHeld ==
  ASSUME NEW f, NEW x \in Nat, NEW stop
  PROVE  Holds(<<>>, f, x, x, 0, stop)
BY EmptyIsSeq DEF Holds

\* A packet is read that is the next one of f.
LEMMA HoldsPop ==
  ASSUME NEW s, NEW f, NEW x \in Nat, NEW y \in Nat, NEW z \in Bit, NEW stop,
         Holds(s, f, x, y, z, stop), s # <<>>, x < y
  PROVE  Head(s) = f[x] /\ Holds(Tail(s), f, x + 1, y, z, stop)
<1>1. /\ IsSeq(s) /\ x <= y /\ Len(s) = (y - x) + z
      /\ \A c \in x .. y - 1 : s[c - x + 1] = f[c]
      /\ z = 1 => s[Len(s)] = stop
  BY DEF Holds
<1>2. /\ IsSeq(Tail(s)) /\ Len(s) \in Nat /\ Len(s) >= 1 /\ Len(Tail(s)) = Len(s) - 1
      /\ Head(s) = s[1]
      /\ \A n \in 1 .. Len(s) - 1 : Tail(s)[n] = s[n + 1]
  BY <1>1, PopIsSeq
<1>3. z \in {0, 1}
  BY DEF Bit
<1> DEFINE r == Tail(s)
           h == Head(s)
<1> HIDE DEF r, h
<1>4. h = f[x]
  BY <1>1, <1>2 DEF h
<1>5. ASSUME NEW c \in x + 1 .. y - 1 PROVE r[c - (x + 1) + 1] = f[c]
  <2>1. c \in x .. y - 1 /\ c - x \in 1 .. Len(s) - 1
    BY <1>1, <1>3
  <2>2. r[c - x] = s[c - x + 1]
    BY <1>2, <2>1 DEF r
  <2> QED
    BY <1>1, <2>1, <2>2
<1>6. ASSUME z = 1 PROVE r[Len(r)] = stop
  <2>1. Len(r) = Len(s) - 1 /\ Len(s) - 1 >= 1
    BY <1>1, <1>2, <1>6 DEF r
  <2>2. r[Len(s) - 1] = s[Len(s) - 1 + 1]
    BY <1>2, <2>1 DEF r
  <2> QED
    BY <1>1, <1>2, <1>6, <2>1, <2>2
<1>7. x + 1 <= y /\ Len(r) = (y - (x + 1)) + z /\ IsSeq(r)
  BY <1>1, <1>2, <1>3 DEF r
<1>8. Holds(r, f, x + 1, y, z, stop)
  BY <1>5, <1>6, <1>7 DEF Holds
<1> QED
  BY <1>4, <1>8 DEF r, h

\* A packet is read behind the last one of f: it is the stop packet.
LEMMA StopPop ==
  ASSUME NEW s, NEW f, NEW x \in Nat, NEW z \in Bit, NEW stop,
         Holds(s, f, x, x, z, stop), s # <<>>
  PROVE  z = 1 /\ Head(s) = stop /\ Holds(Tail(s), f, x, x, 0, stop)
<1>1. /\ IsSeq(s) /\ Len(s) = (x - x) + z
      /\ z = 1 => s[Len(s)] = stop
  BY DEF Holds
<1>2. /\ IsSeq(Tail(s)) /\ Len(s) \in Nat /\ Len(s) >= 1 /\ Len(Tail(s)) = Len(s) - 1
      /\ Head(s) = s[1]
  BY <1>1, PopIsSeq
<1>3. z = 1 /\ Len(s) = 1
  BY <1>1, <1>2 DEF Bit
<1>4. Head(s) = stop
  BY <1>1, <1>2, <1>3
<1> DEFINE r == Tail(s)
<1>5. IsSeq(r) /\ Len(r) = 0
  BY <1>2, <1>3
<1> HIDE DEF r
<1>6. r = <<>>
  BY <1>5, EmptyIsSeq
<1>7. Holds(<<>>, f, x, x, 0, stop)
  BY NoneHeld
<1> QED
  BY <1>3, <1>4, <1>6, <1>7 DEF r

\* A packet is written.
LEMMA HoldsPush ==
  ASSUME NEW s, NEW f, NEW x \in Nat, NEW y \in Nat, NEW stop,
         Holds(s, f, x, y, 0, stop)
  PROVE  /\ Holds(Append(s, f[y]), f, x, y + 1, 0, stop)
         /\ Holds(Append(s, stop), f, x, y, 1, stop)
<1>1. /\ IsSeq(s) /\ x <= y /\ Len(s) = (y - x) + 0
      /\ \A c \in x .. y - 1 : s[c - x + 1] = f[c]
  BY DEF Holds
<1>2. ASSUME NEW w
      PROVE  /\ IsSeq(Append(s, w)) /\ Len(Append(s, w)) = (y - x) + 1
             /\ Append(s, w)[(y - x) + 1] = w
             /\ \A c \in x .. y - 1 : Append(s, w)[c - x + 1] = f[c]
  <2>1. /\ IsSeq(Append(s, w)) /\ Len(s) \in Nat /\ Len(Append(s, w)) = Len(s) + 1
        /\ Append(s, w)[Len(s) + 1] = w
        /\ \A n \in 1 .. Len(s) : Append(s, w)[n] = s[n]
    BY <1>1, PushIsSeq
  <2> DEFINE r == Append(s, w)
  <2> HIDE DEF r
  <2>2. ASSUME NEW c \in x .. y - 1 PROVE r[c - x + 1] = f[c]
    <3>1. c - x + 1 \in 1 .. Len(s)
      BY <1>1
    <3> QED
      BY <1>1, <2>1, <3>1 DEF r
  <2> QED
    BY <1>1, <2>1, <2>2 DEF r
<1>3. Holds(Append(s, f[y]), f, x, y + 1, 0, stop)
  <2> DEFINE r == Append(s, f[y])
  <2>1. /\ IsSeq(r) /\ Len(r) = (y - x) + 1 /\ r[(y - x) + 1] = f[y]
        /\ \A c \in x .. y - 1 : r[c - x + 1] = f[c]
    BY <1>2
  <2> HIDE DEF r
  <2>2. \A c \in x .. (y + 1) - 1 : r[c - x + 1] = f[c]
    BY <2>1
  <2>3. Len(r) = ((y + 1) - x) + 0 /\ x <= y + 1
    BY <1>1, <2>1
  <2>4. Holds(r, f, x, y + 1, 0, stop)
    BY <2>1, <2>2, <2>3 DEF Holds
  <2> QED
    BY <2>4 DEF r
<1>4. Holds(Append(s, stop), f, x, y, 1, stop)
  <2> DEFINE r == Append(s, stop)
  <2>1. /\ IsSeq(r) /\ Len(r) = (y - x) + 1 /\ r[(y - x) + 1] = stop
        /\ \A c \in x .. y - 1 : r[c - x + 1] = f[c]
    BY <1>2
  <2> HIDE DEF r
  <2>2. Holds(r, f, x, y, 1, stop)
    BY <1>1, <2>1 DEF Holds
  <2> QED
    BY <2>2 DEF r
<1> QED
  BY <1>3, <1>4

\* Nothing is seen of f but the part that is held.
LEMMA HoldsSame ==
  ASSUME NEW s, NEW f, NEW x \in Nat, NEW y \in Nat, NEW z \in Bit, NEW stop,
         Holds(s, f, x, y, z, stop), NEW h, \A c \in x .. y - 1 : h[c] = f[c]
  PROVE  Holds(s, h, x, y, z, stop)
BY DEF Holds

\* A stream is empty when its reader has come to the place of its writer.
LEMMA HoldsEmpty ==
  ASSUME NEW s, NEW f, NEW x \in Nat, NEW y \in Nat, NEW z \in Bit, NEW stop,
         Holds(s, f, x, y, z, stop)
  PROVE  (s = <<>> <=> x = y /\ z = 0) /\ x <= y
<1>1. IsSeq(s) /\ x <= y /\ Len(s) = (y - x) + z /\ z \in {0, 1}
  BY DEF Holds, Bit
<1>2. Len(s) \in Nat /\ (Len(s) = 0 <=> s = <<>>)
  BY <1>1, EmptyIsSeq
<1> QED
  BY <1>1, <1>2

\* The same for a stream that has no stop packet.
LEMMA StreamPop ==
  ASSUME NEW s, NEW f, NEW x \in Nat, NEW y \in Nat, NEW stop,
         Holds(s, f, x, y, 0, stop), s # <<>>
  PROVE  x < y /\ Head(s) = f[x] /\ Holds(Tail(s), f, x + 1, y, 0, stop)
<1> DEFINE z == 0
<1>1. z \in Bit /\ Holds(s, f, x, y, z, stop) /\ z # 1
  BY DEF Bit
<1> HIDE DEF z
<1>2. x <= y
  BY <1>1 DEF Holds
<1>3. Len(s) = y - x /\ Len(s) \in Nat /\ Len(s) # 0
  <2>1. IsSeq(s) /\ Len(s) = (y - x) + 0
    BY DEF Holds
  <2>2. Len(s) \in Nat /\ (Len(s) = 0 <=> s = <<>>)
    BY <2>1, EmptyIsSeq
  <2> QED
    BY <2>1, <2>2
<1>4. x < y
  BY <1>1, <1>2, <1>3
<1>5. Head(s) = f[x] /\ Holds(Tail(s), f, x + 1, y, z, stop)
  BY <1>1, <1>4, HoldsPop
<1> QED
  BY <1>4, <1>5 DEF z

\* A stream whose reader has come to the place of its writer holds nothing.
LEMMA StreamEmpty ==
  ASSUME NEW s, NEW f, NEW x \in Nat, NEW y \in Nat, NEW stop, Holds(s, f, x, y, 0, stop)
  PROVE  (s = <<>> <=> x = y) /\ x <= y /\ Len(s) = y - x
<1>1. IsSeq(s) /\ x <= y /\ Len(s) = (y - x) + 0
  BY DEF Holds
<1>2. Len(s) \in Nat /\ (Len(s) = 0 <=> s = <<>>)
  BY <1>1, EmptyIsSeq
<1> QED
  BY <1>1, <1>2

\* One whose reader is one place behind holds one packet.
LEMMA OneHeld ==
  ASSUME NEW s, NEW f, NEW x \in Nat, NEW stop, Holds(s, f, x, x + 1, 0, stop)
  PROVE  Len(s) = 1
<1> PICK y \in Nat : y = x + 1
  OBVIOUS
<1>1. Len(s) = (y - x) + 0
  BY DEF Holds
<1> QED
  BY <1>1

\* A stream without a stop packet has none of any kind.
LEMMA NoStopHeld ==
  ASSUME NEW s, NEW f, NEW x \in Nat, NEW y \in Nat, NEW stop, NEW other,
         Holds(s, f, x, y, 0, stop)
  PROVE  Holds(s, f, x, y, 0, other)
BY DEF Holds

-----------------------------------------------------------------------------
(* Numbers that wrap                                                        *)

\* Division with remainder.
LEMMA QuotientRemainder ==
  ASSUME NEW y \in Nat, NEW w \in Nat, w > 0
  PROVE  /\ y \div w \in Nat /\ y % w \in 0 .. w - 1
         /\ y = w * (y \div w) + (y % w)
<1>1. y = w * (y \div w) + (y % w)
  OBVIOUS
<1>2. y \div w \in Int /\ y \div w >= 0
  OBVIOUS
<1>3. y % w \in 0 .. w - 1
  OBVIOUS
<1> QED
  BY <1>1, <1>2, <1>3

\* Among M numbers in a row no two are the same when they wrap.
LEMMA SameRemainder ==
  ASSUME NEW M \in Nat, M > 0, NEW a \in Nat, NEW c \in Nat, c <= a, a < c + M, a % M = c % M
  PROVE  a = c
<1>1. M \in Nat /\ M > 0
  OBVIOUS
<1>2. PICK p \in Nat, n \in 0 .. M - 1 : a = M * p + n /\ n = a % M
  BY <1>1, QuotientRemainder
<1>3. PICK o \in Nat, w \in 0 .. M - 1 : c = M * o + w /\ w = c % M
  BY <1>1, QuotientRemainder
<1>4. n = w
  BY <1>2, <1>3
<1>5. CASE p > o
  <2>1. M * p >= M * o + M
    <3>1. PICK u \in Nat : p = o + 1 + u
      <4>1. p - o - 1 \in Nat /\ p = o + 1 + (p - o - 1)
        BY <1>2, <1>3, <1>5
      <4> QED
        BY <4>1
    <3>2. M * p = M * o + M + M * u
      BY <1>1, <1>3, <3>1
    <3>3. M * u >= 0 /\ M * u \in Int
      BY <1>1, <3>1
    <3>4. M * o \in Int
      BY <1>1, <1>3
    <3> QED
      BY <1>1, <3>2, <3>3, <3>4
  <2> QED
    BY <1>1, <1>2, <1>3, <1>4, <2>1
<1>6. CASE p < o
  <2>1. M * o >= M * p + M
    <3>1. PICK u \in Nat : o = p + 1 + u
      <4>1. o - p - 1 \in Nat /\ o = p + 1 + (o - p - 1)
        BY <1>2, <1>3, <1>6
      <4> QED
        BY <4>1
    <3>2. M * o = M * p + M + M * u
      BY <1>1, <1>2, <3>1
    <3>3. M * u >= 0 /\ M * u \in Int
      BY <1>1, <3>1
    <3>4. M * p \in Int
      BY <1>1, <1>2
    <3> QED
      BY <1>1, <3>2, <3>3, <3>4
  <2> QED
    BY <1>1, <1>2, <1>3, <1>4, <2>1
<1>7. CASE p = o
  BY <1>2, <1>3, <1>4, <1>7
<1> QED
  BY <1>2, <1>3, <1>5, <1>6, <1>7

\* Counting on from a number that has wrapped.
LEMMA NextRemainder ==
  ASSUME NEW M \in Nat, M > 0, NEW a \in Nat
  PROVE  a % M \in 0 .. M - 1 /\ ((a % M) + 1) % M = (a + 1) % M
<1>1. M \in Nat /\ M > 0
  OBVIOUS
<1>2. a % M \in 0 .. M - 1
  BY <1>1
<1>3. ((a % M) + 1) % M = (a + 1) % M
  <2>1. PICK p \in Nat, n \in 0 .. M - 1 : a = M * p + n /\ n = a % M
    BY <1>1, QuotientRemainder
  <2>2. CASE n + 1 < M
    <3>1. (n + 1) % M = n + 1
      BY <1>1, <2>2
    <3>2. a + 1 = M * p + (n + 1) /\ n + 1 \in 0 .. M - 1
      BY <1>1, <2>1, <2>2
    <3>3. (a + 1) % M = n + 1
      BY <1>1, <2>1, <3>2
    <3> QED
      BY <2>1, <3>1, <3>3
  <2>3. CASE n + 1 = M
    <3>1. (n + 1) % M = 0
      BY <1>1, <2>3
    <3>2. a + 1 = M * (p + 1) + 0
      <4>1. M * (p + 1) = M * p + M /\ M * p \in Int
        BY <1>1, <2>1
      <4> QED
        BY <1>1, <2>1, <2>3, <4>1
    <3>3. (a + 1) % M = 0
      BY <1>1, <2>1, <3>2
    <3> QED
      BY <2>1, <3>1, <3>3
  <2> QED
    BY <1>1, <2>1, <2>2, <2>3
<1> QED
  BY <1>2, <1>3
=============================================================================
