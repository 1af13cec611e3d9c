--------------------------- MODULE WalkLoopProofs ---------------------------
(***************************************************************************)
(* Proofs about the walks of Node2Vec, for every symmetric graph, number   *)
(* of queries, ring size, stream depth and walk length: a walk stays on    *)
(* the edges of its graph.                                                 *)
(***************************************************************************)
EXTENDS WalkLoop, StreamLemmas, TLAPS

\* a packet of a walk, what the sampling path is asked and what it answers
WalkPkg == [id: Nat, remain: 0 .. WalkLen, slot: 0 .. RingSize, tag: BOOLEAN,
            v: DOMAIN job.graph, prev: Nat \union DOMAIN job.graph, dead: BOOLEAN,
            last: BOOLEAN]
AskPkg    == [v: DOMAIN job.graph, prev: Nat \union DOMAIN job.graph,
              dead: BOOLEAN, last: BOOLEAN]
AnswerPkg == [v: {0} \union DOMAIN job.graph, dead: BOOLEAN, last: BOOLEAN]

\* A walk is at a vertex that has a neighbour, it is dead on its final lap and
\* not before, and it carries the vertex it came from: FirstPrev on its first
\* lap, a neighbour until its final lap.
OnTrack(q) ==
    /\ Adj(q.v) # {}
    /\ q.dead <=> q.remain <= 1
    /\ q.remain = WalkLen => q.prev = FirstPrev
    /\ q.remain \in 1 .. WalkLen - 1 => /\ q.prev \in DOMAIN job.graph
                                        /\ q.v \in Adj(q.prev)

\* queries that have not been issued, walks that have a lap to make, and walks
\* back at ring_manager
Fresh == {q \in WalkPkg : OnTrack(q) /\ q.remain = WalkLen}
OnLap == {q \in WalkPkg : OnTrack(q) /\ q.remain # 0}
Back  == {q \in WalkPkg : OnTrack(q) /\ q.remain # WalkLen}

\* what the sampling path is asked for a walk, and what it may answer
Ask(q)        == [v |-> q.v, prev |-> q.prev, dead |-> q.dead, last |-> q.last]
Replies(q, u) == /\ u.last = q.last
                 /\ u.dead <=> q.dead
                 /\ q.dead => u.v = 0
                 /\ ~q.dead => u.v \in Adj(q.v)

\* the walks in o are answered by the answers in i and by the questions in q,
\* by their position only
Answered(o, i, q) ==
    /\ Len(o) = Len(i) + Len(q)
    /\ \A k \in 1 .. Len(i) : Replies(o[k], i[k])
    /\ \A k \in 1 .. Len(q) : q[k] = Ask(o[Len(i) + k])

\* every stream holds walks that are on their track
Tracks ==
    /\ loaded \in 0 .. TotalLoad
    /\ ring_counter \in Slots
    /\ new_query \in Seq(Fresh)
    /\ sm_in \in Seq(OnLap) /\ dup_in \in Seq(OnLap) /\ origin \in Seq(OnLap)
    /\ old_query \in Seq(Back)
    /\ query \in Seq(AskPkg)
    /\ input \in Seq(AnswerPkg)
    /\ descriptors = <<>> /\ update = <<>>

\* The inductive invariant of a Node2Vec job: every stream holds walks on
\* their track, and the sampling path answers the walks in origin in order.
TrackInv ==
    /\ job \in Jobs
    /\ Node2Vec => Tracks /\ Answered(origin, input, query)

-----------------------------------------------------------------------------
(* Graphs and packets                                                      *)

\* The graphs the hosts load are symmetric and closed, and walks start at
\* vertices that have a neighbour.
LEMMA JobGraph ==
  ASSUME job \in Jobs
  PROVE  /\ \A v \in DOMAIN job.graph :
              /\ Adj(v) \subseteq DOMAIN job.graph
              /\ \A w \in Adj(v) : v \in Adj(w)
         /\ \A k \in 0 .. NumQueries - 1 : /\ job.starts[k] \in DOMAIN job.graph
                                           /\ Adj(job.starts[k]) # {}
<1>1. /\ \A v \in DOMAIN job.graph : /\ job.graph[v] \subseteq DOMAIN job.graph
                                     /\ \A w \in job.graph[v] : v \in job.graph[w]
      /\ job.starts \in [0 .. NumQueries - 1 -> QueryArray(job.graph)]
  BY JobAssumption
<1>2. \A k \in 0 .. NumQueries - 1 : job.starts[k] \in QueryArray(job.graph)
  BY <1>1
<1> QED
  BY <1>1, <1>2, Zenon DEF Adj, QueryArray

\* ring_manager gives a query its slot; the walk's place is not touched.
LEMMA IssueTrack ==
  ASSUME NEW q \in Fresh, NEW s \in 0 .. RingSize
  PROVE  Issue(q, s) \in OnLap
<1>1. /\ q \in WalkPkg /\ OnTrack(q) /\ q.remain = WalkLen
  BY DEF Fresh
<1> DEFINE p == Issue(q, s)
<1>2. p \in WalkPkg
  BY <1>1, Zenon DEF Issue, WalkPkg
<1>3. p.v = q.v /\ p.prev = q.prev /\ p.remain = q.remain /\ p.dead = q.dead
  BY <1>1, Zenon DEF Issue, WalkPkg
<1>4. WalkLen # 0
  BY WalkAssumption
<1> HIDE DEF p
<1>5. OnTrack(p)
  BY <1>1, <1>3, Zenon DEF OnTrack
<1> QED
  BY <1>1, <1>2, <1>3, <1>4, <1>5, Zenon DEF OnLap, p

\* Neither is it when ring_manager sends the walk around again.
LEMMA ForwardTrack ==
  ASSUME NEW q \in Back, q.remain # 0, NEW e \in BOOLEAN
  PROVE  [q EXCEPT !.last = e] \in OnLap
<1>1. /\ q \in WalkPkg /\ OnTrack(q)
  BY DEF Back
<1> DEFINE p == [q EXCEPT !.last = e]
<1>2. p \in WalkPkg
  BY <1>1, Zenon DEF WalkPkg
<1>3. p.v = q.v /\ p.prev = q.prev /\ p.remain = q.remain /\ p.dead = q.dead
  BY <1>1, Zenon DEF WalkPkg
<1> HIDE DEF p
<1>5. OnTrack(p)
  BY <1>1, <1>3, Zenon DEF OnTrack
<1> QED
  BY <1>2, <1>3, <1>5, Zenon DEF OnLap, p

\* What is asked for a walk has the shape of a question.
LEMMA AskType ==
  ASSUME NEW q \in OnLap
  PROVE  Ask(q) \in AskPkg
BY Zenon DEF Ask, AskPkg, OnLap, WalkPkg

\* The word 0 is sampled only when it is a neighbour: a walk that came from
\* vertex 0 is at a neighbour of 0, and the graph is symmetric; a list of
\* which nothing was selected is the list <<0>>.
LEMMA SampleIsNeighbour ==
  ASSUME job \in Jobs, NEW q \in OnLap, ~q.dead
  PROVE  Adj(q.v) # {} /\ Weighed(Ask(q)) \subseteq Adj(q.v)
<1>1. /\ q \in WalkPkg /\ OnTrack(q) /\ q.remain # 0
  BY DEF OnLap
<1>2. /\ q.v \in DOMAIN job.graph /\ q.remain \in 0 .. WalkLen
  BY <1>1, Zenon DEF WalkPkg
<1>3. Adj(q.v) # {}
  BY <1>1 DEF OnTrack
<1>4. q.prev = 0 => 0 \in Adj(q.v)
  <2>1. SUFFICES ASSUME q.prev = 0
                 PROVE  0 \in Adj(q.v)
    OBVIOUS
  <2>2. q.remain # WalkLen
    BY <1>1, <2>1, RecordAssumption DEF OnTrack
  <2>3. q.remain \in 1 .. WalkLen - 1
    BY <1>1, <1>2, <2>2, WalkAssumption
  <2>4. q.v \in Adj(q.prev) /\ q.prev \in DOMAIN job.graph
    BY <1>1, <2>3, Zenon DEF OnTrack
  <2> QED
    BY <2>1, <2>4, JobGraph, Zenon
<1>5. Ask(q).v = q.v /\ Ask(q).prev = q.prev
  BY DEF Ask
<1>6. CASE q.prev = 0
  <2>1. Weighed(Ask(q)) = (Adj(q.v) \ {0}) \union {0}
    BY <1>5, <1>6, Zenon DEF Weighed
  <2> QED
    BY <2>1, <1>3, <1>4, <1>6, Zenon
<1>7. CASE q.prev # 0 /\ Adj(q.v) \ {0} # {}
  <2>1. Weighed(Ask(q)) = Adj(q.v) \ {0}
    <3>1. (Adj(q.v) \ {0}) \union {} = Adj(q.v) \ {0}
      OBVIOUS
    <3> QED
      BY <1>5, <1>7, <3>1, Zenon DEF Weighed
  <2> QED
    BY <2>1, <1>3, Zenon
<1>8. CASE q.prev # 0 /\ Adj(q.v) \ {0} = {}
  <2>1. Weighed(Ask(q)) = {0}
    <3>1. (Adj(q.v) \ {0}) \union {} = {}
      BY <1>8
    <3> QED
      BY <1>5, <1>8, <3>1, Zenon DEF Weighed
  <2>2. 0 \in Adj(q.v)
    BY <1>3, <1>8, Zenon
  <2> QED
    BY <2>1, <2>2, <1>3, Zenon
<1> QED
  BY <1>6, <1>7, <1>8, Zenon

\* step_update puts the walk on an edge out of its vertex, and marks it dead
\* for the final lap; the final lap keeps the vertex.
LEMMA SteppedTrack ==
  ASSUME job \in Jobs, NEW q \in OnLap, NEW u \in AnswerPkg, Replies(q, u)
  PROVE  Stepped(q, u) \in Back
<1>1. /\ q \in WalkPkg /\ OnTrack(q) /\ q.remain # 0
  BY DEF OnLap
<1>2. /\ q.v \in DOMAIN job.graph /\ q.remain \in 0 .. WalkLen
      /\ q.dead \in BOOLEAN /\ u.dead \in BOOLEAN /\ u.last \in BOOLEAN
  BY <1>1, Zenon DEF WalkPkg, AnswerPkg
<1>3. WalkLen \in Nat /\ WalkLen >= 2
  BY WalkAssumption
<1>4. q.remain - 1 \in 0 .. WalkLen /\ q.remain - 1 # WalkLen
  BY <1>1, <1>2, <1>3
<1> DEFINE w == IF u.dead /\ q.remain # 2 THEN q.v ELSE u.v
           d == u.dead \/ q.remain = 2
           p == Stepped(q, u)
<1>5. w \in DOMAIN job.graph /\ Adj(w) # {} /\ (q.remain > 1 => w \in Adj(q.v))
  <2>1. CASE q.dead
    <3>1. u.dead /\ q.remain <= 1
      BY <1>1, <2>1, Zenon DEF Replies, OnTrack
    <3>2. q.remain # 2 /\ ~(q.remain > 1)
      BY <3>1, <1>2
    <3>3. w = q.v
      BY <3>1, <3>2
    <3> QED
      BY <3>2, <3>3, <1>1, <1>2, Zenon DEF OnTrack
  <2>2. CASE ~q.dead
    <3>1. ~u.dead /\ u.v \in Adj(q.v)
      BY <2>2, Zenon DEF Replies
    <3>2. w = u.v
      BY <3>1
    <3>3. u.v \in DOMAIN job.graph /\ q.v \in Adj(u.v)
      BY <3>1, <1>2, JobGraph, Zenon
    <3> QED
      BY <3>1, <3>2, <3>3, Zenon
  <2> QED
    BY <2>1, <2>2
<1>6. d \in BOOLEAN /\ (d <=> q.remain - 1 <= 1)
  <2>1. u.dead <=> q.remain <= 1
    BY <1>1, Zenon DEF Replies, OnTrack
  <2> QED
    BY <2>1, <1>1, <1>2, <1>3
<1>7. /\ p.v = w /\ p.prev = q.v /\ p.dead = d /\ p.remain = q.remain - 1
  BY <1>1, <1>2, Zenon DEF Stepped, WalkPkg
<1> HIDE DEF w, d
<1>8. p \in WalkPkg
  <2>1. p = [q EXCEPT !.v = w, !.prev = q.v, !.dead = d, !.remain = q.remain - 1,
                      !.last = u.last]
    BY <1>1, Zenon DEF Stepped, WalkPkg, w, d
  <2> HIDE DEF p
  <2>2. q.v \in Nat \union DOMAIN job.graph
    BY <1>2
  <2> QED
    BY <1>1, <1>2, <1>4, <1>5, <1>6, <2>1, <2>2, Zenon DEF WalkPkg
<1> HIDE DEF p
<1>9. OnTrack(p)
  <2>1. p.remain \in 1 .. WalkLen - 1 => p.prev \in DOMAIN job.graph /\ p.v \in Adj(p.prev)
    <3>1. SUFFICES ASSUME q.remain - 1 \in 1 .. WalkLen - 1
                   PROVE  q.v \in DOMAIN job.graph /\ w \in Adj(q.v)
      BY <1>7
    <3>2. q.remain > 1
      BY <3>1, <1>2
    <3> QED
      BY <3>2, <1>2, <1>5
  <2>2. p.dead <=> p.remain <= 1
    BY <1>6, <1>7, Zenon
  <2> QED
    BY <2>1, <2>2, <1>4, <1>5, <1>7, Zenon DEF OnTrack
<1> QED
  BY <1>4, <1>7, <1>8, <1>9, Zenon DEF Back, p

-----------------------------------------------------------------------------
(* Walks and their answers, by position                                    *)

\* step_duplicator puts a walk into origin and its question into query.
LEMMA AskedLast ==
  ASSUME NEW o \in Seq(OnLap), NEW i \in Seq(AnswerPkg), NEW q \in Seq(AskPkg),
         NEW x \in OnLap, Answered(o, i, q)
  PROVE  Answered(Append(o, x), i, Append(q, Ask(x)))
<1> DEFINE o1 == Append(o, x)
           q1 == Append(q, Ask(x))
<1>1. Len(o) \in Nat /\ Len(i) \in Nat /\ Len(q) \in Nat /\ Len(o) = Len(i) + Len(q)
  BY LenProperties DEF Answered
<1>2. /\ Len(o1) = Len(o) + 1 /\ o1[Len(o) + 1] = x
      /\ \A k \in 1 .. Len(o) : o1[k] = o[k]
  BY PushElements
<1>3. /\ Len(q1) = Len(q) + 1 /\ q1[Len(q) + 1] = Ask(x)
      /\ \A k \in 1 .. Len(q) : q1[k] = q[k]
  BY PushElements, AskType
<1> HIDE DEF o1, q1
<1>4. Len(o1) = Len(i) + Len(q1)
  BY <1>1, <1>2, <1>3
<1>5. ASSUME NEW k \in 1 .. Len(i)
      PROVE  Replies(o1[k], i[k])
  <2>1. k \in 1 .. Len(o)
    BY <1>1
  <2> QED
    BY <2>1, <1>2, Zenon DEF Answered
<1>6. ASSUME NEW k \in 1 .. Len(q1)
      PROVE  q1[k] = Ask(o1[Len(i) + k])
  <2>1. CASE k = Len(q) + 1
    <3>1. Len(i) + k = Len(o) + 1
      BY <1>1, <2>1
    <3> QED
      BY <3>1, <2>1, <1>2, <1>3, Zenon
  <2>2. CASE k # Len(q) + 1
    <3>1. k \in 1 .. Len(q) /\ Len(i) + k \in 1 .. Len(o)
      BY <1>1, <1>3, <2>2
    <3> QED
      BY <3>1, <1>2, <1>3, Zenon DEF Answered
  <2> QED
    BY <2>1, <2>2
<1> QED
  BY <1>4, <1>5, <1>6, Zenon DEF Answered, o1, q1

\* The sampling path answers the question in front.
LEMMA AnsweredNext ==
  ASSUME NEW o \in Seq(OnLap), NEW i \in Seq(AnswerPkg), NEW q \in Seq(AskPkg),
         Answered(o, i, q), q # <<>>
  PROVE  \E x \in OnLap :
            /\ Head(q) = Ask(x)
            /\ \A u \in AnswerPkg : Replies(x, u) => Answered(o, Append(i, u), Tail(q))
<1>1. Len(o) \in Nat /\ Len(i) \in Nat /\ Len(q) \in Nat /\ Len(o) = Len(i) + Len(q)
  BY LenProperties DEF Answered
<1>2. /\ Head(q) = q[1] /\ Len(q) >= 1 /\ Len(Tail(q)) = Len(q) - 1
      /\ \A k \in 1 .. Len(q) - 1 : Tail(q)[k] = q[k + 1]
  BY PopElements
<1> DEFINE x == o[Len(i) + 1]
           q1 == Tail(q)
<1>3. Len(i) + 1 \in 1 .. Len(o) /\ 1 \in 1 .. Len(q)
  BY <1>1, <1>2
<1>4. x \in OnLap
  BY <1>3
<1>5. Head(q) = Ask(x)
  BY <1>2, <1>3, Zenon DEF Answered
<1>6. ASSUME NEW u \in AnswerPkg, Replies(x, u)
      PROVE  Answered(o, Append(i, u), Tail(q))
  <2> DEFINE i1 == Append(i, u)
  <2>1. /\ Len(i1) = Len(i) + 1 /\ i1[Len(i) + 1] = u
        /\ \A k \in 1 .. Len(i) : i1[k] = i[k]
    BY PushElements
  <2> HIDE DEF i1, q1
  <2>2. Len(q1) = Len(q) - 1 /\ \A k \in 1 .. Len(q) - 1 : q1[k] = q[k + 1]
    BY <1>2 DEF q1
  <2>3. Len(o) = Len(i1) + Len(q1)
    BY <1>1, <2>1, <2>2
  <2>4. ASSUME NEW k \in 1 .. Len(i1)
        PROVE  Replies(o[k], i1[k])
    <3>1. CASE k = Len(i) + 1
      BY <3>1, <2>1, <1>6, Zenon
    <3>2. CASE k # Len(i) + 1
      <4>1. k \in 1 .. Len(i)
        BY <1>1, <2>1, <3>2
      <4> QED
        BY <4>1, <2>1, Zenon DEF Answered
    <3> QED
      BY <3>1, <3>2
  <2>5. ASSUME NEW k \in 1 .. Len(q1)
        PROVE  q1[k] = Ask(o[Len(i1) + k])
    <3>1. /\ k \in 1 .. Len(q) - 1 /\ k + 1 \in 1 .. Len(q)
          /\ Len(i1) + k = Len(i) + (k + 1)
      BY <1>1, <2>1, <2>2
    <3>2. q[k + 1] = Ask(o[Len(i) + (k + 1)])
      BY <3>1, Zenon DEF Answered
    <3> QED
      BY <3>1, <3>2, <2>2, Zenon
  <2> QED
    BY <2>3, <2>4, <2>5, Zenon DEF Answered, i1, q1
<1> HIDE DEF x
<1> QED
  BY <1>4, <1>5, <1>6, Zenon

\* fetch_next takes a walk and its answer from the front.
LEMMA AnsweredFirst ==
  ASSUME NEW o \in Seq(OnLap), NEW i \in Seq(AnswerPkg), NEW q \in Seq(AskPkg),
         Answered(o, i, q), o # <<>>, i # <<>>
  PROVE  Replies(Head(o), Head(i)) /\ Answered(Tail(o), Tail(i), q)
<1>1. Len(o) \in Nat /\ Len(i) \in Nat /\ Len(q) \in Nat /\ Len(o) = Len(i) + Len(q)
  BY LenProperties DEF Answered
<1> DEFINE o1 == Tail(o)
           i1 == Tail(i)
<1>2. /\ Head(o) = o[1] /\ Len(o1) = Len(o) - 1
      /\ \A k \in 1 .. Len(o) - 1 : o1[k] = o[k + 1]
  BY PopElements
<1>3. /\ Head(i) = i[1] /\ Len(i) >= 1 /\ Len(i1) = Len(i) - 1
      /\ \A k \in 1 .. Len(i) - 1 : i1[k] = i[k + 1]
  BY PopElements
<1> HIDE DEF o1, i1
<1>4. 1 \in 1 .. Len(i) /\ Len(o1) = Len(i1) + Len(q)
  BY <1>1, <1>2, <1>3
<1>5. Replies(Head(o), Head(i))
  BY <1>2, <1>3, <1>4, Zenon DEF Answered
<1>6. ASSUME NEW k \in 1 .. Len(i1)
      PROVE  Replies(o1[k], i1[k])
  <2>1. k \in 1 .. Len(o) - 1 /\ k \in 1 .. Len(i) - 1 /\ k + 1 \in 1 .. Len(i)
    BY <1>1, <1>3
  <2> QED
    BY <2>1, <1>2, <1>3, Zenon DEF Answered
<1>7. ASSUME NEW k \in 1 .. Len(q)
      PROVE  q[k] = Ask(o1[Len(i1) + k])
  <2>1. /\ Len(i1) + k \in 1 .. Len(o) - 1
        /\ (Len(i1) + k) + 1 = Len(i) + k
    BY <1>1, <1>3
  <2>2. o1[Len(i1) + k] = o[Len(i) + k]
    BY <2>1, <1>2, Zenon
  <2> QED
    BY <2>2, Zenon DEF Answered
<1> QED
  BY <1>4, <1>5, <1>6, <1>7, Zenon DEF Answered, o1, i1

-----------------------------------------------------------------------------
(* The steps                                                               *)

\* The job stays, and with it everything that is said in its terms.
LEMMA SameJob ==
  ASSUME job' = job
  PROVE  /\ Node2Vec' = Node2Vec
         /\ Fresh' = Fresh /\ OnLap' = OnLap /\ Back' = Back
         /\ AskPkg' = AskPkg /\ AnswerPkg' = AnswerPkg
         /\ Answered(origin, input, query)' = Answered(origin', input', query')
<1>1. /\ WalkPkg' = WalkPkg /\ AskPkg' = AskPkg /\ AnswerPkg' = AnswerPkg
      /\ Node2Vec' = Node2Vec
  BY Zenon DEF WalkPkg, AskPkg, AnswerPkg, Node2Vec
<1>2. Fresh' = Fresh /\ OnLap' = OnLap /\ Back' = Back
  BY <1>1, Zenon DEF Fresh, OnLap, Back, OnTrack, Adj
<1>3. Answered(origin, input, query)' = Answered(origin', input', query')
  BY Zenon DEF Answered, Replies, Ask, Adj
<1> QED
  BY <1>1, <1>2, <1>3, Zenon

\* What a kernel or the host must leave behind for the invariant to hold.
LEMMA TrackNext ==
  ASSUME TrackInv, job' = job,
         Node2Vec => /\ loaded' \in 0 .. TotalLoad
                     /\ ring_counter' \in Slots
                     /\ new_query' \in Seq(Fresh)
                     /\ sm_in' \in Seq(OnLap) /\ dup_in' \in Seq(OnLap)
                     /\ origin' \in Seq(OnLap)
                     /\ old_query' \in Seq(Back)
                     /\ query' \in Seq(AskPkg)
                     /\ input' \in Seq(AnswerPkg)
                     /\ descriptors' = <<>> /\ update' = <<>>
                     /\ Answered(origin', input', query')
  PROVE  TrackInv'
<1>1. job \in Jobs
  BY DEF TrackInv
<1>2. Slots' = Slots /\ TotalLoad' = TotalLoad
  BY DEF Slots, TotalLoad
<1>3. ASSUME Node2Vec
      PROVE  Tracks' /\ Answered(origin, input, query)'
  BY <1>2, <1>3, SameJob, Zenon DEF Tracks
<1>4. Node2Vec' = Node2Vec
  BY SameJob, Zenon
<1> QED
  BY <1>1, <1>3, <1>4, Zenon DEF TrackInv

\* The hosts start with empty streams.
LEMMA TrackInit == WalkInit => TrackInv
<1>1. SUFFICES ASSUME WalkInit
               PROVE  TrackInv
  OBVIOUS
<1>2. loaded \in 0 .. TotalLoad /\ ring_counter \in Slots
  BY <1>1, SizeAssumption, RecordAssumption DEF WalkInit, Slots
<1>3. /\ <<>> \in Seq(Fresh) /\ <<>> \in Seq(OnLap) /\ <<>> \in Seq(Back)
      /\ <<>> \in Seq(AskPkg) /\ <<>> \in Seq(AnswerPkg)
  OBVIOUS
<1>4. Answered(<<>>, <<>>, <<>>)
  <2>1. Len(<<>>) = 0
    OBVIOUS
  <2>2. 1 .. 0 = {} /\ 0 = 0 + 0
    OBVIOUS
  <2> QED
    BY <2>1, <2>2, Zenon DEF Answered
<1> QED
  BY <1>1, <1>2, <1>3, <1>4, Zenon DEF WalkInit, TrackInv, Tracks

\* step_loader reads a start vertex of query_array, for every walk FirstPrev
\* as the vertex before.
LEMMA LoadTrack == TrackInv /\ WalkLoad => TrackInv'
<1>a. SUFFICES ASSUME TrackInv, WalkLoad
               PROVE  TrackInv'
  OBVIOUS
<1>b. /\ job' = job
      /\ UNCHANGED <<ring_counter, sm_in, dup_in, origin, old_query, query, input,
                     descriptors, update>>
  BY <1>a, Zenon DEF WalkLoad, ringVars, hostVars, midVars
<1>1. SUFFICES ASSUME Node2Vec
               PROVE  /\ loaded' \in 0 .. TotalLoad
                      /\ new_query' \in Seq(Fresh)
  BY <1>a, <1>b, TrackNext, Zenon DEF TrackInv, Tracks
<1> DEFINE q == [id |-> loaded, remain |-> WalkLen, slot |-> 0, tag |-> FALSE,
                 v |-> job.starts[loaded], prev |-> FirstPrev, dead |-> FALSE,
                 last |-> loaded = NumQueries - 1]
<1>2. Tracks /\ job \in Jobs
  BY <1>a, <1>1 DEF TrackInv
<1>3. /\ new_query' = Append(new_query, q) /\ loaded' = loaded + 1
      /\ loaded < TotalLoad
  BY <1>a, <1>1, Zenon DEF WalkLoad
<1>4. loaded \in 0 .. NumQueries - 1 /\ loaded' \in 0 .. TotalLoad /\ loaded \in Nat
  BY <1>2, <1>3, RecordAssumption, SizeAssumption DEF Tracks
<1>5. job.starts[loaded] \in DOMAIN job.graph /\ Adj(job.starts[loaded]) # {}
  BY <1>2, <1>4, JobGraph, Zenon
<1>6. /\ WalkLen \in 0 .. WalkLen /\ 0 \in 0 .. RingSize /\ ~(WalkLen <= 1)
      /\ WalkLen \notin 1 .. WalkLen - 1 /\ FirstPrev \in Nat \union DOMAIN job.graph
  BY WalkAssumption, SizeAssumption, RecordAssumption
<1>7. q \in WalkPkg
  BY <1>4, <1>5, <1>6, Zenon DEF WalkPkg
<1>8. /\ q.v = job.starts[loaded] /\ q.prev = FirstPrev /\ q.remain = WalkLen
      /\ q.dead = FALSE
  OBVIOUS
<1> HIDE DEF q
<1>9. OnTrack(q)
  BY <1>5, <1>6, <1>8, Zenon DEF OnTrack
<1>10. q \in Fresh
  BY <1>7, <1>8, <1>9, Zenon DEF Fresh
<1>11. Append(new_query, q) \in Seq(Fresh)
  BY <1>2, <1>10, PushElements, Zenon DEF Tracks
<1> QED
  BY <1>3, <1>4, <1>11, Zenon

\* ring_manager sends new queries out and returning walks around again, and
\* takes those away that are over.
LEMMA RingTrack == TrackInv /\ WalkRing => TrackInv'
<1>a. SUFFICES ASSUME TrackInv, WalkRing
               PROVE  TrackInv'
  OBVIOUS
<1>b. /\ job' = job
      /\ UNCHANGED <<loaded, dup_in, origin, query, input, descriptors, update>>
  BY <1>a, Zenon DEF WalkRing, hostVars, midVars, RingManager, loaderVars,
     RingIdle, RingStop, RingReplace, RingRelease, RingForward, RingInsert, RingCommit
<1>1. SUFFICES ASSUME Node2Vec
               PROVE  /\ ring_counter' \in Slots
                      /\ new_query' \in Seq(Fresh)
                      /\ sm_in' \in Seq(OnLap)
                      /\ old_query' \in Seq(Back)
  BY <1>a, <1>b, TrackNext, Zenon DEF TrackInv, Tracks
<1>2. Tracks /\ RingManager
  BY <1>a, <1>1 DEF TrackInv, WalkRing
<1>3. /\ ring_counter \in Slots /\ new_query \in Seq(Fresh)
      /\ sm_in \in Seq(OnLap) /\ old_query \in Seq(Back)
  BY <1>2 DEF Tracks
<1>4. old_query # <<>> => /\ Head(old_query) \in Back /\ Tail(old_query) \in Seq(Back)
                          /\ Head(old_query).slot \in 0 .. RingSize
  <2>1. \A q \in Back : q.slot \in 0 .. RingSize
    BY Zenon DEF Back, WalkPkg
  <2> QED
    BY <1>3, <2>1, PopElements, Zenon
<1>5. new_query # <<>> => Head(new_query) \in Fresh /\ Tail(new_query) \in Seq(Fresh)
  BY <1>3, PopElements, Zenon
<1>6. \A q \in OnLap : Append(sm_in, q) \in Seq(OnLap)
  BY <1>3, PushElements, Zenon
<1>7. ring_counter \in 0 .. RingSize /\ (ring_counter + 1) % RingSize \in Slots
  BY <1>3, SizeAssumption DEF Slots
<1>8. CASE RingIdle
  BY <1>3, <1>8, Zenon DEF RingIdle, loaderVars
<1>9. CASE RingStop
  BY <1>3, <1>4, <1>9, Zenon DEF RingStop, Retired, loaderVars
<1>10. CASE RingReplace
  <2>1. Issue(Head(new_query), Head(old_query).slot) \in OnLap
    BY <1>4, <1>5, <1>10, IssueTrack, Zenon DEF RingReplace, Retired
  <2> QED
    BY <1>3, <1>4, <1>5, <1>6, <1>10, <2>1, Zenon DEF RingReplace, Retired
<1>11. CASE RingRelease
  BY <1>3, <1>4, <1>11, Zenon DEF RingRelease, Retired, loaderVars
<1>12. CASE RingForward
  <2> DEFINE q == Head(old_query)
             e == q.remain = 1 /\ q.tag
  <2>1. old_query # <<>> /\ q.remain # 0
    BY <1>12, Zenon DEF RingForward
  <2>2. q \in Back
    BY <2>1, <1>4
  <2>3. e \in BOOLEAN
    OBVIOUS
  <2>4. sm_in' = Append(sm_in, [q EXCEPT !.last = e])
    BY <1>12, Zenon DEF RingForward
  <2> HIDE DEF e
  <2>5. [q EXCEPT !.last = e] \in OnLap
    BY <2>1, <2>2, <2>3, ForwardTrack
  <2>6. sm_in' \in Seq(OnLap)
    BY <2>4, <2>5, <1>6, Zenon
  <2> QED
    BY <1>3, <1>4, <2>1, <2>6, <1>12, Zenon DEF RingForward, ringVars, loaderVars
<1>13. CASE RingInsert
  <2>1. new_query # <<>>
    BY <1>13, Zenon DEF RingInsert, CanInsert
  <2>2. Issue(Head(new_query), ring_counter) \in OnLap
    BY <1>5, <1>7, <2>1, IssueTrack, Zenon
  <2> QED
    BY <1>3, <1>5, <1>6, <1>7, <1>13, <2>1, <2>2, Zenon DEF RingInsert
<1>14. CASE RingCommit
  BY <1>3, <1>14, Zenon DEF RingCommit, loaderVars
<1> QED
  BY <1>2, <1>8, <1>9, <1>10, <1>11, <1>12, <1>13, <1>14, Zenon DEF RingManager

\* step_record passes a walk on, and writes its group of records.
LEMMA RecordTrack == TrackInv /\ (RecordStep \/ RecordGroup) => TrackInv'
<1>1. ASSUME TrackInv, RecordStep
      PROVE  TrackInv'
  <2>1. /\ job' = job /\ Node2Vec /\ sm_in # <<>>
        /\ sm_in' = Tail(sm_in) /\ dup_in' = Append(dup_in, Head(sm_in))
        /\ UNCHANGED <<loaded, ring_counter, new_query, origin, old_query, query, input,
                       descriptors, update>>
    BY <1>1, Zenon DEF RecordStep, ringAll, hostVars, midVars
  <2>2. Tracks
    BY <1>1, <2>1 DEF TrackInv
  <2>3. Head(sm_in) \in OnLap /\ Tail(sm_in) \in Seq(OnLap)
    BY <2>1, <2>2, PopElements, Zenon DEF Tracks
  <2>4. Append(dup_in, Head(sm_in)) \in Seq(OnLap)
    BY <2>2, <2>3, PushElements, Zenon DEF Tracks
  <2> QED
    BY <1>1, <2>1, <2>3, <2>4, TrackNext, Zenon DEF TrackInv, Tracks
<1>2. ASSUME TrackInv, RecordGroup
      PROVE  TrackInv'
  <2>1. /\ job' = job
        /\ UNCHANGED <<loaded, ring_counter, new_query, sm_in, dup_in, origin, old_query,
                       query, input, descriptors, update>>
    BY <1>2, Zenon DEF RecordGroup, ringAll, hostVars, midVars
  <2> QED
    BY <1>2, <2>1, TrackNext, Zenon DEF TrackInv, Tracks
<1> QED
  BY <1>1, <1>2

\* step_duplicator asks for a walk what it sends to fetch_next.
LEMMA DuplicateTrack == TrackInv /\ DuplicateStep => TrackInv'
<1>a. SUFFICES ASSUME TrackInv, DuplicateStep
               PROVE  TrackInv'
  OBVIOUS
<1>b. /\ job' = job
      /\ UNCHANGED <<loaded, ring_counter, new_query, sm_in, old_query, input,
                     descriptors, update>>
  BY <1>a, Zenon DEF DuplicateStep, ringAll, hostVars, midVars
<1>1. SUFFICES ASSUME Node2Vec
               PROVE  /\ dup_in' \in Seq(OnLap)
                      /\ origin' \in Seq(OnLap)
                      /\ query' \in Seq(AskPkg)
                      /\ Answered(origin', input', query')
  BY <1>a, <1>b, TrackNext, Zenon DEF TrackInv, Tracks
<1>2. Tracks /\ Answered(origin, input, query)
  BY <1>a, <1>1 DEF TrackInv
<1> DEFINE q == Head(dup_in)
<1>3. /\ dup_in # <<>> /\ dup_in' = Tail(dup_in) /\ origin' = Append(origin, q)
      /\ query' = Append(query, Ask(q)) /\ input' = input
  BY <1>a, <1>1, Zenon DEF DuplicateStep, Ask
<1>4. q \in OnLap /\ Tail(dup_in) \in Seq(OnLap)
  BY <1>2, <1>3, PopElements, Zenon DEF Tracks
<1> HIDE DEF q
<1>5. /\ origin \in Seq(OnLap) /\ input \in Seq(AnswerPkg) /\ query \in Seq(AskPkg)
  BY <1>2 DEF Tracks
<1>6. Append(origin, q) \in Seq(OnLap) /\ Append(query, Ask(q)) \in Seq(AskPkg)
  BY <1>4, <1>5, AskType, PushElements, Zenon
<1>7. Answered(Append(origin, q), input, Append(query, Ask(q)))
  BY <1>2, <1>4, <1>5, AskedLast, Zenon
<1> QED
  BY <1>3, <1>4, <1>6, <1>7, Zenon

\* The sampling path answers a live walk with a neighbour of its vertex.
LEMMA SampleTrack == TrackInv /\ SampleStep => TrackInv'
<1>a. SUFFICES ASSUME TrackInv, SampleStep
               PROVE  TrackInv'
  OBVIOUS
<1>b. /\ job' = job
      /\ UNCHANGED <<loaded, ring_counter, new_query, sm_in, dup_in, origin, old_query,
                     descriptors, update>>
  BY <1>a, Zenon DEF SampleStep, ringAll, hostVars, midVars
<1>1. SUFFICES ASSUME Node2Vec
               PROVE  /\ query' \in Seq(AskPkg)
                      /\ input' \in Seq(AnswerPkg)
                      /\ Answered(origin', input', query')
  BY <1>a, <1>b, TrackNext, Zenon DEF TrackInv, Tracks
<1>2. Tracks /\ Answered(origin, input, query) /\ job \in Jobs
  BY <1>a, <1>1 DEF TrackInv
<1>3. query # <<>> /\ query' = Tail(query) /\ origin' = origin
  BY <1>a, <1>1, Zenon DEF SampleStep
<1>4. origin \in Seq(OnLap) /\ input \in Seq(AnswerPkg) /\ query \in Seq(AskPkg)
  BY <1>2 DEF Tracks
<1>5. PICK x \in OnLap :
        /\ Head(query) = Ask(x)
        /\ \A u \in AnswerPkg : Replies(x, u) => Answered(origin, Append(input, u), Tail(query))
  BY <1>2, <1>3, <1>4, AnsweredNext, Zenon
<1>6. /\ x \in WalkPkg /\ OnTrack(x) /\ x.v \in DOMAIN job.graph
      /\ x.dead \in BOOLEAN /\ x.last \in BOOLEAN
  BY Zenon DEF OnLap, WalkPkg
<1>7. /\ Ask(x).v = x.v /\ Ask(x).dead = x.dead /\ Ask(x).last = x.last
  BY DEF Ask
<1>8. Adj(x.v) # {}
  BY <1>6 DEF OnTrack
<1>9. \E u \in AnswerPkg : Replies(x, u) /\ input' = Append(input, u)
  <2>1. CASE x.dead
    <3> DEFINE u == [v |-> 0, dead |-> TRUE, last |-> x.last]
    <3>1. input' = Append(input, u)
      BY <1>a, <1>1, <1>5, <1>7, <2>1, Zenon DEF SampleStep
    <3>2. u.v = 0 /\ u.dead = TRUE /\ u.last = x.last /\ 0 \in {0} \union DOMAIN job.graph
      OBVIOUS
    <3>3. u \in AnswerPkg
      BY <1>6, <3>2, Zenon DEF AnswerPkg
    <3> HIDE DEF u
    <3>4. Replies(x, u)
      BY <2>1, <3>2, Zenon DEF Replies
    <3> QED
      BY <3>1, <3>3, <3>4, Zenon
  <2>2. CASE ~x.dead
    <3>1. PICK w \in Weighed(Ask(x)) :
             input' = Append(input, [v |-> w, dead |-> FALSE, last |-> x.last])
      BY <1>a, <1>1, <1>5, <1>7, <1>8, <2>2, Zenon DEF SampleStep
    <3>2. w \in Adj(x.v)
      BY <1>2, <2>2, SampleIsNeighbour, Zenon
    <3>3. w \in {0} \union DOMAIN job.graph
      BY <1>2, <1>6, <3>2, JobGraph, Zenon
    <3> DEFINE u == [v |-> w, dead |-> FALSE, last |-> x.last]
    <3>4. u.v = w /\ u.dead = FALSE /\ u.last = x.last
      OBVIOUS
    <3>5. u \in AnswerPkg
      BY <1>6, <3>3, Zenon DEF AnswerPkg
    <3>6. input' = Append(input, u)
      BY <3>1
    <3> HIDE DEF u
    <3>7. Replies(x, u)
      BY <2>2, <3>2, <3>4, Zenon DEF Replies
    <3> QED
      BY <3>5, <3>6, <3>7, Zenon
  <2> QED
    BY <2>1, <2>2
<1>10. PICK u \in AnswerPkg : Replies(x, u) /\ input' = Append(input, u)
  BY <1>9
<1>11. Append(input, u) \in Seq(AnswerPkg) /\ Tail(query) \in Seq(AskPkg)
  BY <1>3, <1>4, PushElements, PopElements, Zenon
<1> QED
  BY <1>3, <1>5, <1>10, <1>11, Zenon

\* fetch_next puts a walk and its answer together.
LEMMA UpdateTrack == TrackInv /\ UpdateStep => TrackInv'
<1>a. SUFFICES ASSUME TrackInv, UpdateStep
               PROVE  TrackInv'
  OBVIOUS
<1>b. /\ job' = job
      /\ UNCHANGED <<loaded, ring_counter, new_query, sm_in, dup_in, query,
                     descriptors, update>>
  BY <1>a, Zenon DEF UpdateStep, loaderVars, ringVars, hostVars, midVars
<1>1. SUFFICES ASSUME Node2Vec
               PROVE  /\ origin' \in Seq(OnLap)
                      /\ input' \in Seq(AnswerPkg)
                      /\ old_query' \in Seq(Back)
                      /\ Answered(origin', input', query')
  BY <1>a, <1>b, TrackNext, Zenon DEF TrackInv, Tracks
<1>2. Tracks /\ Answered(origin, input, query) /\ job \in Jobs
  BY <1>a, <1>1 DEF TrackInv
<1>3. /\ origin # <<>> /\ input # <<>> /\ origin' = Tail(origin) /\ input' = Tail(input)
      /\ old_query' = Append(old_query, Stepped(Head(origin), Head(input)))
      /\ query' = query
  BY <1>a, <1>1, Zenon DEF UpdateStep
<1>4. /\ origin \in Seq(OnLap) /\ input \in Seq(AnswerPkg) /\ query \in Seq(AskPkg)
      /\ old_query \in Seq(Back)
  BY <1>2 DEF Tracks
<1>5. /\ Head(origin) \in OnLap /\ Tail(origin) \in Seq(OnLap)
      /\ Head(input) \in AnswerPkg /\ Tail(input) \in Seq(AnswerPkg)
  BY <1>3, <1>4, PopElements, Zenon
<1>6. /\ Replies(Head(origin), Head(input))
      /\ Answered(Tail(origin), Tail(input), query)
  BY <1>2, <1>3, <1>4, AnsweredFirst, Zenon
<1>7. Stepped(Head(origin), Head(input)) \in Back
  BY <1>2, <1>5, <1>6, SteppedTrack, Zenon
<1>8. Append(old_query, Stepped(Head(origin), Head(input))) \in Seq(Back)
  BY <1>4, <1>7, PushElements, Zenon
<1> QED
  BY <1>3, <1>5, <1>6, <1>8, Zenon

\* The kernels of the uniform walk do not run in a Node2Vec job: those that
\* wait for a packet of theirs never get one.
LEMMA UniformTrack ==
  TrackInv /\ (CountStep \/ VertexLoader \/ CalSampleIndex \/ FetchVertex \/ UniformStep)
     => TrackInv'
<1>1. SUFFICES ASSUME TrackInv, CountStep \/ VertexLoader \/ CalSampleIndex \/ FetchVertex
                                  \/ UniformStep
               PROVE  TrackInv'
  OBVIOUS
<1>2. job' = job
  BY <1>1, Zenon DEF CountStep, VertexLoader, CalSampleIndex, FetchVertex, UniformStep,
     hostVars
<1>3. ~Node2Vec
  BY <1>1, Zenon DEF CountStep, VertexLoader, CalSampleIndex, FetchVertex, UniformStep,
     TrackInv, Tracks
<1> QED
  BY <1>1, <1>2, <1>3, TrackNext, Zenon

\* The host's calls move no packet.
LEMMA HostTrack ==
  TrackInv /\ (SetQuery \/ Start \/ Stop \/ GetRes \/ HostEnds \/ UNCHANGED walkVars)
     => TrackInv'
<1>1. SUFFICES ASSUME TrackInv, SetQuery \/ Start \/ Stop \/ GetRes \/ HostEnds
                                  \/ UNCHANGED walkVars
               PROVE  TrackInv'
  OBVIOUS
<1>2. /\ job' = job
      /\ UNCHANGED <<new_query, sm_in, dup_in, origin, old_query, query, input,
                     descriptors, update>>
  BY <1>1, Zenon DEF SetQuery, Start, Stop, GetRes, HostEnds, walkVars, vars, loaderVars,
     ringVars, hostVars, midVars
<1>3. /\ loaded' = loaded \/ loaded' = 0
      /\ ring_counter' = ring_counter \/ ring_counter' = 0
  BY <1>1, Zenon DEF SetQuery, Start, Stop, GetRes, HostEnds, walkVars, vars, loaderVars,
     ringVars
<1>4. 0 \in 0 .. TotalLoad /\ 0 \in Slots
  BY SizeAssumption, RecordAssumption DEF Slots
<1> QED
  BY <1>1, <1>2, <1>3, <1>4, TrackNext, Zenon DEF TrackInv, Tracks

\* Every action keeps the walks on their track.
LEMMA TrackStep == TrackInv /\ [WalkNext]_walkVars => TrackInv'
BY LoadTrack, RingTrack, RecordTrack, DuplicateTrack, SampleTrack, UpdateTrack,
   UniformTrack, HostTrack, Zenon DEF WalkNext

\* In every reachable state of a Node2Vec job all walks are on their track.
THEOREM WalksOnTrack == WalkSpec => []TrackInv
BY TrackInit, TrackStep, PTL DEF WalkSpec

\* The walks of the loop are the walks of its streams.
LEMMA LoopTrack ==
  ASSUME TrackInv, Node2Vec
  PROVE  Loop \in Seq({q \in WalkPkg : OnTrack(q)})
<1> DEFINE S == {q \in WalkPkg : OnTrack(q)}
<1>1. OnLap \subseteq S /\ Back \subseteq S
  BY DEF OnLap, Back
<1>2. Tracks
  BY DEF TrackInv
<1> HIDE DEF S
<1>3. Seq(OnLap) \subseteq Seq(S) /\ Seq(Back) \subseteq Seq(S)
  BY <1>1
<1>4. old_query \in Seq(S) /\ origin \in Seq(S) /\ dup_in \in Seq(S) /\ sm_in \in Seq(S)
  BY <1>2, <1>3, Zenon DEF Tracks
<1>5. old_query \o origin \o dup_in \o sm_in \in Seq(S)
  BY <1>4, ChainElements, Zenon
<1> QED
  BY <1>5 DEF Loop, S

\* A Node2Vec walk carries, from its second lap on, an edge of its graph: the
\* answer that fetch_next pairs with it by position is a neighbour of its
\* vertex, whatever the word 0 stands for on the way.
THEOREM PrevIsAlwaysNeighbour == WalkSpec => []PrevIsNeighbour
<1>1. TrackInv => PrevIsNeighbour
  <2>1. SUFFICES ASSUME TrackInv, Node2Vec, NEW i \in 1 .. Len(Loop),
                        Loop[i].remain \in 1 .. WalkLen - 1
                 PROVE  Loop[i].v \in Adj(Loop[i].prev)
    BY Zenon DEF PrevIsNeighbour
  <2> DEFINE S == {q \in WalkPkg : OnTrack(q)}
  <2>2. Loop \in Seq(S)
    BY <2>1, LoopTrack
  <2> HIDE DEF S
  <2>3. Loop[i] \in S
    BY <2>2
  <2>4. OnTrack(Loop[i])
    BY <2>3 DEF S
  <2> QED
    BY <2>1, <2>4, Zenon DEF OnTrack
<1> QED
  BY <1>1, WalksOnTrack, PTL
=============================================================================
