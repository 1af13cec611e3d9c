-------------------------- MODULE QueryRingProofs --------------------------
(***************************************************************************)
(* Proofs about the query ring for every number of queries, ring size,     *)
(* walk length, stream depth and number of runs.                           *)
(***************************************************************************)
EXTENDS QueryRing, StreamLemmas, FiniteSetTheorems, TLAPS

\* What step_loader writes in a run is a natural number of packets.
LEMMA TotalLoadNat == TotalLoad \in Nat
<1>1. LoadBurst \in Nat \ {0} /\ NumQueries + LoadBurst - 1 \in Nat
  BY SizeAssumption
<1>2. (NumQueries + LoadBurst - 1) \div LoadBurst \in Nat
  BY <1>1
<1> QED
  BY <1>1, <1>2 DEF TotalLoad

\* A packet put into a slot is a packet.
LEMMA IssueType ==
  ASSUME NEW q \in StepPkg, NEW s \in 0..RingSize
  PROVE  Issue(q, s) \in StepPkg
BY DEF Issue, StepPkg

\* The packet of the next lap is a packet.
LEMMA StepUpdateType ==
  ASSUME NEW q \in StepPkg, NEW u \in NextPkg
  PROVE  StepUpdate(q, u) \in StepPkg
<1>1. (q.remain - 1) % StepMod \in Nat
  BY WalkAssumption DEF StepPkg
<1> QED
  BY <1>1 DEF StepUpdate, StepPkg, NextPkg

\* A packet whose last flag or remaining steps are replaced is a packet.
LEMMA LastType ==
  ASSUME NEW q \in StepPkg
  PROVE  [q EXCEPT !.last = q.remain = 1 /\ q.tag] \in StepPkg
BY Zenon DEF StepPkg

\* The packet metapath_sm passes on, its counter cut to nine bits, is a packet.
LEMMA TruncateType ==
  ASSUME NEW q \in StepPkg
  PROVE  [q EXCEPT !.remain = @ % StepMod] \in StepPkg
<1>1. q.remain \in Nat
  BY DEF StepPkg
<1>2. q.remain % StepMod \in Nat
  BY <1>1, WalkAssumption
<1> QED
  BY <1>2, Zenon DEF StepPkg

\* The kernels start in a state of the declared types.
LEMMA TypeInit == Init => TypeOK
BY SizeAssumption, DepthAssumption, TotalLoadNat
   DEF Init, TypeOK, Slots, NoSlot

\* Every action, ring_manager's halves and the host's next run included, keeps the types.
LEMMA TypeStep == TypeOK /\ [Next]_vars => TypeOK'
<1> USE SizeAssumption, DepthAssumption, TotalLoadNat
<1> SUFFICES ASSUME TypeOK, [Next]_vars
             PROVE  TypeOK'
  OBVIOUS
<1>2. TypeOK'
  <2> USE DEF TypeOK, loaderVars, ringVars, fetchVars, history
  <2>1. CASE LoadQuery
    <3>1. PICK r \in IF loaded < NumQueries THEN {WalkLen} ELSE PaddingSteps :
             new_query' = Append(new_query,
                        [id |-> loaded, remain |-> r, slot |-> 0,
                         tag |-> FALSE, dead |-> FALSE,
                         last |-> loaded = NumQueries - 1])
      BY <2>1, Zenon DEF LoadQuery
    <3>2. r \in Nat
      BY WalkAssumption
    <3>3. new_query' \in Seq(StepPkg)
      BY <3>1, <3>2 DEF StepPkg
    <3> QED
      BY <2>1, <3>3 DEF LoadQuery
  <2>2. CASE RingIdle
    BY <2>2 DEF RingIdle
  <2>3. CASE RingStop
    <3>1. Head(old_query) \in StepPkg /\ Tail(old_query) \in Seq(StepPkg)
      BY <2>3 DEF RingStop, Retired
    <3>2. Head(old_query).id \in Nat
      BY <3>1 DEF StepPkg
    <3>3. finished' \subseteq Nat
      BY <2>3, <3>2 DEF RingStop
    <3>4. old_query' \in Seq(StepPkg)
      BY <2>3, <3>1 DEF RingStop
    <3> HIDE <3>1, <3>2
    <3> QED
      BY <2>3, <3>3, <3>4, Zenon DEF RingStop
  <2>4. CASE RingReplace
    <3>1. Head(old_query) \in StepPkg /\ Head(new_query) \in StepPkg
      BY <2>4 DEF RingReplace, Retired
    <3>2. Issue(Head(new_query), Head(old_query).slot) \in StepPkg
      BY <3>1, IssueType DEF StepPkg
    <3>3. Head(old_query).id \in Nat /\ Head(new_query).id \in Nat
      BY <3>1 DEF StepPkg
    <3>4. finished' \subseteq Nat /\ paths' \subseteq Nat
      BY <2>4, <3>3 DEF RingReplace
    <3>5. /\ old_query' \in Seq(StepPkg)
          /\ new_query' \in Seq(StepPkg)
          /\ sm_in' \in Seq(StepPkg)
      BY <2>4, <3>2 DEF RingReplace, Retired
    <3> QED
      BY <2>4, <3>4, <3>5, Zenon DEF RingReplace
  <2>5. CASE RingRelease
    <3>1. Head(old_query) \in StepPkg /\ Tail(old_query) \in Seq(StepPkg)
      BY <2>5 DEF RingRelease, Retired
    <3>2. Head(old_query).id \in Nat /\ Head(old_query).slot \in 0..RingSize
      BY <3>1 DEF StepPkg
    <3>3. finished' \subseteq Nat /\ release' \in 0..RingSize
      BY <2>5, <3>2 DEF RingRelease
    <3>4. old_query' \in Seq(StepPkg)
      BY <2>5, <3>1 DEF RingRelease
    <3> QED
      BY <2>5, <3>3, <3>4, Zenon DEF RingRelease
  <2>6. CASE RingForward
    <3> DEFINE q == Head(old_query)
               p == [q EXCEPT !.last = q.remain = 1 /\ q.tag]
    <3>1. q \in StepPkg /\ Tail(old_query) \in Seq(StepPkg)
      BY <2>6 DEF RingForward
    <3>2. p \in StepPkg
      BY <3>1, LastType
    <3>3. old_query' \in Seq(StepPkg) /\ sm_in' = Append(sm_in, p)
      BY <2>6, <3>1 DEF RingForward
    <3> HIDE DEF q, p
    <3>4. sm_in' \in Seq(StepPkg)
      BY <3>2, <3>3
    <3> QED
      BY <2>6, <3>3, <3>4, Zenon DEF RingForward
  <2>7. CASE RingInsert
    <3>1. Head(new_query) \in StepPkg /\ Tail(new_query) \in Seq(StepPkg)
      BY <2>7 DEF RingInsert, CanInsert
    <3>2. Issue(Head(new_query), ring_counter) \in StepPkg
      BY <3>1, IssueType DEF Slots
    <3>3. (ring_counter + 1) % RingSize \in Slots
      BY DEF Slots
    <3>4. Head(new_query).id \in Nat
      BY <3>1 DEF StepPkg
    <3>5. paths' \subseteq Nat
      BY <2>7, <3>4 DEF RingInsert
    <3>6. new_query' \in Seq(StepPkg) /\ sm_in' \in Seq(StepPkg)
      BY <2>7, <3>1, <3>2 DEF RingInsert
    <3>7. slot_status' \in [Slots -> BOOLEAN]
      BY <2>7 DEF RingInsert
    <3>8. ring_counter' \in Slots /\ release' \in 0..RingSize
      BY <2>7, <3>3 DEF RingInsert, NoSlot
    <3> QED
      BY <2>7, <3>5, <3>6, <3>7, <3>8, Zenon DEF RingInsert
  <2>8. CASE RingCommit
    <3>1. slot_status' \in [Slots -> BOOLEAN]
      BY <2>8 DEF RingCommit
    <3>2. release' \in 0..RingSize
      BY <2>8 DEF RingCommit, NoSlot
    <3> QED
      BY <2>8, <3>1, <3>2, Zenon DEF RingCommit
  <2>9. CASE MetapathSm
    <3> DEFINE q == Head(sm_in)
               p == [q EXCEPT !.remain = @ % StepMod]
    <3>1. q \in StepPkg /\ Tail(sm_in) \in Seq(StepPkg)
      BY <2>9 DEF MetapathSm
    <3>2. p \in StepPkg
      BY <3>1, TruncateType
    <3>3. /\ sm_in' \in Seq(StepPkg)
          /\ dup_in' = Append(dup_in, p)
          /\ sm_run' \in BOOLEAN
      BY <2>9, <3>1, Zenon DEF MetapathSm
    <3> HIDE DEF q, p
    <3>4. dup_in' \in Seq(StepPkg)
      BY <3>2, <3>3
    <3>5. state_out' = Append(state_out, q.remain % StepMod)
      BY <2>9, Zenon DEF MetapathSm, q
    <3>6. q.remain % StepMod \in 0 .. StepMod - 1
      <4>1. q.remain \in Nat
        BY <3>1 DEF StepPkg
      <4> QED
        BY <4>1, WalkAssumption, SMTT(30)
    <3>7. state_out' \in Seq(0 .. StepMod - 1)
      BY <3>5, <3>6
    <3> QED
      BY <2>9, <3>3, <3>4, <3>7, Zenon DEF MetapathSm
  <2>10. CASE StepDuplicator
    <3>1. Head(dup_in) \in StepPkg
      BY <2>10 DEF StepDuplicator
    <3>2. [dead |-> Head(dup_in).dead, last |-> Head(dup_in).last] \in NextPkg
      BY <3>1 DEF StepPkg, NextPkg
    <3> QED
      BY <2>10, <3>1, <3>2, SMTT(30) DEF StepDuplicator
  <2>11. CASE SamplePath
    <3>1. Head(query) \in NextPkg /\ Tail(query) \in Seq(NextPkg)
      BY <2>11 DEF SamplePath
    <3>2. PICK dead \in BOOLEAN :
            input' = Append(input, [dead |-> dead, last |-> Head(query).last])
      BY <2>11, Zenon DEF SamplePath
    <3>3. input' \in Seq(NextPkg)
      BY <3>1, <3>2 DEF NextPkg
    <3>4. walk_run' \in BOOLEAN /\ query' \in Seq(NextPkg)
      BY <2>11, <3>1, Zenon DEF SamplePath
    <3>5. state_out' \in Seq(0 .. StepMod - 1)
      BY <2>11 DEF SamplePath
    <3> QED
      BY <2>11, <3>3, <3>4, <3>5, Zenon DEF SamplePath
  <2>12. CASE FetchNext
    <3>1. Head(origin) \in StepPkg /\ Head(input) \in NextPkg
      BY <2>12 DEF FetchNext
    <3>2. StepUpdate(Head(origin), Head(input)) \in StepPkg
      BY <3>1, StepUpdateType
    <3>3. fetch_run' \in BOOLEAN
      BY <2>12, Zenon DEF FetchNext
    <3>4. count' \in Nat /\ res' \in Nat
      BY <2>12 DEF FetchNext
    <3>5. /\ origin' \in Seq(StepPkg) /\ input' \in Seq(NextPkg)
          /\ old_query' \in Seq(StepPkg)
      BY <2>12, <3>2 DEF FetchNext
    <3> QED
      BY <2>12, <3>3, <3>4, <3>5, Zenon DEF FetchNext
  <2>13. CASE HostNextRun
    BY <2>13 DEF HostNextRun, Slots, NoSlot
  <2>14. CASE HostDone
    BY <2>14 DEF HostDone, vars
  <2>15. CASE UNCHANGED vars
    BY <2>15 DEF vars
  <2> QED
    BY <2>1, <2>2, <2>3, <2>4, <2>5, <2>6, <2>7, <2>8, <2>9, <2>10, <2>11,
       <2>12, <2>13, <2>14, <2>15 DEF Next, RingManager
<1> QED
  BY <1>2

\* Every variable of the ring keeps its type in every reachable state.
THEOREM TypeCorrect == Spec => []TypeOK
BY TypeInit, TypeStep, PTL DEF Spec

-----------------------------------------------------------------------------
(* The loop as one sequence of packets: what the steps of the kernels do to *)
(* a chain of four streams                                                  *)

Chain(a, b, c, d) == a \o b \o c \o d

\* A packet that leaves old_query leaves the front of the loop.
LEMMA LoopPop ==
  ASSUME NEW a \in Seq(StepPkg), NEW b \in Seq(StepPkg), NEW c \in Seq(StepPkg),
         NEW d \in Seq(StepPkg), a # <<>>
  PROVE  Chain(Tail(a), b, c, d) = Tail(Chain(a, b, c, d))
<1>1. a \o b \in Seq(StepPkg) /\ a \o b # <<>>
  OBVIOUS
<1>2. a \o b \o c \in Seq(StepPkg) /\ a \o b \o c # <<>>
  BY <1>1
<1>3. Tail(a) \o b = Tail(a \o b)
  BY PopChain
<1>4. Tail(a \o b) \o c = Tail(a \o b \o c)
  BY <1>1, PopChain
<1>5. Tail(a \o b \o c) \o d = Tail(a \o b \o c \o d)
  BY <1>2, PopChain
<1> QED
  BY <1>3, <1>4, <1>5 DEF Chain

\* A packet that moves from one stream of the loop to the next keeps its place.
LEMMA LoopPass ==
  ASSUME NEW a \in Seq(StepPkg), NEW b \in Seq(StepPkg), NEW c \in Seq(StepPkg),
         NEW d \in Seq(StepPkg)
  PROVE  /\ c # <<>> => Chain(a, Append(b, Head(c)), Tail(c), d) = Chain(a, b, c, d)
         /\ d # <<>> => Chain(a, b, Append(c, Head(d)), Tail(d)) = Chain(a, b, c, d)
<1>1. ASSUME c # <<>>
      PROVE  a \o Append(b, Head(c)) \o Tail(c) \o d = a \o b \o c \o d
  <2>1. Head(c) \in StepPkg
    BY <1>1, PopElements
  <2>2. a \o Append(b, Head(c)) = Append(a \o b, Head(c))
    BY <2>1, PushChain
  <2>3. Append(a \o b, Head(c)) \o Tail(c) = a \o b \o c
    BY <1>1, ChainElements, MoveHead
  <2> QED
    BY <2>2, <2>3
<1>2. ASSUME d # <<>>
      PROVE  a \o b \o Append(c, Head(d)) \o Tail(d) = a \o b \o c \o d
  <2>1. Head(d) \in StepPkg /\ a \o b \in Seq(StepPkg)
    BY <1>2, PopElements, ChainElements
  <2>2. a \o b \o Append(c, Head(d)) = Append(a \o b \o c, Head(d))
    BY <2>1, PushChain
  <2>3. a \o b \o c \in Seq(StepPkg)
    BY <2>1, ChainElements
  <2>4. Append(a \o b \o c, Head(d)) \o Tail(d) = a \o b \o c \o d
    BY <1>2, <2>3, MoveHead
  <2> QED
    BY <2>2, <2>4
<1> QED
  BY <1>1, <1>2 DEF Chain

-----------------------------------------------------------------------------
(* The fields of the packets the kernels write                              *)

\* What ring_manager changes of a query it puts into a slot: the slot and the two flags.
LEMMA IssueFields ==
  ASSUME NEW q \in StepPkg, NEW s
  PROVE  /\ Issue(q, s).id = q.id /\ Issue(q, s).remain = q.remain
         /\ Issue(q, s).dead = q.dead /\ Issue(q, s).slot = s
         /\ Issue(q, s).tag = q.last /\ ~Issue(q, s).last
BY Zenon DEF Issue, StepPkg

\* What ring_manager changes of a query it sends around again: the last flag.
LEMMA LastFields ==
  ASSUME NEW q \in StepPkg, NEW e
  PROVE  LET p == [q EXCEPT !.last = e]
         IN  /\ p.id = q.id /\ p.remain = q.remain /\ p.dead = q.dead
             /\ p.slot = q.slot /\ p.tag = q.tag /\ p.last = e
BY Zenon DEF StepPkg

\* What step_update changes of a step: the counter, the mark of a dead walk and the last flag.
LEMMA UpdateFields ==
  ASSUME NEW q \in StepPkg, NEW u \in NextPkg
  PROVE  LET p == StepUpdate(q, u)
         IN  /\ p.id = q.id /\ p.remain = (q.remain - 1) % StepMod
             /\ p.dead = (u.dead \/ q.remain = 2)
             /\ p.slot = q.slot /\ p.tag = q.tag /\ p.last = u.last
BY Zenon DEF StepUpdate, StepPkg, NextPkg

\* Cutting the counter to nine bits changes no counter of a walk short enough.
LEMMA TruncateSame ==
  ASSUME NEW q \in StepPkg, q.remain < StepMod
  PROVE  [q EXCEPT !.remain = @ % StepMod] = q
<1>1. q.remain \in Nat
  BY DEF StepPkg
<1>2. q.remain % StepMod = q.remain
  BY <1>1, WalkAssumption
<1> QED
  BY <1>2, Zenon DEF StepPkg

-----------------------------------------------------------------------------
(* How the steps of the kernels change the loop and the laps left           *)

\* The loop is the chain of its four streams, before and after a step.
LEMMA LoopChain ==
  /\ Loop = Chain(old_query, origin, dup_in, sm_in)
  /\ Loop' = Chain(old_query', origin', dup_in', sm_in')
BY DEF Loop, Chain

\* The loop is a sequence of packets, and where the packets of its streams are in it.
LEMMA LoopType ==
  ASSUME TypeOK
  PROVE  /\ Loop \in Seq(StepPkg)
         /\ Len(Loop) = Len(old_query) + Len(origin) + Len(dup_in) + Len(sm_in)
         /\ \A i \in 1 .. Len(old_query) : Loop[i] = old_query[i]
         /\ \A i \in 1 .. Len(origin) : Loop[Len(old_query) + i] = origin[i]
         /\ \A i \in 1 .. Len(Loop) : Laps[i] \in Int
<1>1. /\ old_query \in Seq(StepPkg) /\ origin \in Seq(StepPkg)
      /\ dup_in \in Seq(StepPkg) /\ sm_in \in Seq(StepPkg)
  BY DEF TypeOK
<1>2. /\ Loop \in Seq(StepPkg)
      /\ Len(Loop) = Len(old_query) + Len(origin) + Len(dup_in) + Len(sm_in)
      /\ \A i \in 1 .. Len(old_query) : Loop[i] = old_query[i]
      /\ \A i \in 1 .. Len(origin) : Loop[Len(old_query) + i] = origin[i]
  <2> DEFINE a == old_query \o origin
             b == a \o dup_in
  <2>1. /\ a \in Seq(StepPkg) /\ Len(a) = Len(old_query) + Len(origin)
        /\ \A i \in 1 .. Len(old_query) : a[i] = old_query[i]
        /\ \A i \in 1 .. Len(origin) : a[Len(old_query) + i] = origin[i]
    BY <1>1
  <2>0. a \in Seq(StepPkg)
    BY <2>1
  <2> HIDE DEF a
  <2>2. /\ b \in Seq(StepPkg) /\ Len(b) = Len(a) + Len(dup_in)
        /\ \A i \in 1 .. Len(a) : b[i] = a[i]
    BY <1>1, <2>0
  <2>3. Loop = b \o sm_in
    BY DEF Loop, a
  <2>20. b \in Seq(StepPkg)
    BY <2>2
  <2> HIDE DEF b
  <2>4. /\ Loop \in Seq(StepPkg) /\ Len(Loop) = Len(b) + Len(sm_in)
        /\ \A i \in 1 .. Len(b) : Loop[i] = b[i]
    BY <1>1, <2>20, <2>3
  <2> HIDE DEF Loop
  <2>5. /\ Len(old_query) \in Nat /\ Len(origin) \in Nat
        /\ Len(dup_in) \in Nat /\ Len(sm_in) \in Nat
    BY <1>1
  <2>6. Len(Loop) = Len(old_query) + Len(origin) + Len(dup_in) + Len(sm_in)
    BY <2>1, <2>2, <2>4, <2>5
  <2>7. \A i \in 1 .. Len(old_query) + Len(origin) : Loop[i] = a[i]
    BY <2>1, <2>2, <2>4, <2>5
  <2>8. \A i \in 1 .. Len(old_query) : Loop[i] = old_query[i]
    BY <2>1, <2>5, <2>7
  <2>9. \A i \in 1 .. Len(origin) : Loop[Len(old_query) + i] = origin[i]
    <3> SUFFICES ASSUME NEW i \in 1 .. Len(origin)
                 PROVE  Loop[Len(old_query) + i] = origin[i]
      OBVIOUS
    <3> QED
      BY <2>1, <2>5, <2>7
  <2> QED
    BY <2>4, <2>6, <2>8, <2>9
<1> HIDE DEF Loop
<1>3. ASSUME NEW i \in 1 .. Len(Loop) PROVE Loop[i].remain \in Nat
  <2>1. Loop[i] \in StepPkg
    BY <1>2
  <2> QED
    BY <2>1 DEF StepPkg
<1> QED
  BY <1>2, <1>3 DEF Laps

\* ring_manager takes the next query off the loop.
LEMMA PopStep ==
  ASSUME TypeOK, old_query # <<>>, old_query' = Tail(old_query),
         UNCHANGED <<origin, dup_in, sm_in>>
  PROVE  /\ Len(Loop) \in Nat /\ Len(Loop) >= 1 /\ Len(Loop)' = Len(Loop) - 1
         /\ Loop[1] = Head(old_query) /\ Laps[1] = Head(old_query).remain
         /\ \A i \in 1 .. Len(Loop) - 1 : Loop'[i] = Loop[i + 1]
         /\ \A i \in 1 .. Len(Loop) - 1 : Laps'[i] = Laps[i + 1]
<1>1. /\ old_query \in Seq(StepPkg) /\ origin \in Seq(StepPkg)
      /\ dup_in \in Seq(StepPkg) /\ sm_in \in Seq(StepPkg)
  BY DEF TypeOK
<1>2. /\ Len(old_query) \in Nat /\ Len(old_query) >= 1
      /\ Head(old_query) = old_query[1] /\ Len(old_query)' = Len(old_query) - 1
  BY <1>1
<1>3. /\ Loop \in Seq(StepPkg) /\ Loop # <<>> /\ Loop[1] = Head(old_query)
      /\ Len(old_query) <= Len(Loop)
  BY <1>1, <1>2, LoopType
<1>4. Loop' = Tail(Loop)
  BY <1>1, LoopPop, LoopChain
<1> HIDE DEF Loop
<1>5. /\ Len(Loop) \in Nat /\ Len(Loop) >= 1 /\ Len(Loop)' = Len(Loop) - 1
      /\ \A i \in 1 .. Len(Loop) - 1 : Loop'[i] = Loop[i + 1]
  BY <1>3, <1>4
<1>6. \A i \in 1 .. Len(Loop) - 1 : Laps'[i] = Laps[i + 1]
  BY <1>2, <1>5 DEF Laps
<1> QED
  BY <1>2, <1>3, <1>5, <1>6 DEF Laps

\* ring_manager puts a query on the loop.
LEMMA PushStep ==
  ASSUME TypeOK, NEW p \in StepPkg, sm_in' = Append(sm_in, p),
         UNCHANGED <<old_query, origin, dup_in>>
  PROVE  /\ Len(Loop) \in Nat /\ Len(Loop)' = Len(Loop) + 1
         /\ \A i \in 1 .. Len(Loop) : Loop'[i] = Loop[i]
         /\ \A i \in 1 .. Len(Loop) : Laps'[i] = Laps[i]
         /\ Loop'[Len(Loop) + 1] = p
         /\ Laps'[Len(Loop) + 1] = p.remain - 1
<1>1. /\ old_query \in Seq(StepPkg) /\ origin \in Seq(StepPkg)
      /\ dup_in \in Seq(StepPkg) /\ sm_in \in Seq(StepPkg)
  BY DEF TypeOK
<1>2. /\ Loop \in Seq(StepPkg) /\ Len(old_query) \in Nat
      /\ Len(old_query) <= Len(Loop)
  BY <1>1, LoopType
<1>3. Loop' = Append(Loop, p)
  <2> DEFINE b == old_query \o origin \o dup_in
  <2>1. b \in Seq(StepPkg)
    BY <1>1, ChainElements
  <2>2. Loop = b \o sm_in /\ Loop' = b \o Append(sm_in, p)
    BY DEF Loop
  <2> HIDE DEF b, Loop
  <2> QED
    BY <1>1, <2>1, <2>2, PushChain
<1> HIDE DEF Loop
<1>4. /\ Len(Loop) \in Nat /\ Len(Loop)' = Len(Loop) + 1
      /\ \A i \in 1 .. Len(Loop) : Loop'[i] = Loop[i]
      /\ Loop'[Len(Loop) + 1] = p
  BY <1>2, <1>3
<1>5. \A i \in 1 .. Len(Loop) : Laps'[i] = Laps[i]
  BY <1>4 DEF Laps
<1>6. Laps'[Len(Loop) + 1] = p.remain - 1
  <2>1. ~(Len(Loop) + 1 <= Len(old_query)')
    BY <1>2, <1>4
  <2> QED
    BY <1>4, <2>1 DEF Laps
<1> QED
  BY <1>4, <1>5, <1>6

\* ring_manager takes a query off the loop and puts one on it.
LEMMA TurnStep ==
  ASSUME TypeOK, NEW p \in StepPkg, sm_in' = Append(sm_in, p),
         old_query # <<>>, old_query' = Tail(old_query),
         UNCHANGED <<origin, dup_in>>
  PROVE  /\ Len(Loop) \in Nat /\ Len(Loop) >= 1 /\ Len(Loop)' = Len(Loop)
         /\ Loop[1] = Head(old_query) /\ Laps[1] = Head(old_query).remain
         /\ \A i \in 1 .. Len(Loop) - 1 : Loop'[i] = Loop[i + 1]
         /\ \A i \in 1 .. Len(Loop) - 1 : Laps'[i] = Laps[i + 1]
         /\ Loop'[Len(Loop)] = p /\ Laps'[Len(Loop)] = p.remain - 1
<1>1. /\ old_query \in Seq(StepPkg) /\ origin \in Seq(StepPkg)
      /\ dup_in \in Seq(StepPkg) /\ sm_in \in Seq(StepPkg)
  BY DEF TypeOK
<1>2. /\ Len(old_query) \in Nat /\ Len(old_query) >= 1
      /\ Head(old_query) = old_query[1] /\ Len(old_query)' = Len(old_query) - 1
  BY <1>1
<1>3. /\ Loop \in Seq(StepPkg) /\ Loop # <<>> /\ Loop[1] = Head(old_query)
      /\ Len(old_query) <= Len(Loop)
  BY <1>1, <1>2, LoopType
<1>4. Loop' = Append(Tail(Loop), p)
  <2>1. Tail(old_query) \in Seq(StepPkg)
    BY <1>1
  <2> DEFINE b == Tail(old_query) \o origin \o dup_in
  <2>2. b \o sm_in = Tail(Loop)
    <3>1. Chain(Tail(old_query), origin, dup_in, sm_in) = Tail(Loop)
      BY <1>1, LoopPop, LoopChain
    <3> QED
      BY <3>1, Zenon DEF Chain
  <2>3. b \in Seq(StepPkg)
    BY <1>1, <2>1, ChainElements
  <2>4. Loop' = b \o Append(sm_in, p)
    BY DEF Loop
  <2> HIDE DEF b, Loop
  <2>5. b \o Append(sm_in, p) = Append(b \o sm_in, p)
    BY <1>1, <2>3, PushChain
  <2> QED
    BY <2>2, <2>4, <2>5, Zenon
<1> HIDE DEF Loop
<1>5. /\ Len(Loop) \in Nat /\ Len(Loop) >= 1 /\ Len(Loop)' = Len(Loop)
      /\ \A i \in 1 .. Len(Loop) - 1 : Loop'[i] = Loop[i + 1]
      /\ Loop'[Len(Loop)] = p
  BY <1>3, <1>4
<1>6. \A i \in 1 .. Len(Loop) - 1 : Laps'[i] = Laps[i + 1]
  BY <1>2, <1>5 DEF Laps
<1>7. Laps[1] = Head(old_query).remain /\ Laps'[Len(Loop)] = p.remain - 1
  BY <1>2, <1>3, <1>5 DEF Laps
<1> QED
  BY <1>3, <1>5, <1>6, <1>7

-----------------------------------------------------------------------------
(* The inductive invariant, one lemma per step.  TypeOK is TypeStep.        *)

Rest == /\ NewInv /\ WalkInv /\ OrderInv /\ AccountInv /\ PathInv
        /\ SlotOwnership /\ FinalLapIsDead /\ ReleaseInv /\ DoneInv

\* What the invariant says about the packets of the loop.
LEMMA LoopFields ==
  ASSUME TypeOK, NEW i \in 1 .. Len(Loop)
  PROVE  /\ Loop[i] \in StepPkg
         /\ Loop[i].id \in Nat /\ Loop[i].remain \in Nat
         /\ Loop[i].slot \in 0..RingSize /\ Laps[i] \in Int
         /\ Loop[i].tag \in BOOLEAN /\ Loop[i].dead \in BOOLEAN
         /\ Loop[i].last \in BOOLEAN
<1>1. Loop[i] \in StepPkg
  BY LoopType
<1> HIDE DEF Loop
<1>2. /\ Loop[i].id \in Nat /\ Loop[i].remain \in Nat
      /\ Loop[i].slot \in 0..RingSize
      /\ Loop[i].tag \in BOOLEAN /\ Loop[i].dead \in BOOLEAN
      /\ Loop[i].last \in BOOLEAN
  BY <1>1, Zenon DEF StepPkg
<1> QED
  BY <1>1, <1>2, LoopType

\* Sending a query around again keeps the invariant: it becomes the last of the loop, a lap later.
LEMMA ForwardStep ==
  ASSUME TypeOK, Rest, RingForward
  PROVE  Rest'
<1> DEFINE q == Head(old_query)
           p == [q EXCEPT !.last = q.remain = 1 /\ q.tag]
           n == Len(Loop)
<1>1. /\ rm_pc = "recv" /\ rm_pc' = "insert" /\ old_query # <<>>
      /\ q.remain # 0 /\ old_query' = Tail(old_query)
      /\ sm_in' = Append(sm_in, p)
      /\ UNCHANGED <<run, loaded, new_query, slot_status, ring_counter, release,
                     sm_run, dup_in, origin, query, walk_run, input,
                     finished, paths>>
  BY Zenon DEF RingForward, loaderVars, history
<1>2. q \in StepPkg
  BY <1>1, PopElements DEF TypeOK
<1>3. p \in StepPkg
  BY <1>2, LastType
<1>4. /\ p.id = q.id /\ p.remain = q.remain /\ p.dead = q.dead
      /\ p.slot = q.slot /\ p.tag = q.tag /\ p.last = (q.remain = 1 /\ q.tag)
  BY <1>2, LastFields, Zenon
<1> HIDE DEF p
<1>5. /\ n \in Nat /\ n >= 1 /\ Len(Loop)' = n
      /\ Loop[1] = q /\ Laps[1] = q.remain
      /\ \A i \in 1 .. n - 1 : Loop'[i] = Loop[i + 1]
      /\ \A i \in 1 .. n - 1 : Laps'[i] = Laps[i + 1]
      /\ Loop'[n] = p /\ Laps'[n] = p.remain - 1
  BY <1>1, <1>3, TurnStep
<1>6. /\ q.id \in Nat /\ q.remain \in Nat /\ q.slot \in 0..RingSize
      /\ \A i \in 1 .. n : Loop[i].id \in Nat /\ Laps[i] \in Int
  BY <1>5, LoopFields
<1> HIDE DEF q, n, Loop, Laps
<1>10. NewInv'
  BY <1>1 DEF Rest, NewInv, Issued
<1>11. WalkInv'
  <2> SUFFICES ASSUME NEW i \in 1 .. n
               PROVE  /\ Laps'[i] \in 0 .. WalkLen - 1
                      /\ Loop'[i].tag = (Loop'[i].id = NumQueries - 1)
                      /\ Loop'[i].last = (Loop'[i].tag /\ Laps'[i] = 0)
    BY <1>5 DEF WalkInv
  <2>1. CASE i \in 1 .. n - 1
    <3>1. i + 1 \in 1 .. n /\ Loop'[i] = Loop[i + 1] /\ Laps'[i] = Laps[i + 1]
      BY <1>5, <2>1
    <3> QED
      BY <3>1, Zenon DEF Rest, WalkInv, n
  <2>2. CASE i = n
    <3>1. /\ Laps[1] \in 0 .. WalkLen - 1
          /\ q.tag = (q.id = NumQueries - 1)
      BY <1>5 DEF Rest, WalkInv, n
    <3>2. Laps'[n] \in 0 .. WalkLen - 1 /\ (Laps'[n] = 0 <=> q.remain = 1)
      BY <1>1, <1>4, <1>5, <1>6, <3>1, WalkAssumption
    <3> QED
      BY <1>4, <1>5, <2>2, <3>1, <3>2, Zenon
  <2> QED
    BY <1>5, <2>1, <2>2
<1>12. OrderInv'
  <2> SUFFICES ASSUME NEW i \in 1 .. n, NEW j \in 1 .. n, i < j
               PROVE  \/ Loop'[i].id < Loop'[j].id /\ Laps'[i] <= Laps'[j]
                      \/ Loop'[i].id > Loop'[j].id /\ Laps'[i] > Laps'[j]
    BY <1>5 DEF OrderInv
  <2>1. i \in 1 .. n - 1 /\ i + 1 \in 1 .. n
    BY <1>5
  <2>2. CASE j \in 1 .. n - 1
    <3>1. j + 1 \in 1 .. n /\ i + 1 < j + 1
      BY <1>5, <2>2
    <3> QED
      BY <1>5, <2>1, <2>2, <3>1 DEF Rest, OrderInv, n
  <2>3. CASE j = n
    <3>1. \/ Loop[1].id < Loop[i + 1].id /\ Laps[1] <= Laps[i + 1]
          \/ Loop[1].id > Loop[i + 1].id /\ Laps[1] > Laps[i + 1]
      BY <1>5, <2>1 DEF Rest, OrderInv, n
    <3> QED
      BY <1>4, <1>5, <1>6, <2>1, <2>3, <3>1
  <2> QED
    BY <1>5, <2>2, <2>3
<1>13. AccountInv'
  <2>1. \A i \in 1 .. n : Loop'[i].id < Issued' /\ Loop'[i].id \notin finished'
    BY <1>1, <1>4, <1>5 DEF Rest, AccountInv, Issued, n
  <2>2. ASSUME NEW i \in 1 .. n PROVE \E j \in 1 .. n : Loop'[j].id = Loop[i].id
    <3>1. CASE i = 1
      BY <1>4, <1>5, <3>1
    <3>2. CASE i # 1
      <4>1. i - 1 \in 1 .. n - 1 /\ (i - 1) + 1 = i
        BY <1>5, <3>2
      <4> QED
        BY <1>5, <4>1, SMTT(30)
    <3> QED
      BY <3>1, <3>2
  <2>3. Issued' = Issued /\ finished' = finished
    BY <1>1 DEF Issued
  <2>4. ASSUME NEW k \in 0 .. Issued - 1
        PROVE  k \in finished \/ \E i \in 1 .. n : Loop'[i].id = k
    BY <2>2 DEF Rest, AccountInv, n
  <2>5. finished \subseteq 0 .. Issued - 1
    BY DEF Rest, AccountInv
  <2> HIDE DEF Issued
  <2> QED
    BY <1>5, <2>1, <2>3, <2>4, <2>5 DEF AccountInv
<1>14. PathInv'
  BY <1>1 DEF Rest, PathInv
<1>15. SlotOwnership'
  <2>1. \A i \in 1 .. n : /\ Loop'[i].slot \in Slots
                          /\ slot_status'[Loop'[i].slot]
                          /\ Loop'[i].slot # release'
    BY <1>1, <1>4, <1>5, SMTT(30) DEF Rest, SlotOwnership, n
  <2>2. ASSUME NEW i \in 1 .. n, NEW j \in 1 .. n, i < j
        PROVE  Loop'[i].slot # Loop'[j].slot
    <3>1. i \in 1 .. n - 1 /\ i + 1 \in 1 .. n /\ i + 1 # 1
      BY <1>5, <2>2
    <3>2. CASE j = n
      BY <1>4, <1>5, <3>1, <3>2 DEF Rest, SlotOwnership, n
    <3>3. CASE j \in 1 .. n - 1
      <4>1. j + 1 \in 1 .. n /\ i + 1 # j + 1
        BY <1>5, <2>2, <3>3
      <4> QED
        BY <1>5, <3>1, <3>3, <4>1 DEF Rest, SlotOwnership, n
    <3> QED
      BY <1>5, <3>2, <3>3
  <2>3. ASSUME NEW i \in 1 .. n, NEW j \in 1 .. n, i # j
        PROVE  Loop'[i].slot # Loop'[j].slot
    <3>1. i < j \/ j < i
      BY <1>5, <2>3
    <3> QED
      BY <2>2, <3>1
  <2> QED
    BY <1>5, <2>1, <2>3 DEF SlotOwnership
<1>16. FinalLapIsDead'
  <2> SUFFICES ASSUME NEW i \in 1 .. n, Loop'[i].remain <= 1
               PROVE  Loop'[i].dead
    BY <1>5 DEF FinalLapIsDead
  <2> QED
    BY <1>4, <1>5 DEF Rest, FinalLapIsDead, n
<1>17. ReleaseInv' /\ DoneInv'
  BY <1>1 DEF Rest, ReleaseInv, DoneInv
<1> QED
  BY <1>10, <1>11, <1>12, <1>13, <1>14, <1>15, <1>16, <1>17 DEF Rest

\* ring_manager reads a new query: it is the one with the next index.
LEMMA NewHead ==
  ASSUME TypeOK, NewInv, new_query # <<>>, new_query' = Tail(new_query),
         loaded' = loaded
  PROVE  /\ NewInv' /\ Issued \in Nat /\ Issued' = Issued + 1
         /\ Head(new_query) \in StepPkg
         /\ Head(new_query).id = Issued /\ Head(new_query).remain = WalkLen
         /\ Head(new_query).last = (Issued = NumQueries - 1)
<1>1. new_query \in Seq(StepPkg) /\ loaded \in Nat
  BY TotalLoadNat DEF TypeOK
<1>2. /\ Head(new_query) \in StepPkg /\ Head(new_query) = new_query[1]
      /\ Len(new_query) \in Nat /\ Len(new_query) >= 1
      /\ Len(new_query)' = Len(new_query) - 1
      /\ \A i \in 1 .. Len(new_query) - 1 : new_query'[i] = new_query[i + 1]
  BY <1>1
<1>3. Issued \in Nat /\ Issued' = Issued + 1 /\ Len(new_query) <= loaded
  BY <1>1, <1>2 DEF Issued, NewInv
<1> HIDE DEF Issued
<1>4. /\ Head(new_query).id = Issued /\ Head(new_query).remain = WalkLen
      /\ Head(new_query).last = (Head(new_query).id = NumQueries - 1)
  BY <1>2, <1>3 DEF NewInv
<1>5. ASSUME NEW i \in 1 .. Len(new_query) - 1
      PROVE  /\ new_query'[i].id = Issued' + i - 1
             /\ new_query'[i].remain = WalkLen
             /\ new_query'[i].last = (new_query'[i].id = NumQueries - 1)
  <2>1. i + 1 \in 1 .. Len(new_query) /\ new_query'[i] = new_query[i + 1]
    BY <1>2
  <2>2. /\ new_query[i + 1].id = Issued + (i + 1) - 1
        /\ new_query[i + 1].remain = WalkLen
        /\ new_query[i + 1].last = (new_query[i + 1].id = NumQueries - 1)
    BY <2>1 DEF NewInv
  <2> QED
    BY <1>3, <2>1, <2>2
<1>6. NewInv'
  BY <1>1, <1>2, <1>3, <1>5 DEF NewInv
<1> QED
  BY <1>2, <1>3, <1>4, <1>6

\* Inserting a waiting query into a free slot keeps the invariant.
LEMMA InsertStep ==
  ASSUME TypeOK, Rest, RingInsert
  PROVE  Rest'
<1> DEFINE q == Head(new_query)
           p == Issue(q, ring_counter)
           n == Len(Loop)
<1>1. /\ rm_pc = "insert" /\ rm_pc' = "recv" /\ new_query # <<>>
      /\ ~slot_status[ring_counter] /\ new_query' = Tail(new_query)
      /\ sm_in' = Append(sm_in, p)
      /\ slot_status' = [slot_status EXCEPT ![ring_counter] = TRUE]
      /\ release' = NoSlot
      /\ UNCHANGED <<loaded, dup_in, origin, query, input, old_query, finished>>
  BY Zenon DEF RingInsert, CanInsert
<1>2. ring_counter \in Slots /\ slot_status \in [Slots -> BOOLEAN]
      /\ ring_counter \in 0..RingSize
  BY SizeAssumption DEF TypeOK, Slots
<1>3. /\ NewInv' /\ Issued \in Nat /\ Issued' = Issued + 1 /\ q \in StepPkg
      /\ q.id = Issued /\ q.remain = WalkLen
      /\ q.last = (Issued = NumQueries - 1)
  BY <1>1, NewHead DEF Rest
<1>4. /\ p \in StepPkg /\ p.id = Issued /\ p.remain = WalkLen
      /\ p.slot = ring_counter /\ ~p.last
      /\ p.tag = (Issued = NumQueries - 1)
  <2>1. p \in StepPkg
    BY <1>2, <1>3, IssueType
  <2>2. /\ p.id = q.id /\ p.remain = q.remain /\ p.slot = ring_counter
        /\ p.tag = q.last /\ ~p.last
    <3> HIDE DEF q
    <3> QED
      BY <1>3, IssueFields, Zenon
  <2> HIDE DEF p, q, Issued
  <2> QED
    BY <1>3, <2>1, <2>2, Zenon
<1> HIDE DEF p, q, Issued
<1>5. /\ n \in Nat /\ Len(Loop)' = n + 1
      /\ \A i \in 1 .. n : Loop'[i] = Loop[i]
      /\ \A i \in 1 .. n : Laps'[i] = Laps[i]
      /\ Loop'[n + 1] = p /\ Laps'[n + 1] = WalkLen - 1
  BY <1>1, <1>4, PushStep
<1>6. \A i \in 1 .. n : Loop[i].id \in Nat /\ Laps[i] \in Int
  BY <1>5, LoopFields
<1> HIDE DEF n, Loop, Laps
<1>7. WalkLen - 1 \in 0 .. WalkLen - 1 /\ WalkLen - 1 # 0 /\ WalkLen > 1
  BY WalkAssumption
<1>11. WalkInv'
  <2> SUFFICES ASSUME NEW i \in 1 .. n + 1
               PROVE  /\ Laps'[i] \in 0 .. WalkLen - 1
                      /\ Loop'[i].tag = (Loop'[i].id = NumQueries - 1)
                      /\ Loop'[i].last = (Loop'[i].tag /\ Laps'[i] = 0)
    BY <1>5 DEF WalkInv
  <2>1. CASE i \in 1 .. n
    BY <1>5, <2>1, Zenon DEF Rest, WalkInv, n
  <2>2. CASE i = n + 1
    <3>1. p.last = FALSE
      BY <1>4 DEF StepPkg
    <3> QED
      BY <1>4, <1>5, <1>7, <2>2, <3>1, Zenon
  <2> QED
    BY <1>5, <2>1, <2>2
<1>12. OrderInv'
  <2> SUFFICES ASSUME NEW i \in 1 .. n + 1, NEW j \in 1 .. n + 1, i < j
               PROVE  \/ Loop'[i].id < Loop'[j].id /\ Laps'[i] <= Laps'[j]
                      \/ Loop'[i].id > Loop'[j].id /\ Laps'[i] > Laps'[j]
    BY <1>5 DEF OrderInv
  <2>1. i \in 1 .. n
    BY <1>5
  <2>2. CASE j \in 1 .. n
    BY <1>5, <2>1, <2>2 DEF Rest, OrderInv, n
  <2>3. CASE j = n + 1
    <3>1. Loop[i].id < Issued /\ Laps[i] \in 0 .. WalkLen - 1
      BY <2>1 DEF Rest, AccountInv, WalkInv, n
    <3> QED
      BY <1>4, <1>5, <1>6, <1>7, <2>1, <2>3, <3>1, WalkAssumption
  <2> QED
    BY <1>5, <2>2, <2>3
<1>13. AccountInv'
  <2>1. finished \subseteq 0 .. Issued - 1
    BY DEF Rest, AccountInv
  <2>2. finished' \subseteq 0 .. Issued' - 1
    BY <1>1, <1>3, <2>1
  <2>3. ASSUME NEW i \in 1 .. n + 1
        PROVE  Loop'[i].id < Issued' /\ Loop'[i].id \notin finished
    <3>1. CASE i \in 1 .. n
      <4>1. Loop[i].id < Issued /\ Loop[i].id \notin finished
        BY <3>1 DEF Rest, AccountInv, n
      <4> QED
        BY <1>3, <1>5, <1>6, <3>1, <4>1
    <3>2. CASE i = n + 1
      BY <1>3, <1>4, <1>5, <2>1, <3>2
    <3> QED
      BY <1>5, <3>1, <3>2
  <2>4. ASSUME NEW k \in 0 .. Issued' - 1
        PROVE  k \in finished \/ \E i \in 1 .. n + 1 : Loop'[i].id = k
    <3>1. CASE k \in 0 .. Issued - 1
      <4>1. k \in finished \/ \E i \in 1 .. n : Loop[i].id = k
        BY <3>1 DEF Rest, AccountInv, n
      <4> QED
        BY <1>5, <4>1
    <3>2. CASE k = Issued
      BY <1>4, <1>5, <3>2
    <3> QED
      BY <1>3, <3>1, <3>2
  <2> QED
    BY <1>1, <1>5, <2>2, <2>3, <2>4 DEF AccountInv
<1>14. PathInv'
  BY <1>1 DEF Rest, PathInv
<1>15. SlotOwnership'
  <2>1. ASSUME NEW i \in 1 .. n
        PROVE  /\ Loop[i].slot \in Slots /\ slot_status[Loop[i].slot]
               /\ Loop[i].slot # ring_counter
    BY <1>1 DEF Rest, SlotOwnership, n
  <2>2. ASSUME NEW s \in Slots
        PROVE  s # NoSlot
    BY SizeAssumption DEF Slots, NoSlot
  <2>3. ASSUME NEW i \in 1 .. n + 1
        PROVE  /\ Loop'[i].slot \in Slots /\ slot_status'[Loop'[i].slot]
               /\ Loop'[i].slot # release'
    <3>1. CASE i \in 1 .. n
      BY <1>1, <1>2, <1>5, <2>1, <2>2, <3>1
    <3>2. CASE i = n + 1
      BY <1>1, <1>2, <1>4, <1>5, <2>2, <3>2
    <3> QED
      BY <1>5, <3>1, <3>2
  <2>4. ASSUME NEW i \in 1 .. n + 1, NEW j \in 1 .. n + 1, i # j
        PROVE  Loop'[i].slot # Loop'[j].slot
    <3>1. CASE i \in 1 .. n /\ j \in 1 .. n
      BY <1>5, <2>4, <3>1 DEF Rest, SlotOwnership, n
    <3>2. CASE i = n + 1 /\ j \in 1 .. n
      BY <1>4, <1>5, <2>1, <3>2
    <3>3. CASE i \in 1 .. n /\ j = n + 1
      BY <1>4, <1>5, <2>1, <3>3
    <3> QED
      BY <1>5, <2>4, <3>1, <3>2, <3>3
  <2> QED
    BY <1>5, <2>3, <2>4 DEF SlotOwnership
<1>16. FinalLapIsDead'
  <2> SUFFICES ASSUME NEW i \in 1 .. n + 1, Loop'[i].remain <= 1
               PROVE  Loop'[i].dead
    BY <1>5 DEF FinalLapIsDead
  <2>1. CASE i \in 1 .. n
    BY <1>5, <2>1 DEF Rest, FinalLapIsDead, n
  <2>2. CASE i = n + 1
    BY <1>4, <1>5, <2>2, WalkAssumption
  <2> QED
    BY <1>5, <2>1, <2>2
<1>17. ReleaseInv' /\ DoneInv'
  BY <1>1 DEF Rest, ReleaseInv, DoneInv
<1> QED
  BY <1>3, <1>11, <1>12, <1>13, <1>14, <1>15, <1>16, <1>17 DEF Rest

\* Handing the slot of a finished query over to a waiting one keeps the invariant.
LEMMA ReplaceStep ==
  ASSUME TypeOK, Rest, RingReplace
  PROVE  Rest'
<1> DEFINE o == Head(old_query)
           q == Head(new_query)
           p == Issue(q, o.slot)
           n == Len(Loop)
<1>1. /\ rm_pc = "recv" /\ rm_pc' = "insert" /\ old_query # <<>>
      /\ o.remain = 0 /\ old_query' = Tail(old_query)
      /\ new_query # <<>> /\ new_query' = Tail(new_query)
      /\ sm_in' = Append(sm_in, p)
      /\ finished' = finished \union {o.id}
      /\ UNCHANGED <<loaded, slot_status, release, dup_in, origin, query, input>>
  BY Zenon DEF RingReplace, Retired
<1>2. o \in StepPkg /\ o.slot \in 0..RingSize
  <2>1. o \in StepPkg
    BY <1>1, PopElements DEF TypeOK
  <2> HIDE DEF o
  <2> QED
    BY <2>1 DEF StepPkg
<1>3. /\ NewInv' /\ Issued \in Nat /\ Issued' = Issued + 1 /\ q \in StepPkg
      /\ q.id = Issued /\ q.remain = WalkLen
      /\ q.last = (Issued = NumQueries - 1)
  BY <1>1, NewHead DEF Rest
<1>4. /\ p \in StepPkg /\ p.id = Issued /\ p.remain = WalkLen
      /\ p.slot = o.slot /\ ~p.last
      /\ p.tag = (Issued = NumQueries - 1)
  <2>1. p \in StepPkg
    BY <1>2, <1>3, IssueType
  <2>2. /\ p.id = q.id /\ p.remain = q.remain /\ p.slot = o.slot
        /\ p.tag = q.last /\ ~p.last
    <3> HIDE DEF q, o
    <3> QED
      BY <1>3, IssueFields, Zenon
  <2> HIDE DEF p, q, Issued, o
  <2> QED
    BY <1>3, <2>1, <2>2, Zenon
<1> HIDE DEF p, q, Issued
<1>5. /\ n \in Nat /\ n >= 1 /\ Len(Loop)' = n
      /\ Loop[1] = o /\ Laps[1] = 0
      /\ \A i \in 1 .. n - 1 : Loop'[i] = Loop[i + 1]
      /\ \A i \in 1 .. n - 1 : Laps'[i] = Laps[i + 1]
      /\ Loop'[n] = p /\ Laps'[n] = WalkLen - 1
  BY <1>1, <1>4, TurnStep
<1>6. \A i \in 1 .. n : Loop[i].id \in Nat /\ Laps[i] \in Int
  BY <1>5, LoopFields
<1> HIDE DEF n, o, Loop, Laps
<1>7. WalkLen - 1 \in 0 .. WalkLen - 1 /\ WalkLen - 1 # 0 /\ WalkLen > 1
  BY WalkAssumption
<1>8. ASSUME NEW i \in 1 .. n - 1
      PROVE  i + 1 \in 1 .. n /\ 1 \in 1 .. n /\ 1 < i + 1 /\ i + 1 # 1
  BY <1>5
<1>9. n \in Nat /\ n >= 1
  BY <1>5
<1>11. WalkInv'
  <2> SUFFICES ASSUME NEW i \in 1 .. n
               PROVE  /\ Laps'[i] \in 0 .. WalkLen - 1
                      /\ Loop'[i].tag = (Loop'[i].id = NumQueries - 1)
                      /\ Loop'[i].last = (Loop'[i].tag /\ Laps'[i] = 0)
    BY <1>5 DEF WalkInv
  <2>1. CASE i \in 1 .. n - 1
    <3>1. i + 1 \in 1 .. n /\ Loop'[i] = Loop[i + 1] /\ Laps'[i] = Laps[i + 1]
      BY <1>5, <1>8, <2>1
    <3> QED
      BY <3>1, Zenon DEF Rest, WalkInv, n
  <2>2. CASE i = n
    <3>1. p.last = FALSE
      BY <1>4 DEF StepPkg
    <3> QED
      BY <1>4, <1>5, <1>7, <2>2, <3>1, Zenon
  <2> QED
    BY <1>5, <2>1, <2>2
<1>12. OrderInv'
  <2> SUFFICES ASSUME NEW i \in 1 .. n, NEW j \in 1 .. n, i < j
               PROVE  \/ Loop'[i].id < Loop'[j].id /\ Laps'[i] <= Laps'[j]
                      \/ Loop'[i].id > Loop'[j].id /\ Laps'[i] > Laps'[j]
    BY <1>5 DEF OrderInv
  <2>1. i \in 1 .. n - 1 /\ i + 1 \in 1 .. n
    BY <1>5
  <2>2. CASE j \in 1 .. n - 1
    <3>1. j + 1 \in 1 .. n /\ i + 1 < j + 1
      BY <1>5, <2>2
    <3> QED
      BY <1>5, <2>1, <2>2, <3>1 DEF Rest, OrderInv, n
  <2>3. CASE j = n
    <3>1. Loop[i + 1].id < Issued /\ Laps[i + 1] \in 0 .. WalkLen - 1
      BY <2>1 DEF Rest, AccountInv, WalkInv, n
    <3> QED
      BY <1>4, <1>5, <1>6, <1>7, <2>1, <2>3, <3>1, WalkAssumption
  <2> QED
    BY <1>5, <2>2, <2>3
<1>13. AccountInv'
  <2>1. finished \subseteq 0 .. Issued - 1
    BY DEF Rest, AccountInv
  <2>0. o.id \in 0 .. Issued - 1
    <3>1. Loop[1].id < Issued
      BY <1>5 DEF Rest, AccountInv, n
    <3> QED
      BY <1>3, <1>5, <1>6, <3>1
  <2>2. finished' \subseteq 0 .. Issued' - 1
    <3>1. 0 .. Issued - 1 \subseteq 0 .. Issued' - 1
      BY <1>3
    <3>2. finished' \subseteq 0 .. Issued - 1
      BY <1>1, <2>0, <2>1
    <3> QED
      BY <3>1, <3>2
  <2>3. ASSUME NEW i \in 1 .. n
        PROVE  Loop'[i].id < Issued' /\ Loop'[i].id \notin finished'
    <3>1. CASE i \in 1 .. n - 1
      <4>1. Loop[i + 1].id < Issued /\ Loop[i + 1].id \notin finished
        BY <1>8, <3>1 DEF Rest, AccountInv, n
      <4>2. \/ Loop[1].id < Loop[i + 1].id
            \/ Loop[1].id > Loop[i + 1].id
        BY <1>8, <3>1 DEF Rest, OrderInv, n
      <4>3. Loop[i + 1].id \in Nat /\ Loop[1].id \in Nat
        BY <1>6, <1>8, <3>1
      <4>4. Loop[i + 1].id # o.id
        BY <1>5, <4>2, <4>3
      <4> QED
        BY <1>1, <1>3, <1>5, <3>1, <4>1, <4>3, <4>4, SMTT(30)
    <3>2. CASE i = n
      BY <1>1, <1>3, <1>4, <1>5, <2>0, <2>1, <3>2
    <3> QED
      BY <1>5, <3>1, <3>2
  <2>4. ASSUME NEW k \in 0 .. Issued' - 1
        PROVE  k \in finished' \/ \E i \in 1 .. n : Loop'[i].id = k
    <3>1. CASE k \in 0 .. Issued - 1 /\ k \notin finished
      <4>1. PICK i \in 1 .. n : Loop[i].id = k
        BY <3>1 DEF Rest, AccountInv, n
      <4>2. CASE i = 1
        BY <1>1, <1>5, <4>1, <4>2
      <4>3. CASE i # 1
        <5>1. i - 1 \in 1 .. n - 1 /\ i - 1 \in 1 .. n /\ (i - 1) + 1 = i
          BY <1>5, <4>3
        <5>2. Loop'[i - 1].id = k
          BY <1>5, <4>1, <5>1
        <5> QED
          BY <5>1, <5>2
      <4> QED
        BY <4>2, <4>3
    <3>2. CASE k = Issued
      <4>1. n \in 1 .. n /\ Loop'[n].id = k
        BY <1>4, <1>5, <3>2
      <4> QED
        BY <4>1
    <3>3. CASE k \in finished
      BY <1>1, <3>3
    <3> QED
      BY <1>3, <3>1, <3>2, <3>3
  <2> QED
    BY <1>1, <1>5, <2>2, <2>3, <2>4 DEF AccountInv
<1>14. PathInv'
  BY <1>1 DEF Rest, PathInv
<1>15. SlotOwnership'
  <2>1. ASSUME NEW i \in 1 .. n
        PROVE  /\ Loop[i].slot \in Slots /\ slot_status[Loop[i].slot]
               /\ Loop[i].slot # release
    BY DEF Rest, SlotOwnership, n
  <2>2. ASSUME NEW i \in 1 .. n - 1
        PROVE  Loop[i + 1].slot # o.slot
    BY <1>5, <1>8 DEF Rest, SlotOwnership, n
  <2>3. ASSUME NEW i \in 1 .. n
        PROVE  /\ Loop'[i].slot \in Slots /\ slot_status'[Loop'[i].slot]
               /\ Loop'[i].slot # release'
    <3>1. CASE i \in 1 .. n - 1
      <4>1. i + 1 \in 1 .. n /\ Loop'[i] = Loop[i + 1]
        BY <1>5, <1>8, <3>1
      <4> QED
        BY <1>1, <2>1, <4>1
    <3>2. CASE i = n
      BY <1>1, <1>4, <1>5, <2>1, <3>2
    <3> QED
      BY <1>5, <3>1, <3>2
  <2>4. ASSUME NEW i \in 1 .. n, NEW j \in 1 .. n, i # j
        PROVE  Loop'[i].slot # Loop'[j].slot
    <3>1. CASE i \in 1 .. n - 1 /\ j \in 1 .. n - 1
      <4>1. i + 1 \in 1 .. n /\ j + 1 \in 1 .. n /\ i + 1 # j + 1
        BY <1>5, <2>4, <3>1
      <4> QED
        BY <1>5, <3>1, <4>1 DEF Rest, SlotOwnership, n
    <3>2. CASE i = n /\ j \in 1 .. n - 1
      BY <1>4, <1>5, <2>2, <3>2
    <3>3. CASE i \in 1 .. n - 1 /\ j = n
      BY <1>4, <1>5, <2>2, <3>3
    <3>4. \/ i \in 1 .. n - 1 /\ j \in 1 .. n - 1
          \/ i = n /\ j \in 1 .. n - 1
          \/ i \in 1 .. n - 1 /\ j = n
      BY <1>9, <2>4
    <3> QED
      BY <3>1, <3>2, <3>3, <3>4
  <2> QED
    BY <1>5, <2>3, <2>4 DEF SlotOwnership
<1>16. FinalLapIsDead'
  <2> SUFFICES ASSUME NEW i \in 1 .. n, Loop'[i].remain <= 1
               PROVE  Loop'[i].dead
    BY <1>5 DEF FinalLapIsDead
  <2>1. CASE i \in 1 .. n - 1
    BY <1>5, <1>8, <2>1 DEF Rest, FinalLapIsDead, n
  <2>2. CASE i = n
    BY <1>4, <1>5, <2>2, WalkAssumption
  <2> QED
    BY <1>5, <2>1, <2>2
<1>17. ReleaseInv' /\ DoneInv'
  BY <1>1 DEF Rest, ReleaseInv, DoneInv
<1> QED
  BY <1>3, <1>11, <1>12, <1>13, <1>14, <1>15, <1>16, <1>17 DEF Rest

\* Taking a finished query from the loop when none is waiting keeps the invariant.
LEMMA ReleaseStep ==
  ASSUME TypeOK, Rest, RingRelease
  PROVE  Rest'
<1> DEFINE o == Head(old_query)
           n == Len(Loop)
<1>1. /\ rm_pc = "recv" /\ rm_pc' = "insert" /\ old_query # <<>>
      /\ o.remain = 0 /\ old_query' = Tail(old_query)
      /\ release' = o.slot /\ finished' = finished \union {o.id}
      /\ UNCHANGED <<loaded, new_query, slot_status, sm_in, dup_in, origin,
                     query, input>>
  BY Zenon DEF RingRelease, Retired, loaderVars
<1>5. /\ n \in Nat /\ n >= 1 /\ Len(Loop)' = n - 1
      /\ Loop[1] = o /\ Laps[1] = 0
      /\ \A i \in 1 .. n - 1 : Loop'[i] = Loop[i + 1]
      /\ \A i \in 1 .. n - 1 : Laps'[i] = Laps[i + 1]
  BY <1>1, PopStep
<1>6. \A i \in 1 .. n : Loop[i].id \in Nat /\ Laps[i] \in Int
  BY <1>5, LoopFields
<1> HIDE DEF n, o, Loop, Laps
<1>8. ASSUME NEW i \in 1 .. n - 1
      PROVE  /\ i + 1 \in 1 .. n /\ 1 \in 1 .. n /\ 1 < i + 1 /\ i + 1 # 1
             /\ Loop'[i] = Loop[i + 1] /\ Laps'[i] = Laps[i + 1]
  BY <1>5
<1>10. NewInv' /\ Issued' = Issued
  BY <1>1 DEF Rest, NewInv, Issued
<1> HIDE DEF Issued
<1>11. WalkInv'
  <2> SUFFICES ASSUME NEW i \in 1 .. n - 1
               PROVE  /\ Laps'[i] \in 0 .. WalkLen - 1
                      /\ Loop'[i].tag = (Loop'[i].id = NumQueries - 1)
                      /\ Loop'[i].last = (Loop'[i].tag /\ Laps'[i] = 0)
    BY <1>5 DEF WalkInv
  <2>1. i + 1 \in 1 .. n /\ Loop'[i] = Loop[i + 1] /\ Laps'[i] = Laps[i + 1]
    BY <1>8
  <2> QED
    BY <2>1, Zenon DEF Rest, WalkInv, n
<1>12. OrderInv'
  <2> SUFFICES ASSUME NEW i \in 1 .. n - 1, NEW j \in 1 .. n - 1, i < j
               PROVE  \/ Loop'[i].id < Loop'[j].id /\ Laps'[i] <= Laps'[j]
                      \/ Loop'[i].id > Loop'[j].id /\ Laps'[i] > Laps'[j]
    BY <1>5 DEF OrderInv
  <2>1. i + 1 < j + 1
    BY <1>5
  <2> QED
    BY <1>8, <2>1 DEF Rest, OrderInv, n
<1>13. AccountInv'
  <2>1. finished \subseteq 0 .. Issued - 1
    BY DEF Rest, AccountInv
  <2>2. o.id \in 0 .. Issued - 1
    <3>1. Loop[1].id < Issued /\ Loop[1].id \in Nat
      BY <1>5, <1>6 DEF Rest, AccountInv, n
    <3>2. Issued \in Int
      BY TotalLoadNat DEF TypeOK, Issued
    <3> QED
      BY <1>5, <3>1, <3>2
  <2>3. ASSUME NEW i \in 1 .. n - 1
        PROVE  Loop'[i].id < Issued' /\ Loop'[i].id \notin finished'
    <3>1. Loop[i + 1].id < Issued /\ Loop[i + 1].id \notin finished
      BY <1>8 DEF Rest, AccountInv, n
    <3>2. \/ Loop[1].id < Loop[i + 1].id
          \/ Loop[1].id > Loop[i + 1].id
      BY <1>8 DEF Rest, OrderInv, n
    <3>3. Loop[i + 1].id \in Nat /\ Loop[1].id \in Nat
      BY <1>6, <1>8
    <3>4. Loop[i + 1].id # o.id
      BY <1>5, <3>2, <3>3
    <3> QED
      BY <1>1, <1>8, <1>10, <3>1, <3>4
  <2>4. ASSUME NEW k \in 0 .. Issued - 1
        PROVE  k \in finished' \/ \E i \in 1 .. n - 1 : Loop'[i].id = k
    <3>1. CASE k \notin finished
      <4>1. PICK i \in 1 .. n : Loop[i].id = k
        BY <3>1 DEF Rest, AccountInv, n
      <4>2. CASE i = 1
        BY <1>1, <1>5, <4>1, <4>2
      <4>3. CASE i # 1
        <5>1. i - 1 \in 1 .. n - 1 /\ (i - 1) + 1 = i
          BY <1>5, <4>3
        <5>2. Loop'[i - 1].id = k
          BY <1>5, <4>1, <5>1
        <5> QED
          BY <5>1, <5>2
      <4> QED
        BY <4>2, <4>3
    <3>2. CASE k \in finished
      BY <1>1, <3>2
    <3> QED
      BY <3>1, <3>2
  <2> QED
    BY <1>1, <1>5, <1>10, <2>1, <2>2, <2>3, <2>4 DEF AccountInv
<1>14. PathInv'
  BY <1>1 DEF Rest, PathInv
<1>15. SlotOwnership'
  <2>1. ASSUME NEW i \in 1 .. n
        PROVE  Loop[i].slot \in Slots /\ slot_status[Loop[i].slot]
    BY DEF Rest, SlotOwnership, n
  <2>2. ASSUME NEW i \in 1 .. n - 1
        PROVE  Loop[i + 1].slot # o.slot
    BY <1>5, <1>8 DEF Rest, SlotOwnership, n
  <2>3. ASSUME NEW i \in 1 .. n - 1
        PROVE  /\ Loop'[i].slot \in Slots /\ slot_status'[Loop'[i].slot]
               /\ Loop'[i].slot # release'
    BY <1>1, <1>8, <2>1, <2>2
  <2>4. ASSUME NEW i \in 1 .. n - 1, NEW j \in 1 .. n - 1, i # j
        PROVE  Loop'[i].slot # Loop'[j].slot
    <3>1. i + 1 # j + 1 /\ i + 1 \in 1 .. n /\ j + 1 \in 1 .. n
      BY <1>8, <2>4
    <3>2. Loop'[i] = Loop[i + 1] /\ Loop'[j] = Loop[j + 1]
      BY <1>8
    <3> QED
      BY <3>1, <3>2 DEF Rest, SlotOwnership, n
  <2> QED
    BY <1>5, <2>3, <2>4 DEF SlotOwnership
<1>16. FinalLapIsDead'
  <2> SUFFICES ASSUME NEW i \in 1 .. n - 1, Loop'[i].remain <= 1
               PROVE  Loop'[i].dead
    BY <1>5 DEF FinalLapIsDead
  <2> QED
    BY <1>8 DEF Rest, FinalLapIsDead, n
<1>17. ReleaseInv' /\ DoneInv'
  BY <1>1 DEF ReleaseInv, DoneInv
<1> QED
  BY <1>10, <1>11, <1>12, <1>13, <1>14, <1>15, <1>16, <1>17 DEF Rest

\* The query loaded last comes back with no step left: it is alone.
LEMMA StopStep ==
  ASSUME Aligned, TypeOK, Rest, RingStop
  PROVE  Rest'
<1> DEFINE o == Head(old_query)
           n == Len(Loop)
<1>1. /\ rm_pc = "recv" /\ rm_pc' = "done" /\ old_query # <<>>
      /\ o.remain = 0 /\ o.last /\ old_query' = Tail(old_query)
      /\ finished' = finished \union {o.id}
      /\ UNCHANGED <<loaded, new_query, slot_status, release, sm_in, dup_in,
                     origin, query, input>>
  BY Zenon DEF RingStop, Retired, loaderVars
<1>2. /\ n \in Nat /\ n >= 1 /\ Len(Loop)' = n - 1
      /\ Loop[1] = o /\ Laps[1] = 0
  BY <1>1, PopStep
<1>3. \A i \in 1 .. n : Loop[i].id \in Nat /\ Laps[i] \in Int
  BY <1>2, LoopFields
<1>0. Loop' \in Seq(StepPkg)
  <2>1. /\ old_query' \in Seq(StepPkg) /\ origin' \in Seq(StepPkg)
        /\ dup_in' \in Seq(StepPkg) /\ sm_in' \in Seq(StepPkg)
    BY <1>1, PopElements DEF TypeOK
  <2> QED
    BY <2>1, ChainElements DEF Loop
<1>9. /\ new_query \in Seq(StepPkg) /\ Len(new_query) \in Nat
      /\ loaded \in 0 .. NumQueries
  BY DEF TypeOK, Aligned
<1> HIDE DEF n, o, Loop, Laps
<1>4. o.id = NumQueries - 1
  <2>1. /\ o.tag = (o.id = NumQueries - 1) /\ o.last = (o.tag /\ Laps[1] = 0)
    BY <1>2 DEF Rest, WalkInv, n
  <2> QED
    BY <1>1, <2>1, Zenon
<1>5. loaded = NumQueries /\ Issued = NumQueries /\ new_query = <<>>
  <2>1. o.id < Issued
    BY <1>2 DEF Rest, AccountInv, n
  <2>2. Len(new_query) = 0 /\ loaded = NumQueries /\ Issued = NumQueries
    BY <1>4, <1>9, <2>1, SizeAssumption DEF Issued
  <2> QED
    BY <1>9, <2>2
<1>6. n = 1
  <2> SUFFICES ASSUME n # 1 PROVE FALSE
    OBVIOUS
  <2>1. 1 \in 1 .. n /\ 2 \in 1 .. n
    BY <1>2
  <2>2. Loop[2].id < Issued /\ Laps[2] \in 0 .. WalkLen - 1
    BY <2>1 DEF Rest, AccountInv, WalkInv, n
  <2>3. \/ Loop[1].id < Loop[2].id
        \/ Laps[1] > Laps[2]
    BY <2>1 DEF Rest, OrderInv, n
  <2> QED
    BY <1>2, <1>3, <1>4, <1>5, <2>1, <2>2, <2>3, SizeAssumption, WalkAssumption
<1>7. Loop' = <<>> /\ Len(Loop)' = 0
  BY <1>0, <1>2, <1>6
<1>8. finished' = 0 .. NumQueries - 1
  <2>1. /\ finished \subseteq 0 .. NumQueries - 1
        /\ \A k \in 0 .. NumQueries - 1 :
              k \in finished \/ \E i \in 1 .. n : Loop[i].id = k
    BY <1>5 DEF Rest, AccountInv, n
  <2>2. \A k \in 0 .. NumQueries - 1 : k \in finished \/ k = NumQueries - 1
    BY <1>2, <1>4, <1>6, <2>1
  <2>3. NumQueries - 1 \in 0 .. NumQueries - 1
    BY SizeAssumption
  <2>4. finished' = finished \union {NumQueries - 1}
    BY <1>1, <1>4
  <2> DEFINE S == 0 .. NumQueries - 1
             z == NumQueries - 1
  <2>5. finished \subseteq S /\ z \in S /\ \A k \in S : k \in finished \/ k = z
    BY <2>1, <2>2, <2>3
  <2> HIDE DEF S, z
  <2>6. finished \union {z} = S
    BY <2>5
  <2> QED
    BY <2>4, <2>6 DEF S, z
<1>10. NewInv' /\ Issued' = Issued
  BY <1>1 DEF Rest, NewInv, Issued
<1> HIDE DEF Issued
<1>11. WalkInv' /\ OrderInv' /\ SlotOwnership' /\ FinalLapIsDead'
  BY <1>7 DEF WalkInv, OrderInv, SlotOwnership, FinalLapIsDead
<1>12. AccountInv'
  BY <1>5, <1>7, <1>8, <1>10 DEF AccountInv
<1>13. PathInv'
  BY <1>1 DEF Rest, PathInv
<1>14. ReleaseInv' /\ DoneInv'
  BY <1>1, <1>5, <1>7, <1>8 DEF Rest, ReleaseInv, DoneInv
<1> QED
  BY <1>10, <1>11, <1>12, <1>13, <1>14 DEF Rest

\* The loop is as it was when none of its streams changes.
LEMMA LoopSame ==
  ASSUME UNCHANGED <<old_query, origin, dup_in, sm_in>>
  PROVE  Loop' = Loop /\ Laps' = Laps
BY DEF Loop, Laps

\* The ends of ring_manager's iteration, with and without a slot update, keep the invariant.
LEMMA IdleStep ==
  ASSUME TypeOK, Rest, RingIdle \/ RingCommit
  PROVE  Rest'
<1>1. /\ rm_pc' # "done" /\ rm_pc # "done"
      /\ UNCHANGED <<loaded, new_query, sm_in, dup_in, origin, query, input,
                     old_query, finished>>
  BY Zenon DEF RingIdle, RingCommit, loaderVars, history
<1>2. Loop' = Loop /\ Laps' = Laps
  BY <1>1, LoopSame
<1> HIDE DEF Loop, Laps
<1>3. NewInv' /\ WalkInv' /\ OrderInv' /\ AccountInv' /\ PathInv'
  BY <1>1, <1>2
     DEF Rest, NewInv, WalkInv, OrderInv, AccountInv, PathInv, Issued
<1>4. FinalLapIsDead' /\ DoneInv'
  BY <1>1, <1>2 DEF Rest, FinalLapIsDead, DoneInv
<1>5. CASE RingIdle
  <2>1. ReleaseInv'
    BY <1>5 DEF RingIdle, ReleaseInv
  <2>2. SlotOwnership'
    BY <1>2, <1>5 DEF RingIdle, Rest, SlotOwnership
  <2> QED
    BY <1>3, <1>4, <2>1, <2>2 DEF Rest
<1>6. CASE RingCommit
  <2>1. ReleaseInv'
    BY <1>6 DEF RingCommit, ReleaseInv
  <2>2. SlotOwnership'
    <3>1. /\ slot_status' = IF release = NoSlot THEN slot_status
                            ELSE [slot_status EXCEPT ![release] = FALSE]
          /\ release' = NoSlot
      BY <1>6 DEF RingCommit
    <3>2. slot_status \in [Slots -> BOOLEAN]
      BY DEF TypeOK
    <3>3. \A s \in Slots : s # NoSlot
      BY SizeAssumption DEF Slots, NoSlot
    <3>4. ASSUME NEW s \in Slots, slot_status[s], s # release
          PROVE  slot_status'[s]
      BY <3>1, <3>2, <3>4
    <3> HIDE DEF Slots
    <3> QED
      BY <1>2, <3>1, <3>3, <3>4 DEF Rest, SlotOwnership
  <2> QED
    BY <1>3, <1>4, <2>1, <2>2 DEF Rest
<1> QED
  BY <1>5, <1>6

\* step_loader keeps the invariant when the queries fill whole bursts.
LEMMA LoadStep ==
  ASSUME Aligned, TypeOK, Rest, LoadQuery
  PROVE  Rest'
<1> DEFINE q == [id |-> loaded, remain |-> WalkLen, slot |-> 0, tag |-> FALSE,
                 dead |-> FALSE, last |-> loaded = NumQueries - 1]
<1>1. /\ loaded < NumQueries /\ loaded' = loaded + 1
      /\ UNCHANGED <<rm_pc, slot_status, release, sm_in, dup_in, origin, query,
                     input, old_query, finished>>
  BY DEF LoadQuery, Aligned, ringVars, history
<1>2. new_query' = Append(new_query, q)
  BY <1>1 DEF LoadQuery
<1>3. /\ q.id = loaded /\ q.remain = WalkLen
      /\ q.last = (loaded = NumQueries - 1)
  OBVIOUS
<1>4. q \in StepPkg /\ loaded \in Nat
  BY TotalLoadNat, WalkAssumption, SizeAssumption DEF StepPkg, TypeOK
<1> HIDE DEF q
<1>5. /\ Len(new_query) \in Nat /\ Len(new_query)' = Len(new_query) + 1
      /\ \A i \in 1 .. Len(new_query) : new_query'[i] = new_query[i]
      /\ new_query'[Len(new_query) + 1] = q
  BY <1>2, <1>4 DEF TypeOK
<1>6. Issued' = Issued /\ Issued \in Int /\ loaded = Issued + Len(new_query)
  BY <1>1, <1>4, <1>5 DEF Issued
<1> HIDE DEF Issued
<1>7. Loop' = Loop /\ Laps' = Laps
  BY <1>1, LoopSame
<1> HIDE DEF Loop, Laps
<1>8. NewInv'
  <2> DEFINE n == Len(new_query)
  <2>1. ASSUME NEW i \in 1 .. n + 1
        PROVE  /\ new_query'[i].id = Issued' + i - 1
               /\ new_query'[i].remain = WalkLen
               /\ new_query'[i].last = (new_query'[i].id = NumQueries - 1)
    <3>1. CASE i \in 1 .. n
      BY <1>5, <1>6, <3>1 DEF Rest, NewInv
    <3>2. CASE i = n + 1
      <4>1. new_query'[i] = q /\ loaded = Issued' + i - 1
        BY <1>5, <1>6, <3>2
      <4> QED
        BY <1>3, <4>1, Zenon
    <3> QED
      BY <1>5, <3>1, <3>2
  <2>2. Len(new_query)' <= loaded'
    BY <1>1, <1>4, <1>5 DEF Rest, NewInv
  <2> QED
    BY <1>5, <2>1, <2>2 DEF NewInv
<1>9. /\ WalkInv' /\ OrderInv' /\ AccountInv' /\ PathInv'
      /\ SlotOwnership' /\ FinalLapIsDead' /\ ReleaseInv'
  BY <1>1, <1>6, <1>7 DEF Rest, WalkInv, OrderInv, AccountInv, PathInv,
                         SlotOwnership, FinalLapIsDead, ReleaseInv
<1>10. DoneInv'
  BY <1>1, <1>4 DEF Rest, DoneInv
<1> QED
  BY <1>8, <1>9, <1>10 DEF Rest

\* The next run starts from empty streams.
LEMMA NextRunStep ==
  ASSUME TypeOK, Rest, HostNextRun
  PROVE  Rest'
<1>1. /\ rm_pc = "done" /\ loaded' = 0 /\ rm_pc' = "recv" /\ finished' = {}
      /\ release' = NoSlot
      /\ UNCHANGED <<new_query, sm_in, dup_in, origin, query, input, old_query>>
  BY Zenon DEF HostNextRun, RunOver
<1>2. Loop' = <<>> /\ new_query' = <<>>
  BY <1>1, LoopSame DEF Rest, DoneInv
<1> HIDE DEF Loop
<1>3. Len(Loop)' = 0 /\ Len(new_query)' = 0 /\ Issued' = 0
  <2>1. Len(<<>>) = 0
    OBVIOUS
  <2>2. Len(Loop)' = 0 /\ Len(new_query)' = 0
    BY <1>2, <2>1, Zenon
  <2> QED
    BY <1>1, <2>2 DEF Issued
<1> HIDE DEF Issued
<1>4. NewInv' /\ WalkInv' /\ OrderInv' /\ SlotOwnership' /\ FinalLapIsDead'
  BY <1>1, <1>3 DEF NewInv, WalkInv, OrderInv, SlotOwnership, FinalLapIsDead
<1>5. AccountInv' /\ ReleaseInv' /\ DoneInv'
  BY <1>1, <1>3 DEF AccountInv, ReleaseInv, DoneInv
<1>6. PathInv'
  BY <1>1 DEF Rest, PathInv
<1> QED
  BY <1>4, <1>5, <1>6 DEF Rest

\* A step that hands a packet on along the loop keeps what concerns the loop.
LEMMA PassStep ==
  ASSUME TypeOK, Rest, Loop' = Loop, Laps' = Laps,
         UNCHANGED <<loaded, new_query, rm_pc, slot_status, release, finished>>
  PROVE  /\ NewInv' /\ WalkInv' /\ OrderInv' /\ AccountInv'
         /\ SlotOwnership' /\ FinalLapIsDead' /\ ReleaseInv' /\ DoneInv'
<1> HIDE DEF Loop, Laps
<1> QED
  BY DEF Rest, NewInv, WalkInv, OrderInv, AccountInv, SlotOwnership,
         FinalLapIsDead, ReleaseInv, DoneInv, Issued

\* The low bits of remain_step are all of it.
LEMMA MetapathStep ==
  ASSUME TypeOK, Rest, MetapathSm
  PROVE  Rest' /\ Loop' = Loop
<1> DEFINE q == Head(sm_in)
           k == Len(old_query) + Len(origin) + Len(dup_in) + 1
<1>1. /\ sm_in # <<>> /\ sm_in' = Tail(sm_in)
      /\ dup_in' = Append(dup_in, [q EXCEPT !.remain = @ % StepMod])
      /\ UNCHANGED <<loaded, new_query, rm_pc, slot_status, release, origin,
                     query, input, old_query, finished>>
  BY Zenon DEF MetapathSm, loaderVars, ringVars, history
<1>2. /\ old_query \in Seq(StepPkg) /\ origin \in Seq(StepPkg)
      /\ dup_in \in Seq(StepPkg) /\ sm_in \in Seq(StepPkg)
  BY DEF TypeOK
<1>3. q \in StepPkg /\ q = sm_in[1] /\ Len(sm_in) >= 1
  BY <1>1, <1>2
<1>4. k \in 1 .. Len(Loop) /\ k > Len(old_query) /\ Loop[k] = q
  <2> DEFINE b == old_query \o origin \o dup_in
  <2>1. b \in Seq(StepPkg) /\ Len(b) = Len(old_query) + Len(origin) + Len(dup_in)
    BY <1>2
  <2>2. Loop = b \o sm_in
    BY DEF Loop
  <2>0. b \in Seq(StepPkg) /\ sm_in \in Seq(StepPkg) /\ Len(sm_in) >= 1
    BY <1>2, <1>3, <2>1
  <2> HIDE DEF b, q, Loop
  <2>3. Loop[Len(b) + 1] = sm_in[1] /\ Len(Loop) = Len(b) + Len(sm_in)
    BY <2>0, <2>2
  <2>4. /\ Len(old_query) \in Nat /\ Len(origin) \in Nat
        /\ Len(dup_in) \in Nat /\ Len(sm_in) \in Nat
    BY <1>2
  <2> HIDE DEF Loop
  <2> QED
    BY <1>3, <2>1, <2>3, <2>4
<1>5. q.remain < StepMod
  <2>1. Loop[k].remain \in Nat
    BY <1>4, LoopFields
  <2>2. Laps[k] \in 0 .. WalkLen - 1
    BY <1>4 DEF Rest, WalkInv
  <2>3. Laps[k] = Loop[k].remain - 1
    <3> HIDE DEF k, Loop
    <3>1. Len(old_query) \in Nat /\ k \in Int
      BY <1>2, <1>4
    <3> QED
      BY <1>4, <3>1 DEF Laps
  <2> HIDE DEF k, Loop, Laps
  <2> QED
    BY <1>4, <2>1, <2>2, <2>3, WalkAssumption
<1>6. dup_in' = Append(dup_in, q)
  BY <1>1, <1>3, <1>5, TruncateSame
<1>7. Loop' = Loop
  BY <1>1, <1>2, <1>6, LoopPass, LoopChain
<1>8. Laps' = Laps
  BY <1>1, <1>7 DEF Laps
<1>9. PathInv'
  BY <1>1 DEF Rest, PathInv
<1> QED
  BY <1>1, <1>7, <1>8, <1>9, PassStep DEF Rest

\* step_duplicator, which enters a step into origin and query at once, keeps the invariant.
LEMMA DuplicatorStep ==
  ASSUME TypeOK, Rest, StepDuplicator
  PROVE  Rest' /\ Loop' = Loop
<1> DEFINE q == Head(dup_in)
           r == [dead |-> q.dead, last |-> q.last]
<1>1. /\ dup_in # <<>> /\ dup_in' = Tail(dup_in) /\ origin' = Append(origin, q)
      /\ query' = Append(query, r)
      /\ UNCHANGED <<loaded, new_query, rm_pc, slot_status, release, sm_in,
                     input, old_query, finished>>
  BY Zenon DEF StepDuplicator, loaderVars, ringVars, history
<1>2. /\ old_query \in Seq(StepPkg) /\ origin \in Seq(StepPkg)
      /\ dup_in \in Seq(StepPkg) /\ sm_in \in Seq(StepPkg)
      /\ query \in Seq(NextPkg) /\ input \in Seq(NextPkg)
  BY DEF TypeOK
<1>3. Loop' = Loop
  BY <1>1, <1>2, LoopPass, LoopChain
<1>4. Laps' = Laps
  BY <1>1, <1>3 DEF Laps
<1>5. q \in StepPkg
  BY <1>1, <1>2
<1>6. r \in NextPkg /\ r.dead = q.dead /\ r.last = q.last
  BY <1>5 DEF StepPkg, NextPkg
<1> HIDE DEF q, r
<1>7. PathInv'
  <2>1. /\ Len(origin)' = Len(origin) + 1 /\ Len(query)' = Len(query) + 1
        /\ \A i \in 1 .. Len(origin) : origin'[i] = origin[i]
        /\ \A i \in 1 .. Len(query) : query'[i] = query[i]
        /\ origin'[Len(origin) + 1] = q /\ query'[Len(query) + 1] = r
    BY <1>1, <1>2, <1>5, <1>6
  <2>2. /\ Len(origin) \in Nat /\ Len(query) \in Nat /\ Len(input) \in Nat
        /\ Len(origin) = Len(input) + Len(query)
    BY <1>2 DEF Rest, PathInv
  <2>3. ASSUME NEW i \in 1 .. Len(input)
        PROVE  /\ input[i].last = origin'[i].last
               /\ origin'[i].dead => input[i].dead
    <3>1. i \in 1 .. Len(origin)
      BY <2>2
    <3> QED
      BY <2>1, <3>1 DEF Rest, PathInv
  <2>4. ASSUME NEW i \in 1 .. Len(query) + 1
        PROVE  /\ query'[i].last = origin'[Len(input) + i].last
               /\ query'[i].dead = origin'[Len(input) + i].dead
    <3>1. CASE i \in 1 .. Len(query)
      <4>1. /\ Len(input) + i \in 1 .. Len(origin) /\ query'[i] = query[i]
            /\ origin'[Len(input) + i] = origin[Len(input) + i]
        BY <2>1, <2>2, <3>1
      <4> QED
        BY <3>1, <4>1, Zenon DEF Rest, PathInv
    <3>2. CASE i = Len(query) + 1
      <4>1. origin'[Len(input) + i] = q /\ query'[i] = r
        BY <2>1, <2>2, <3>2
      <4> QED
        BY <1>6, <4>1, Zenon
    <3> QED
      BY <2>2, <3>1, <3>2
  <2>5. /\ Len(query)' = Len(query) + 1 /\ input' = input
        /\ Len(origin)' = Len(input) + Len(query)'
    BY <1>1, <2>1, <2>2
  <2> QED
    BY <2>3, <2>4, <2>5 DEF PathInv
<1> QED
  BY <1>1, <1>3, <1>4, <1>7, PassStep DEF Rest

\* An answer of the sampling path keeps the invariant.
LEMMA SampleStep ==
  ASSUME TypeOK, Rest, SamplePath
  PROVE  Rest'
<1> DEFINE h == Head(query)
<1>1. /\ query # <<>> /\ query' = Tail(query)
      /\ UNCHANGED <<loaded, new_query, rm_pc, slot_status, release, sm_in,
                     dup_in, origin, old_query, finished>>
  BY Zenon DEF SamplePath, loaderVars, ringVars, history
<1>2. PICK dead \in IF h.dead THEN {TRUE} ELSE BOOLEAN :
         input' = Append(input, [dead |-> dead, last |-> h.last])
  BY Zenon DEF SamplePath
<1> DEFINE u == [dead |-> dead, last |-> h.last]
<1>3. origin \in Seq(StepPkg) /\ query \in Seq(NextPkg) /\ input \in Seq(NextPkg)
  BY DEF TypeOK
<1>4. h \in NextPkg /\ h = query[1] /\ Len(query) >= 1
  BY <1>1, <1>3
<1>5. u \in NextPkg /\ u.last = h.last /\ (h.dead => u.dead)
  BY <1>2, <1>4 DEF NextPkg
<1>6. input' = Append(input, u)
  BY <1>2
<1> HIDE DEF u, h
<1>7. Loop' = Loop /\ Laps' = Laps
  BY <1>1, LoopSame
<1>8. PathInv'
  <2>1. /\ Len(input)' = Len(input) + 1 /\ Len(query)' = Len(query) - 1
        /\ \A i \in 1 .. Len(input) : input'[i] = input[i]
        /\ input'[Len(input) + 1] = u
        /\ \A i \in 1 .. Len(query) - 1 : query'[i] = query[i + 1]
    BY <1>1, <1>3, <1>5, <1>6
  <2>2. /\ Len(query) \in Nat /\ Len(input) \in Nat
        /\ Len(origin) = Len(input) + Len(query)
    BY <1>3 DEF Rest, PathInv
  <2>3. ASSUME NEW i \in 1 .. Len(input) + 1
        PROVE  /\ input'[i].last = origin[i].last
               /\ origin[i].dead => input'[i].dead
    <3>1. CASE i \in 1 .. Len(input)
      BY <2>1, <3>1 DEF Rest, PathInv
    <3>2. CASE i = Len(input) + 1
      <4>1. 1 \in 1 .. Len(query)
        BY <1>4, <2>2
      <4>2. h.last = origin[i].last /\ h.dead = origin[i].dead
        BY <1>4, <3>2, <4>1 DEF Rest, PathInv
      <4>3. input'[i] = u
        BY <2>1, <3>2
      <4> QED
        BY <1>5, <4>2, <4>3, Zenon
    <3> QED
      BY <2>2, <3>1, <3>2
  <2>4. ASSUME NEW i \in 1 .. Len(query) - 1
        PROVE  /\ query'[i].last = origin[(Len(input) + 1) + i].last
               /\ query'[i].dead = origin[(Len(input) + 1) + i].dead
    <3>1. /\ i + 1 \in 1 .. Len(query) /\ query'[i] = query[i + 1]
          /\ Len(input) + (i + 1) = (Len(input) + 1) + i
      BY <2>1, <2>2
    <3>2. /\ query[i + 1].last = origin[Len(input) + (i + 1)].last
          /\ query[i + 1].dead = origin[Len(input) + (i + 1)].dead
      BY <3>1 DEF Rest, PathInv
    <3> QED
      BY <3>1, <3>2
  <2>5. Len(origin) = Len(input)' + Len(query)'
    BY <2>1, <2>2
  <2> QED
    BY <1>1, <2>1, <2>3, <2>4, <2>5 DEF PathInv
<1> QED
  BY <1>1, <1>7, <1>8, PassStep DEF Rest

\* fetch_next replaces the packet at its place of the loop.
LEMMA FetchLoop ==
  ASSUME TypeOK, origin # <<>>, NEW p \in StepPkg,
         old_query' = Append(old_query, p), origin' = Tail(origin),
         UNCHANGED <<dup_in, sm_in>>
  PROVE  /\ Len(Loop)' = Len(Loop) /\ Len(old_query) + 1 \in 1 .. Len(Loop)
         /\ Loop[Len(old_query) + 1] = origin[1]
         /\ Loop'[Len(old_query) + 1] = p
         /\ \A i \in 1 .. Len(Loop) : i # Len(old_query) + 1 => Loop'[i] = Loop[i]
<1> DEFINE a == old_query
           b == origin
           c == dup_in
           d == sm_in
           x == a \o b
           y == Append(a, p) \o Tail(b)
           v == x \o c
           w == y \o c
           l == v \o d
           m == w \o d
<1>20. /\ a \in Seq(StepPkg) /\ b \in Seq(StepPkg)
      /\ c \in Seq(StepPkg) /\ d \in Seq(StepPkg) /\ b # <<>>
  BY DEF TypeOK
<1>21. l = Loop /\ m = Loop'
  BY DEF Loop
<1> HIDE DEF a, b, c, d
<1>1. Len(a) \in Nat /\ Len(b) \in Nat /\ Len(b) >= 1
  BY <1>20
<1>2. /\ x \in Seq(StepPkg) /\ y \in Seq(StepPkg)
      /\ Len(x) = Len(a) + Len(b) /\ Len(y) = Len(x)
  BY <1>20
<1>3. /\ x[Len(a) + 1] = b[1] /\ y[Len(a) + 1] = p
      /\ \A i \in 1 .. Len(x) : i # Len(a) + 1 => y[i] = x[i]
  BY <1>20
<1>22. x \in Seq(StepPkg) /\ y \in Seq(StepPkg) /\ Len(y) = Len(x)
  BY <1>2
<1> HIDE DEF x, y
<1>4. /\ v \in Seq(StepPkg) /\ w \in Seq(StepPkg)
      /\ Len(v) = Len(x) + Len(c) /\ Len(w) = Len(v)
      /\ \A i \in 1 .. Len(x) : v[i] = x[i] /\ w[i] = y[i]
      /\ \A i \in Len(x) + 1 .. Len(x) + Len(c) : v[i] = w[i]
  <2>1. /\ v \in Seq(StepPkg) /\ w \in Seq(StepPkg)
        /\ Len(v) = Len(x) + Len(c) /\ Len(w) = Len(v)
    <3>1. v \in Seq(StepPkg) /\ Len(v) = Len(x) + Len(c)
      BY <1>20, <1>22
    <3>2. w \in Seq(StepPkg) /\ Len(w) = Len(y) + Len(c)
      <4>1. y \in Seq(StepPkg) /\ c \in Seq(StepPkg)
        BY <1>20, <1>22
      <4> QED
        BY <4>1
    <3> HIDE DEF v, w
    <3> QED
      BY <1>22, <3>1, <3>2
  <2>2. ASSUME NEW i \in 1 .. Len(x)
        PROVE  v[i] = x[i] /\ w[i] = y[i]
    BY <1>20, <1>22
  <2>3. ASSUME NEW i \in Len(x) + 1 .. Len(x) + Len(c)
        PROVE  v[i] = w[i]
    BY <1>20, <1>22
  <2> HIDE DEF v, w
  <2> QED
    BY <2>1, <2>2, <2>3
<1>5. v \in Seq(StepPkg) /\ w \in Seq(StepPkg) /\ Len(w) = Len(v)
  BY <1>4
<1> HIDE DEF v, w
<1>6. /\ l \in Seq(StepPkg) /\ m \in Seq(StepPkg)
      /\ Len(l) = Len(v) + Len(d) /\ Len(m) = Len(l)
      /\ \A i \in 1 .. Len(v) : l[i] = v[i] /\ m[i] = w[i]
      /\ \A i \in Len(v) + 1 .. Len(v) + Len(d) : l[i] = m[i]
  <2>1. /\ l \in Seq(StepPkg) /\ m \in Seq(StepPkg)
        /\ Len(l) = Len(v) + Len(d) /\ Len(m) = Len(l)
    BY <1>20, <1>5
  <2>2. ASSUME NEW i \in 1 .. Len(v)
        PROVE  l[i] = v[i] /\ m[i] = w[i]
    BY <1>20, <1>5
  <2>3. ASSUME NEW i \in Len(v) + 1 .. Len(v) + Len(d)
        PROVE  l[i] = m[i]
    BY <1>20, <1>5
  <2> HIDE DEF l, m
  <2> QED
    BY <2>1, <2>2, <2>3
<1> HIDE DEF l, m
<1>7. Len(c) \in Nat /\ Len(d) \in Nat
  BY <1>20
<1>8. Len(a) + 1 \in 1 .. Len(x) /\ Len(a) + 1 \in 1 .. Len(v)
      /\ Len(a) + 1 \in 1 .. Len(l)
  BY <1>1, <1>2, <1>4, <1>6, <1>7
<1>9. l[Len(a) + 1] = b[1] /\ m[Len(a) + 1] = p
  BY <1>3, <1>4, <1>6, <1>8
<1>10. ASSUME NEW i \in 1 .. Len(l), i # Len(a) + 1
       PROVE  m[i] = l[i]
  <2>1. CASE i \in 1 .. Len(x)
    <3>1. i \in 1 .. Len(v)
      BY <1>1, <1>2, <1>4, <1>7, <2>1
    <3> QED
      BY <1>3, <1>4, <1>6, <1>10, <2>1, <3>1
  <2>2. CASE i \in Len(x) + 1 .. Len(x) + Len(c)
    <3>1. i \in 1 .. Len(v)
      BY <1>1, <1>2, <1>4, <1>7, <2>2
    <3> QED
      BY <1>4, <1>6, <2>2, <3>1
  <2>3. CASE i \in Len(v) + 1 .. Len(v) + Len(d)
    BY <1>6, <2>3
  <2> QED
    BY <1>1, <1>2, <1>4, <1>6, <1>7, <2>1, <2>2, <2>3
<1> QED
  BY <1>21, <1>6, <1>8, <1>9, <1>10, Zenon DEF a, b

\* fetch_next, which starts the next lap of a step, keeps the invariant.
LEMMA FetchStep ==
  ASSUME TypeOK, Rest, FetchNext
  PROVE  Rest'
<1> DEFINE q == Head(origin)
           u == Head(input)
           p == StepUpdate(q, u)
           n == Len(Loop)
           k == Len(old_query) + 1
<1>1. /\ origin # <<>> /\ input # <<>> /\ old_query' = Append(old_query, p)
      /\ origin' = Tail(origin) /\ input' = Tail(input)
      /\ UNCHANGED <<loaded, new_query, rm_pc, slot_status, release, sm_in,
                     dup_in, query, finished>>
  BY Zenon DEF FetchNext, loaderVars, ringVars, history
<1>2. /\ old_query \in Seq(StepPkg) /\ origin \in Seq(StepPkg)
      /\ dup_in \in Seq(StepPkg) /\ sm_in \in Seq(StepPkg)
      /\ query \in Seq(NextPkg) /\ input \in Seq(NextPkg)
  BY DEF TypeOK
<1>3. q \in StepPkg /\ q = origin[1] /\ u \in NextPkg /\ u = input[1]
  BY <1>1, <1>2
<1>4. /\ p \in StepPkg /\ p.id = q.id /\ p.remain = (q.remain - 1) % StepMod
      /\ p.dead = (u.dead \/ q.remain = 2)
      /\ p.slot = q.slot /\ p.tag = q.tag /\ p.last = u.last
  <2> HIDE DEF q, u
  <2> QED
    BY <1>3, StepUpdateType, UpdateFields, Zenon
<1> HIDE DEF p
<1>5. /\ Len(Loop)' = n /\ k \in 1 .. n /\ Loop[k] = q /\ Loop'[k] = p
      /\ \A i \in 1 .. n : i # k => Loop'[i] = Loop[i]
  <2> HIDE DEF Loop, q
  <2> QED
    BY <1>1, <1>3, <1>4, FetchLoop
<1>6. n \in Nat /\ Len(old_query) \in Nat /\ Len(old_query)' = Len(old_query) + 1
  BY <1>1, <1>2, <1>4, LoopType
<1>7. /\ q.remain \in Nat /\ q.tag \in BOOLEAN
      /\ \A i \in 1 .. n : Loop[i].remain \in Nat
  BY <1>5, LoopFields
<1> HIDE DEF q, u, n, k, Loop
<1>8. Laps[k] = q.remain - 1 /\ q.remain - 1 \in 0 .. WalkLen - 1
  <2>1. Laps[k] = q.remain - 1
    BY <1>5, <1>6 DEF Laps, n, k
  <2> HIDE DEF Laps
  <2> QED
    BY <1>5, <2>1 DEF Rest, WalkInv, n
<1>9. p.remain = q.remain - 1
  BY <1>4, <1>7, <1>8, WalkAssumption
<1>10. Laps' = Laps
  <2>1. DOMAIN Laps = 1 .. n /\ DOMAIN Laps' = 1 .. n
    BY <1>5 DEF Laps, n
  <2>2. ASSUME NEW i \in 1 .. n PROVE Laps'[i] = Laps[i]
    <3>1. CASE i = k
      <4>1. Laps'[k] = p.remain
        BY <1>5, <1>6 DEF Laps, n, k
      <4> QED
        BY <1>8, <1>9, <3>1, <4>1
    <3>2. CASE i # k
      <4>1. (i <= Len(old_query)') <=> (i <= Len(old_query))
        BY <1>6, <3>2 DEF k
      <4>2. Loop'[i] = Loop[i] /\ i \in 1 .. Len(Loop)'
        BY <1>5, <3>2
      <4> QED
        BY <4>1, <4>2 DEF Laps, n
    <3> QED
      BY <3>1, <3>2
  <2>3. Laps = [i \in 1 .. n |-> Laps[i]] /\ Laps' = [i \in 1 .. n |-> Laps'[i]]
    BY <1>5 DEF Laps, n
  <2> HIDE DEF Laps
  <2> QED
    BY <2>2, <2>3
<1> HIDE DEF Laps
<1>11. ASSUME NEW i \in 1 .. n
       PROVE  /\ Loop'[i].id = Loop[i].id /\ Loop'[i].tag = Loop[i].tag
              /\ Loop'[i].slot = Loop[i].slot
  BY <1>4, <1>5
<1>12. u.last = q.last /\ (q.dead => u.dead)
  <2>1. 1 \in 1 .. Len(input)
    BY <1>1, <1>2
  <2> QED
    BY <1>3, <2>1 DEF Rest, PathInv
<1>13. NewInv' /\ Issued' = Issued
  BY <1>1 DEF Rest, NewInv, Issued
<1> HIDE DEF Issued
<1>14. WalkInv'
  <2>1. ASSUME NEW i \in 1 .. n PROVE Loop'[i].last = Loop[i].last
    BY <1>4, <1>5, <1>12
  <2> QED
    BY <1>5, <1>10, <1>11, <2>1 DEF Rest, WalkInv, n
<1>15. OrderInv' /\ AccountInv' /\ SlotOwnership'
  <2>1. OrderInv'
    BY <1>5, <1>10, <1>11 DEF Rest, OrderInv, n
  <2>2. AccountInv'
    BY <1>1, <1>5, <1>11, <1>13, ZenonT(60) DEF Rest, AccountInv, n
  <2>3. SlotOwnership'
    <3>1. /\ \A i, j \in 1 .. n : i # j => Loop[i].slot # Loop[j].slot
          /\ \A i \in 1 .. n : /\ Loop[i].slot \in Slots
                               /\ slot_status[Loop[i].slot]
                               /\ Loop[i].slot # release
      BY DEF Rest, SlotOwnership, n
    <3>2. slot_status' = slot_status /\ release' = release
      BY <1>1
    <3>3. ASSUME NEW i \in 1 .. n, NEW j \in 1 .. n, i # j
          PROVE  Loop'[i].slot # Loop'[j].slot
      BY <1>11, <3>1, <3>3
    <3>4. ASSUME NEW i \in 1 .. n
          PROVE  /\ Loop'[i].slot \in Slots
                 /\ slot_status'[Loop'[i].slot]
                 /\ Loop'[i].slot # release'
      BY <1>11, <3>1, <3>2, Zenon
    <3>5. 1 .. Len(Loop)' = 1 .. n
      BY <1>5
    <3> QED
      BY <3>3, <3>4, <3>5, Zenon DEF SlotOwnership
  <2> QED
    BY <2>1, <2>2, <2>3
<1>16. FinalLapIsDead'
  <2> SUFFICES ASSUME NEW i \in 1 .. n, Loop'[i].remain <= 1
               PROVE  Loop'[i].dead
    BY <1>5 DEF FinalLapIsDead
  <2>1. CASE i # k
    BY <1>5, <2>1 DEF Rest, FinalLapIsDead, n
  <2>2. CASE i = k
    <3>1. q.remain = 2 \/ q.remain <= 1
      BY <1>5, <1>7, <1>9, <2>2
    <3>2. q.remain <= 1 => q.dead
      BY <1>5 DEF Rest, FinalLapIsDead, n
    <3>3. p.dead
      BY <1>4, <1>12, <3>1, <3>2, Zenon
    <3> QED
      BY <1>5, <2>2, <3>3
  <2> QED
    BY <2>1, <2>2
<1>17. PathInv'
  <2>1. /\ Len(origin) \in Nat /\ Len(input) \in Nat /\ Len(query) \in Nat
        /\ Len(origin)' = Len(origin) - 1 /\ Len(input)' = Len(input) - 1
        /\ \A i \in 1 .. Len(origin) - 1 : origin'[i] = origin[i + 1]
        /\ \A i \in 1 .. Len(input) - 1 : input'[i] = input[i + 1]
    BY <1>1, <1>2
  <2>2. Len(origin) = Len(input) + Len(query)
    BY DEF Rest, PathInv
  <2>3. ASSUME NEW i \in 1 .. Len(input) - 1
        PROVE  /\ input'[i].last = origin'[i].last
               /\ origin'[i].dead => input'[i].dead
    <3>1. /\ i + 1 \in 1 .. Len(input) /\ i \in 1 .. Len(origin) - 1
          /\ input'[i] = input[i + 1] /\ origin'[i] = origin[i + 1]
      BY <2>1, <2>2
    <3> QED
      BY <3>1, Zenon DEF Rest, PathInv
  <2>4. ASSUME NEW i \in 1 .. Len(query)
        PROVE  /\ query[i].last = origin'[(Len(input) - 1) + i].last
               /\ query[i].dead = origin'[(Len(input) - 1) + i].dead
    <3>1. Len(input) >= 1
      BY <1>1, <1>2
    <3>2. /\ (Len(input) - 1) + i \in 1 .. Len(origin) - 1
          /\ ((Len(input) - 1) + i) + 1 = Len(input) + i
      BY <2>1, <2>2, <3>1
    <3>3. origin'[(Len(input) - 1) + i] = origin[Len(input) + i]
      BY <2>1, <3>2
    <3> QED
      BY <3>3 DEF Rest, PathInv
  <2>5. Len(origin)' = Len(input)' + Len(query) /\ query' = query
    BY <1>1, <2>1, <2>2
  <2>6. Len(input)' = Len(input) - 1
    BY <2>1
  <2> QED
    BY <2>3, <2>4, <2>5, <2>6 DEF PathInv
<1>18. ReleaseInv'
  BY <1>1 DEF Rest, ReleaseInv
<1>19. DoneInv'
  <2>1. rm_pc # "done"
    <3>1. Loop # <<>>
      BY <1>5, <1>6 DEF n
    <3> QED
      BY <3>1 DEF Rest, DoneInv
  <2> QED
    BY <1>1, <2>1 DEF DoneInv
<1> QED
  BY <1>13, <1>14, <1>15, <1>16, <1>17, <1>18, <1>19 DEF Rest

-----------------------------------------------------------------------------
(* Labels and vertices, which reach the sampling path by different ways     *)

\* What a step that touches none of the streams involved leaves as it is.
LEMMA LabelsSame ==
  ASSUME LabelsArePaired, UNCHANGED <<state_out, query, dup_in, origin, input>>
  PROVE  LabelsArePaired'
BY DEF LabelsArePaired

\* metapath_sm writes the label and the step it belongs to.
LEMMA LabelsMetapath ==
  ASSUME TypeOK, LabelsArePaired, MetapathSm
  PROVE  LabelsArePaired'
<1> DEFINE q == Head(sm_in)
           r == q.remain % StepMod
           p == [q EXCEPT !.remain = @ % StepMod]
<1>1. /\ sm_in # <<>> /\ dup_in' = Append(dup_in, p)
      /\ state_out' = Append(state_out, r)
      /\ UNCHANGED <<origin, query, input>>
  BY Zenon DEF MetapathSm
<1>2. /\ sm_in \in Seq(StepPkg) /\ dup_in \in Seq(StepPkg)
      /\ state_out \in Seq(0 .. StepMod - 1) /\ query \in Seq(NextPkg)
  BY DEF TypeOK
<1>3. q \in StepPkg
  BY <1>1, <1>2
<1>4. p \in StepPkg
  BY <1>3, TruncateType
<1>5. p.remain = r /\ r \in 0 .. StepMod - 1
  BY <1>3, WalkAssumption DEF StepPkg
<1> HIDE DEF p, r, q
<1>6. /\ Len(dup_in)' = Len(dup_in) + 1 /\ dup_in'[Len(dup_in) + 1] = p
      /\ \A i \in 1 .. Len(dup_in) : dup_in'[i] = dup_in[i]
      /\ Len(dup_in) \in Nat /\ Len(query) \in Nat
  BY <1>1, <1>2, <1>4
<1>7. /\ Len(state_out)' = Len(state_out) + 1
      /\ state_out'[Len(state_out) + 1] = r
      /\ \A i \in 1 .. Len(state_out) : state_out'[i] = state_out[i]
  BY <1>1, <1>2, <1>5
<1>8. Len(state_out) = Len(query) + Len(dup_in)
  BY DEF LabelsArePaired
<1>9. ASSUME NEW i \in 1 .. Len(query)
      PROVE  state_out'[i] = origin[Len(input) + i].remain
  <2>1. i \in 1 .. Len(state_out)
    BY <1>6, <1>8
  <2> QED
    BY <1>7, <2>1 DEF LabelsArePaired
<1>10. ASSUME NEW i \in 1 .. Len(dup_in) + 1
       PROVE  state_out'[Len(query) + i] = dup_in'[i].remain
  <2>1. CASE i \in 1 .. Len(dup_in)
    <3>1. Len(query) + i \in 1 .. Len(state_out)
      BY <1>6, <1>8, <2>1
    <3> QED
      BY <1>6, <1>7, <2>1, <3>1 DEF LabelsArePaired
  <2>2. CASE i = Len(dup_in) + 1
    <3>1. Len(query) + i = Len(state_out) + 1
      BY <1>6, <1>8, <2>2
    <3> QED
      BY <1>5, <1>6, <1>7, <2>2, <3>1
  <2> QED
    BY <1>6, <2>1, <2>2
<1>11. Len(state_out)' = Len(query) + Len(dup_in)'
  BY <1>6, <1>7, <1>8
<1> QED
  BY <1>1, <1>6, <1>9, <1>10, <1>11 DEF LabelsArePaired

\* step_duplicator moves a step on to the sampling path and to origin.
LEMMA LabelsDuplicator ==
  ASSUME TypeOK, PathInv, LabelsArePaired, StepDuplicator
  PROVE  LabelsArePaired'
<1> DEFINE q == Head(dup_in)
           r == [dead |-> q.dead, last |-> q.last]
<1>1. /\ dup_in # <<>> /\ dup_in' = Tail(dup_in)
      /\ origin' = Append(origin, q) /\ query' = Append(query, r)
      /\ UNCHANGED <<state_out, input>>
  BY Zenon DEF StepDuplicator
<1>2. /\ origin \in Seq(StepPkg) /\ dup_in \in Seq(StepPkg)
      /\ query \in Seq(NextPkg) /\ input \in Seq(NextPkg)
  BY DEF TypeOK
<1>3. q \in StepPkg /\ q = dup_in[1]
  BY <1>1, <1>2
<1>4. r \in NextPkg
  BY <1>3 DEF StepPkg, NextPkg
<1> HIDE DEF q, r
<1>5. /\ Len(origin)' = Len(origin) + 1 /\ Len(query)' = Len(query) + 1
      /\ \A i \in 1 .. Len(origin) : origin'[i] = origin[i]
      /\ origin'[Len(origin) + 1] = q
  BY <1>1, <1>2, <1>3, <1>4
<1>6. /\ Len(dup_in) >= 1 /\ Len(dup_in)' = Len(dup_in) - 1
      /\ \A i \in 1 .. Len(dup_in) - 1 : dup_in'[i] = dup_in[i + 1]
      /\ Len(dup_in) \in Nat /\ Len(query) \in Nat /\ Len(input) \in Nat
  BY <1>1, <1>2
<1>7. /\ Len(origin) = Len(input) + Len(query)
      /\ Len(state_out) = Len(query) + Len(dup_in)
  BY DEF PathInv, LabelsArePaired
<1>8. ASSUME NEW i \in 1 .. Len(query) + 1
      PROVE  state_out[i] = origin'[Len(input) + i].remain
  <2>1. CASE i \in 1 .. Len(query)
    <3>1. Len(input) + i \in 1 .. Len(origin)
      BY <1>6, <1>7, <2>1
    <3> QED
      BY <1>5, <2>1, <3>1 DEF LabelsArePaired
  <2>2. CASE i = Len(query) + 1
    <3>1. Len(input) + i = Len(origin) + 1 /\ 1 \in 1 .. Len(dup_in)
      BY <1>6, <1>7, <2>2
    <3>2. state_out[i] = dup_in[1].remain
      BY <2>2, <3>1 DEF LabelsArePaired
    <3> QED
      BY <1>3, <1>5, <3>1, <3>2
  <2> QED
    BY <1>6, <2>1, <2>2
<1>9. ASSUME NEW i \in 1 .. Len(dup_in) - 1
      PROVE  state_out[Len(query) + 1 + i] = dup_in'[i].remain
  <2>1. i + 1 \in 1 .. Len(dup_in) /\ Len(query) + 1 + i = Len(query) + (i + 1)
    BY <1>6
  <2>2. state_out[Len(query) + (i + 1)] = dup_in[i + 1].remain
    BY <2>1 DEF LabelsArePaired
  <2> QED
    BY <1>6, <2>1, <2>2
<1>10. Len(state_out) = Len(query)' + Len(dup_in)'
  BY <1>5, <1>6, <1>7
<1> QED
  BY <1>1, <1>5, <1>6, <1>8, <1>9, <1>10 DEF LabelsArePaired

\* The sampling path takes one vertex and one label.
LEMMA LabelsSample ==
  ASSUME TypeOK, PathInv, LabelsArePaired, SamplePath
  PROVE  LabelsArePaired'
<1>1. /\ query # <<>> /\ query' = Tail(query)
      /\ state_out # <<>> /\ state_out' = Tail(state_out)
      /\ UNCHANGED <<dup_in, origin>>
  BY Zenon DEF SamplePath
<1>2. PICK u : input' = Append(input, u)
  BY Zenon DEF SamplePath
<1>3. /\ dup_in \in Seq(StepPkg) /\ state_out \in Seq(0 .. StepMod - 1)
      /\ query \in Seq(NextPkg) /\ input \in Seq(NextPkg)
  BY DEF TypeOK
<1>4. /\ Len(query) >= 1 /\ Len(query)' = Len(query) - 1
      /\ Len(input)' = Len(input) + 1
      /\ Len(state_out)' = Len(state_out) - 1
      /\ \A i \in 1 .. Len(state_out) - 1 : state_out'[i] = state_out[i + 1]
      /\ Len(dup_in) \in Nat /\ Len(query) \in Nat /\ Len(input) \in Nat
  BY <1>1, <1>2, <1>3
<1>5. Len(state_out) = Len(query) + Len(dup_in)
  BY DEF LabelsArePaired
<1>6. ASSUME NEW i \in 1 .. Len(query) - 1
      PROVE  state_out'[i] = origin[Len(input) + 1 + i].remain
  <2>1. /\ i \in 1 .. Len(state_out) - 1 /\ i + 1 \in 1 .. Len(query)
        /\ Len(input) + 1 + i = Len(input) + (i + 1)
    BY <1>4, <1>5
  <2>2. state_out[i + 1] = origin[Len(input) + (i + 1)].remain
    BY <2>1 DEF LabelsArePaired
  <2> QED
    BY <1>4, <2>1, <2>2
<1>7. ASSUME NEW i \in 1 .. Len(dup_in)
      PROVE  state_out'[Len(query) - 1 + i] = dup_in[i].remain
  <2>1. /\ Len(query) - 1 + i \in 1 .. Len(state_out) - 1
        /\ Len(query) - 1 + i + 1 = Len(query) + i
    BY <1>4, <1>5
  <2>2. state_out[Len(query) + i] = dup_in[i].remain
    BY DEF LabelsArePaired
  <2> QED
    BY <1>4, <2>1, <2>2
<1>8. Len(state_out)' = Len(query)' + Len(dup_in)
  BY <1>4, <1>5
<1> QED
  BY <1>1, <1>4, <1>6, <1>7, <1>8 DEF LabelsArePaired

\* fetch_next takes the first step of origin and its answer.
LEMMA LabelsFetch ==
  ASSUME TypeOK, PathInv, LabelsArePaired, FetchNext
  PROVE  LabelsArePaired'
<1>1. /\ origin # <<>> /\ origin' = Tail(origin)
      /\ input # <<>> /\ input' = Tail(input)
      /\ UNCHANGED <<state_out, query, dup_in>>
  BY Zenon DEF FetchNext
<1>2. /\ origin \in Seq(StepPkg) /\ input \in Seq(NextPkg)
      /\ query \in Seq(NextPkg)
  BY DEF TypeOK
<1>3. /\ Len(input) >= 1 /\ Len(input)' = Len(input) - 1
      /\ \A i \in 1 .. Len(origin) - 1 : origin'[i] = origin[i + 1]
      /\ Len(query) \in Nat /\ Len(input) \in Nat
      /\ Len(origin) = Len(input) + Len(query)
  BY <1>1, <1>2 DEF PathInv
<1>4. ASSUME NEW i \in 1 .. Len(query)
      PROVE  state_out[i] = origin'[Len(input) - 1 + i].remain
  <2>1. /\ Len(input) - 1 + i \in 1 .. Len(origin) - 1
        /\ Len(input) - 1 + i + 1 = Len(input) + i
    BY <1>3
  <2>2. state_out[i] = origin[Len(input) + i].remain
    BY DEF LabelsArePaired
  <2> QED
    BY <1>3, <2>1, <2>2
<1> QED
  BY <1>1, <1>3, <1>4 DEF LabelsArePaired

\* Every action keeps labels and steps paired.
LEMMA LabelsStep ==
  ASSUME TypeOK, PathInv, LabelsArePaired, [Next]_vars
  PROVE  LabelsArePaired'
<1>1. CASE UNCHANGED vars
  BY <1>1, LabelsSame DEF vars
<1>2. CASE HostDone
  BY <1>2, LabelsSame DEF HostDone, vars
<1>3. CASE LoadQuery
  BY <1>3, LabelsSame, Zenon DEF LoadQuery
<1>4. CASE RingManager
  BY <1>4, LabelsSame, Zenon DEF RingManager, RingIdle, RingStop, RingReplace,
     RingRelease, RingForward, RingInsert, RingCommit
<1>5. CASE HostNextRun
  BY <1>5, LabelsSame, Zenon DEF HostNextRun
<1> QED
  BY <1>1, <1>2, <1>3, <1>4, <1>5, LabelsMetapath, LabelsDuplicator,
     LabelsSample, LabelsFetch, Zenon DEF Next

-----------------------------------------------------------------------------
(* The theorems.  They hold for every number of queries that fills whole    *)
(* bursts, every ring size, walk length, stream depth and number of runs.   *)

\* The rest of the invariant holds when the kernels start.
LEMMA RestInit == Init => Rest
<1> SUFFICES ASSUME Init PROVE Rest
  OBVIOUS
<1>1. Loop = <<>> /\ new_query = <<>>
  BY DEF Init, Loop
<1> HIDE DEF Loop
<1>2. Len(Loop) = 0 /\ Len(new_query) = 0 /\ Issued = 0
  <2>1. Len(<<>>) = 0
    OBVIOUS
  <2>2. Len(Loop) = 0 /\ Len(new_query) = 0
    BY <1>1, <2>1, Zenon
  <2>3. loaded = 0
    BY DEF Init
  <2> QED
    BY <2>2, <2>3 DEF Issued
<1> HIDE DEF Issued
<1>3. NewInv /\ WalkInv /\ OrderInv /\ SlotOwnership /\ FinalLapIsDead
  BY <1>2 DEF Init, NewInv, WalkInv, OrderInv, SlotOwnership, FinalLapIsDead
<1>4. AccountInv /\ PathInv /\ ReleaseInv /\ DoneInv
  BY <1>2 DEF Init, AccountInv, PathInv, ReleaseInv, DoneInv
<1> QED
  BY <1>3, <1>4 DEF Rest

\* Every action keeps the rest of the invariant.
LEMMA RestStep ==
  ASSUME Aligned, TypeOK, Rest, [Next]_vars
  PROVE  Rest'
<1>1. CASE UNCHANGED vars
  <2>1. Loop' = Loop /\ Laps' = Laps
    BY <1>1, LoopSame DEF vars
  <2>2. PathInv'
    BY <1>1 DEF vars, Rest, PathInv
  <2> QED
    BY <1>1, <2>1, <2>2, PassStep DEF vars, Rest
<1>2. CASE HostDone
  <2>1. UNCHANGED vars
    BY <1>2 DEF HostDone
  <2>2. Loop' = Loop /\ Laps' = Laps
    BY <2>1, LoopSame DEF vars
  <2>3. PathInv'
    BY <2>1 DEF vars, Rest, PathInv
  <2> QED
    BY <2>1, <2>2, <2>3, PassStep DEF vars, Rest
<1> QED
  BY <1>1, <1>2, LoadStep, IdleStep, StopStep, ReplaceStep, ReleaseStep,
     ForwardStep, InsertStep, MetapathStep, DuplicatorStep, SampleStep,
     FetchStep, NextRunStep, Zenon DEF Next, RingManager

\* RingInv is an inductive invariant of the query ring.
THEOREM RingInvariant ==
  ASSUME Aligned
  PROVE  Spec => []RingInv
<1>1. Init => TypeOK /\ Rest
  BY TypeInit, RestInit
<1>2. TypeOK /\ Rest /\ [Next]_vars => (TypeOK /\ Rest)'
  BY TypeStep, RestStep
<1>3. TypeOK /\ Rest => RingInv
  BY DEF Rest, RingInv
<1> QED
  BY <1>1, <1>2, <1>3, PTL DEF Spec

\* No two walks ever share a ring slot: ring_manager's two ways of giving a
\* slot away, and its delayed reset, never hand out a slot that is in use.
THEOREM SlotsAreOwned ==
  ASSUME Aligned
  PROVE  Spec => []SlotOwnership
<1>1. RingInv => SlotOwnership
  BY DEF RingInv
<1> QED
  BY <1>1, RingInvariant, PTL

\* The label a step is sampled with is the one of its own place in the
\* metapath, for all depths of the streams the two take.
THEOREM LabelsMeetTheirSteps ==
  ASSUME Aligned
  PROVE  Spec => []LabelsArePaired
<1>1. Init => LabelsArePaired
  BY DEF Init, LabelsArePaired
<1>2. RingInv /\ LabelsArePaired /\ [Next]_vars => LabelsArePaired'
  BY LabelsStep DEF RingInv
<1> QED
  BY <1>1, <1>2, RingInvariant, PTL DEF Spec

\* When ring_manager leaves its loop, every query of the run is finished and
\* every stream of the loop is empty.
THEOREM RunsEndClean ==
  ASSUME Aligned
  PROVE  Spec => []NothingLeftBehind
<1>1. RingInv /\ LabelsArePaired => NothingLeftBehind
  <2> SUFFICES ASSUME RingInv, LabelsArePaired, rm_pc = "done"
               PROVE  /\ finished = 0 .. NumQueries - 1
                      /\ Loop = <<>>
                      /\ new_query = <<>> /\ query = <<>> /\ input = <<>>
                      /\ state_out = <<>>
    BY DEF NothingLeftBehind
  <2>1. finished = 0 .. NumQueries - 1 /\ Loop = <<>> /\ new_query = <<>>
    BY DEF RingInv, DoneInv
  <2>2. TypeOK
    BY DEF RingInv
  <2>3. /\ origin \in Seq(StepPkg) /\ old_query \in Seq(StepPkg)
        /\ dup_in \in Seq(StepPkg) /\ sm_in \in Seq(StepPkg)
        /\ query \in Seq(NextPkg) /\ input \in Seq(NextPkg)
        /\ state_out \in Seq(0 .. StepMod - 1)
    BY <2>2 DEF TypeOK
  <2>4. Len(Loop) = Len(old_query) + Len(origin) + Len(dup_in) + Len(sm_in)
    BY <2>2, LoopType
  <2>5. Len(Loop) = 0
    <3> HIDE DEF Loop
    <3> QED
      BY <2>1
  <2> HIDE DEF Loop
  <2>6. /\ Len(origin) \in Nat /\ Len(old_query) \in Nat /\ Len(dup_in) \in Nat
        /\ Len(sm_in) \in Nat /\ Len(query) \in Nat /\ Len(input) \in Nat
    BY <2>3
  <2>7. Len(origin) = Len(input) + Len(query)
    BY DEF RingInv, PathInv
  <2>8. Len(query) = 0 /\ Len(input) = 0 /\ Len(dup_in) = 0
    <3>1. \A a, b, c, d \in Nat : a + b + c + d = 0 => b = 0 /\ c = 0
      OBVIOUS
    <3>2. Len(old_query) + Len(origin) + Len(dup_in) + Len(sm_in) = 0
      BY <2>4, <2>5, Zenon
    <3>3. Len(origin) = 0 /\ Len(dup_in) = 0
      BY <2>6, <3>1, <3>2, Zenon
    <3> QED
      BY <2>6, <2>7, <3>3
  <2>9. Len(state_out) = 0
    BY <2>8 DEF LabelsArePaired
  <2> QED
    BY <2>1, <2>3, <2>8, <2>9
<1> QED
  BY <1>1, RingInvariant, LabelsMeetTheirSteps, PTL

\* The lap that carries the last flag, and every other final lap, is made
\* with a dead vertex.
THEOREM FinalLapsAreDead ==
  ASSUME Aligned
  PROVE  Spec => []FinalLapIsDead
<1>1. RingInv => FinalLapIsDead
  BY DEF RingInv
<1> QED
  BY <1>1, RingInvariant, PTL

\* The loop never holds more queries than the ring has slots.
THEOREM LoopAlwaysFits ==
  ASSUME Aligned
  PROVE  Spec => []LoopFits
<1>1. RingInv => LoopFits
  <2> SUFFICES ASSUME RingInv, ~(Len(Loop) <= RingSize)
               PROVE  FALSE
    BY DEF LoopFits
  <2> DEFINE n == Len(Loop)
             f == [i \in 1 .. n |-> Loop[i].slot]
  <2>1. n \in Nat
    BY LoopType DEF RingInv
  <2>2. \A i \in 1 .. n : Loop[i].slot \in Slots
    BY DEF RingInv, SlotOwnership
  <2> HIDE DEF n, Loop
  <2>3. f \in [1 .. n -> Slots]
    BY <2>2
  <2>4. IsFiniteSet(1 .. n) /\ Cardinality(1 .. n) = n
    BY <2>1, FS_Interval
  <2>5. IsFiniteSet(Slots) /\ Cardinality(Slots) = RingSize
    <3>1. 0 \in Int /\ RingSize - 1 \in Int /\ ~(0 > RingSize - 1)
      BY SizeAssumption
    <3>2. /\ IsFiniteSet(0 .. RingSize - 1)
          /\ Cardinality(0 .. RingSize - 1) = (RingSize - 1) - 0 + 1
      BY <3>1, FS_Interval
    <3>3. (RingSize - 1) - 0 + 1 = RingSize
      BY SizeAssumption
    <3> QED
      BY <3>2, <3>3 DEF Slots
  <2>6. RingSize < n
    BY <2>1, SizeAssumption DEF n
  <2>7. \E i, j \in 1 .. n : i # j /\ f[i] = f[j]
    <3> HIDE DEF f, Slots
    <3> QED
      BY <2>3, <2>4, <2>5, <2>6, FS_PigeonHole
  <2> QED
    BY <2>7 DEF RingInv, SlotOwnership, n
<1> QED
  BY <1>1, RingInvariant, PTL

-----------------------------------------------------------------------------
(* What the host reads back: the number of steps, counted by fetch_next     *)
(* until it meets a flag, and the order in which queries appear on the      *)
(* stream the paths are taken from.                                         *)

\* query k has made the lap at the start of which it had l steps left
LapDone(k, l) == \A i \in 1..Len(Loop) : Loop[i].id = k => l > Loop[i].remain

\* the laps made by the queries that have entered the ring
Done == {x \in (0 .. Issued - 1) \X (1 .. WalkLen) : LapDone(x[1], x[2])}

\* The inductive invariant: the queries seen are those that have entered the
\* ring, every lap made is counted once, and a count that is complete is in
\* res[0].
CountInv ==
    /\ paths = 0 .. Issued - 1
    /\ count = Cardinality(Done)
    /\ ~fetch_run => res = count

\* The laps of a run are finitely many.
LEMMA DoneFinite ==
  ASSUME TypeOK, NewInv
  PROVE  /\ Issued \in Nat /\ WalkLen \in Nat
         /\ IsFiniteSet(Done)
         /\ IsFiniteSet((0 .. Issued - 1) \X (1 .. WalkLen))
         /\ Cardinality((0 .. Issued - 1) \X (1 .. WalkLen)) = Issued * WalkLen
         /\ Cardinality(0 .. Issued - 1) = Issued
<1>1. Issued \in Nat
  BY TotalLoadNat DEF TypeOK, NewInv, Issued
<1>2. WalkLen \in Nat /\ WalkLen >= 2
  BY WalkAssumption
<1>3. Done \subseteq (0 .. Issued - 1) \X (1 .. WalkLen)
  BY DEF Done
<1> HIDE DEF Issued, Done
<1>4. IsFiniteSet(0 .. Issued - 1) /\ Cardinality(0 .. Issued - 1) = Issued
  <2>1. 0 \in Int /\ Issued - 1 \in Int
    BY <1>1
  <2>2. /\ IsFiniteSet(0 .. Issued - 1)
        /\ Cardinality(0 .. Issued - 1) = IF 0 > Issued - 1 THEN 0 ELSE (Issued - 1) - 0 + 1
    BY <2>1, FS_Interval
  <2> QED
    BY <1>1, <2>2
<1>5. IsFiniteSet(1 .. WalkLen) /\ Cardinality(1 .. WalkLen) = WalkLen
  <2>1. /\ IsFiniteSet(1 .. WalkLen)
        /\ Cardinality(1 .. WalkLen) = IF 1 > WalkLen THEN 0 ELSE WalkLen - 1 + 1
    BY <1>2, FS_Interval
  <2> QED
    BY <1>2, <2>1
<1>6. /\ IsFiniteSet((0 .. Issued - 1) \X (1 .. WalkLen))
      /\ Cardinality((0 .. Issued - 1) \X (1 .. WalkLen)) = Issued * WalkLen
  <2> DEFINE S == 0 .. Issued - 1
             T == 1 .. WalkLen
  <2>1. IsFiniteSet(S) /\ IsFiniteSet(T) /\ Cardinality(S) = Issued /\ Cardinality(T) = WalkLen
    BY <1>4, <1>5
  <2> HIDE DEF S, T
  <2>2. IsFiniteSet(S \X T) /\ Cardinality(S \X T) = Cardinality(S) * Cardinality(T)
    BY <2>1, FS_Product
  <2>3. IsFiniteSet(S \X T) /\ Cardinality(S \X T) = Issued * WalkLen
    BY <2>1, <2>2
  <2> QED
    BY <2>3, Zenon DEF S, T
<1>7. IsFiniteSet(Done)
  <2> DEFINE T == (0 .. Issued - 1) \X (1 .. WalkLen)
  <2>1. IsFiniteSet(T) /\ Done \in SUBSET T
    BY <1>3, <1>6
  <2> HIDE DEF T
  <2> QED
    BY <2>1, FS_Subset
<1> QED
  BY <1>1, <1>2, <1>4, <1>6, <1>7

\* A step that makes no lap and lets no query in leaves the laps as they are.
LEMMA DoneSame ==
  ASSUME Issued' = Issued,
         \A k \in 0 .. Issued - 1, l \in 1 .. WalkLen : LapDone(k, l)' <=> LapDone(k, l)
  PROVE  Done' = Done
<1> HIDE DEF Issued, LapDone
<1> QED
  BY DEF Done

\* Neither does a step that leaves the loop as it is.
LEMMA LoopSameDone ==
  ASSUME Loop' = Loop, Issued' = Issued
  PROVE  Done' = Done
<1>1. \A k \in 0 .. Issued - 1, l \in 1 .. WalkLen : LapDone(k, l)' <=> LapDone(k, l)
  <2> HIDE DEF Loop, Issued
  <2> QED
    BY DEF LapDone
<1> HIDE DEF LapDone
<1> QED
  BY <1>1, DoneSame

\* A query that leaves the loop has made all its laps.
LEMMA PopDone ==
  ASSUME TypeOK, old_query # <<>>, old_query' = Tail(old_query),
         UNCHANGED <<origin, dup_in, sm_in>>, Head(old_query).remain = 0,
         Issued' = Issued
  PROVE  Done' = Done
<1> DEFINE n == Len(Loop)
<1>1. /\ n \in Nat /\ n >= 1 /\ Len(Loop)' = n - 1 /\ Loop[1].remain = 0
      /\ \A i \in 1 .. n - 1 : Loop'[i] = Loop[i + 1]
  BY PopStep
<1> HIDE DEF n, Loop, Issued
<1>2. ASSUME NEW k \in 0 .. Issued - 1, NEW l \in 1 .. WalkLen
      PROVE  LapDone(k, l)' <=> LapDone(k, l)
  <2>1. ASSUME LapDone(k, l)' PROVE LapDone(k, l)
    <3> SUFFICES ASSUME NEW i \in 1 .. n, Loop[i].id = k PROVE l > Loop[i].remain
      BY DEF LapDone, n
    <3>1. CASE i = 1
      BY <1>1, <3>1
    <3>2. CASE i # 1
      <4>1. i - 1 \in 1 .. n - 1 /\ Loop'[i - 1] = Loop[i]
        BY <1>1, <3>2
      <4> QED
        BY <1>1, <2>1, <4>1 DEF LapDone
    <3> QED
      BY <3>1, <3>2
  <2>2. ASSUME LapDone(k, l) PROVE LapDone(k, l)'
    <3> SUFFICES ASSUME NEW i \in 1 .. n - 1, Loop'[i].id = k PROVE l > Loop'[i].remain
      BY <1>1 DEF LapDone
    <3>1. i + 1 \in 1 .. n /\ Loop'[i] = Loop[i + 1]
      BY <1>1
    <3> QED
      BY <2>2, <3>1 DEF LapDone, n
  <2> QED
    BY <2>1, <2>2
<1> HIDE DEF LapDone
<1> QED
  BY <1>2, DoneSame

\* A query sent around again has made no lap by that.
LEMMA TurnDone ==
  ASSUME TypeOK, NEW p \in StepPkg, sm_in' = Append(sm_in, p),
         old_query # <<>>, old_query' = Tail(old_query),
         UNCHANGED <<origin, dup_in>>, Issued' = Issued,
         p.id = Head(old_query).id, p.remain = Head(old_query).remain
  PROVE  Done' = Done
<1> DEFINE n == Len(Loop)
<1>1. /\ n \in Nat /\ n >= 1 /\ Len(Loop)' = n
      /\ Loop[1].id = p.id /\ Loop[1].remain = p.remain /\ Loop'[n] = p
      /\ \A i \in 1 .. n - 1 : Loop'[i] = Loop[i + 1]
  BY TurnStep
<1> HIDE DEF n, Loop, Issued
<1>2. ASSUME NEW k \in 0 .. Issued - 1, NEW l \in 1 .. WalkLen
      PROVE  LapDone(k, l)' <=> LapDone(k, l)
  <2>1. ASSUME LapDone(k, l)' PROVE LapDone(k, l)
    <3> SUFFICES ASSUME NEW i \in 1 .. n, Loop[i].id = k PROVE l > Loop[i].remain
      BY DEF LapDone, n
    <3>1. CASE i = 1
      <4>1. Loop'[n].id = Loop[i].id /\ Loop'[n].remain = Loop[i].remain /\ n \in 1 .. n
        BY <1>1, <3>1
      <4> QED
        BY <1>1, <2>1, <4>1 DEF LapDone
    <3>2. CASE i # 1
      <4>1. i - 1 \in 1 .. n - 1 /\ i - 1 \in 1 .. n /\ Loop'[i - 1] = Loop[i]
        BY <1>1, <3>2
      <4> QED
        BY <1>1, <2>1, <4>1 DEF LapDone
    <3> QED
      BY <3>1, <3>2
  <2>2. ASSUME LapDone(k, l) PROVE LapDone(k, l)'
    <3> SUFFICES ASSUME NEW i \in 1 .. n, Loop'[i].id = k PROVE l > Loop'[i].remain
      BY <1>1 DEF LapDone
    <3>1. CASE i = n
      <4>1. Loop'[i].id = Loop[1].id /\ Loop'[i].remain = Loop[1].remain /\ 1 \in 1 .. n
        BY <1>1, <3>1
      <4> QED
        BY <2>2, <4>1 DEF LapDone, n
    <3>2. CASE i # n
      <4>1. i + 1 \in 1 .. n /\ Loop'[i] = Loop[i + 1]
        BY <1>1, <3>2
      <4> QED
        BY <2>2, <4>1 DEF LapDone, n
    <3> QED
      BY <3>1, <3>2
  <2> QED
    BY <2>1, <2>2
<1> HIDE DEF LapDone
<1> QED
  BY <1>2, DoneSame

\* A query that enters the ring has all its laps to make.
LEMMA EnterDone ==
  ASSUME Issued \in Nat, Issued' = Issued + 1,
         \A k \in 0 .. Issued - 1, l \in 1 .. WalkLen : LapDone(k, l)' <=> LapDone(k, l),
         \A k \in Nat, l \in 1 .. WalkLen : k = Issued => ~LapDone(k, l)'
  PROVE  Done' = Done
<1> DEFINE I == Issued
<1>1. ASSUME NEW x PROVE x \in Done' <=> x \in Done
  <2>1. ASSUME x \in Done' PROVE x \in Done
    <3>1. PICK k \in 0 .. I, l \in 1 .. WalkLen : x = <<k, l>> /\ LapDone(k, l)'
      <4>1. x \in (0 .. I + 1 - 1) \X (1 .. WalkLen) /\ LapDone(x[1], x[2])'
        BY <2>1 DEF Done
      <4> HIDE DEF LapDone, I
      <4>2. I \in Nat
        BY DEF I
      <4>3. x[1] \in 0 .. I /\ x[2] \in 1 .. WalkLen /\ x = <<x[1], x[2]>>
        BY <4>1, <4>2
      <4> QED
        BY <4>1, <4>3, Zenon
    <3> HIDE DEF LapDone, Issued
    <3>2. k # I
      BY <3>1
    <3>3. k \in 0 .. I - 1
      BY <3>2
    <3> QED
      BY <3>1, <3>3 DEF Done
  <2>2. ASSUME x \in Done PROVE x \in Done'
    <3>1. PICK k \in 0 .. I - 1, l \in 1 .. WalkLen : x = <<k, l>> /\ LapDone(k, l)
      <4>1. x \in (0 .. I - 1) \X (1 .. WalkLen) /\ LapDone(x[1], x[2])
        BY <2>2 DEF Done
      <4> HIDE DEF LapDone, I
      <4>2. x[1] \in 0 .. I - 1 /\ x[2] \in 1 .. WalkLen /\ x = <<x[1], x[2]>>
        BY <4>1
      <4> QED
        BY <4>1, <4>2, Zenon
    <3> HIDE DEF LapDone, Issued
    <3>2. k \in 0 .. Issued' - 1 /\ LapDone(k, l)'
      BY <3>1
    <3> QED
      BY <3>1, <3>2 DEF Done
  <2> QED
    BY <2>1, <2>2
<1> HIDE DEF Done
<1>2. Done' \subseteq Done /\ Done \subseteq Done'
  BY <1>1
<1> QED
  BY <1>2

\* RingInsert puts a query with all its laps at the end of the loop.
LEMMA PushDone ==
  ASSUME TypeOK, Rest, NEW p \in StepPkg, sm_in' = Append(sm_in, p),
         UNCHANGED <<old_query, origin, dup_in>>,
         Issued \in Nat, Issued' = Issued + 1, p.id = Issued, p.remain = WalkLen
  PROVE  Done' = Done
<1> DEFINE n == Len(Loop)
<1>1. /\ n \in Nat /\ Len(Loop)' = n + 1 /\ Loop'[n + 1] = p
      /\ \A i \in 1 .. n : Loop'[i] = Loop[i]
  BY PushStep
<1>2. \A i \in 1 .. n : Loop[i].id < Issued
  BY DEF Rest, AccountInv
<1> HIDE DEF n, Loop, Issued
<1>3. ASSUME NEW k \in 0 .. Issued - 1, NEW l \in 1 .. WalkLen
      PROVE  LapDone(k, l)' <=> LapDone(k, l)
  <2>1. ASSUME LapDone(k, l)' PROVE LapDone(k, l)
    <3> SUFFICES ASSUME NEW i \in 1 .. n, Loop[i].id = k PROVE l > Loop[i].remain
      BY DEF LapDone, n
    <3>1. i \in 1 .. n + 1 /\ Loop'[i] = Loop[i]
      BY <1>1
    <3> QED
      BY <1>1, <2>1, <3>1 DEF LapDone
  <2>2. ASSUME LapDone(k, l) PROVE LapDone(k, l)'
    <3> SUFFICES ASSUME NEW i \in 1 .. n + 1, Loop'[i].id = k PROVE l > Loop'[i].remain
      BY <1>1 DEF LapDone
    <3>1. i # n + 1
      BY <1>1
    <3>2. i \in 1 .. n /\ Loop'[i] = Loop[i]
      BY <1>1, <3>1
    <3> QED
      BY <2>2, <3>2 DEF LapDone, n
  <2> QED
    BY <2>1, <2>2
<1>4. ASSUME NEW k \in Nat, NEW l \in 1 .. WalkLen, k = Issued PROVE ~LapDone(k, l)'
  <2>1. n + 1 \in 1 .. Len(Loop)' /\ ~(l > p.remain)
    BY <1>1, WalkAssumption
  <2>2. Loop'[n + 1].id = k /\ ~(l > Loop'[n + 1].remain)
    BY <1>1, <1>4, <2>1
  <2> QED
    BY <2>1, <2>2 DEF LapDone
<1> HIDE DEF LapDone
<1> QED
  BY <1>3, <1>4, EnterDone

\* RingReplace does so and takes a query with no lap left off the loop.
LEMMA ReplaceDone ==
  ASSUME TypeOK, Rest, NEW p \in StepPkg, sm_in' = Append(sm_in, p),
         old_query # <<>>, old_query' = Tail(old_query),
         UNCHANGED <<origin, dup_in>>, Head(old_query).remain = 0,
         Issued \in Nat, Issued' = Issued + 1, p.id = Issued, p.remain = WalkLen
  PROVE  Done' = Done
<1> DEFINE n == Len(Loop)
<1>1. /\ n \in Nat /\ n >= 1 /\ Len(Loop)' = n /\ Loop'[n] = p
      /\ Loop[1].remain = 0
      /\ \A i \in 1 .. n - 1 : Loop'[i] = Loop[i + 1]
  BY TurnStep
<1>2. \A i \in 1 .. n : Loop[i].id < Issued
  BY DEF Rest, AccountInv
<1> HIDE DEF n, Loop, Issued
<1>3. ASSUME NEW k \in 0 .. Issued - 1, NEW l \in 1 .. WalkLen
      PROVE  LapDone(k, l)' <=> LapDone(k, l)
  <2>1. ASSUME LapDone(k, l)' PROVE LapDone(k, l)
    <3> SUFFICES ASSUME NEW i \in 1 .. n, Loop[i].id = k PROVE l > Loop[i].remain
      BY DEF LapDone, n
    <3>1. CASE i = 1
      BY <1>1, <3>1
    <3>2. CASE i # 1
      <4>1. i - 1 \in 1 .. n - 1 /\ i - 1 \in 1 .. n /\ Loop'[i - 1] = Loop[i]
        BY <1>1, <3>2
      <4> QED
        BY <1>1, <2>1, <4>1 DEF LapDone
    <3> QED
      BY <3>1, <3>2
  <2>2. ASSUME LapDone(k, l) PROVE LapDone(k, l)'
    <3> SUFFICES ASSUME NEW i \in 1 .. n, Loop'[i].id = k PROVE l > Loop'[i].remain
      BY <1>1 DEF LapDone
    <3>1. i # n
      BY <1>1
    <3>2. i + 1 \in 1 .. n /\ Loop'[i] = Loop[i + 1]
      BY <1>1, <3>1
    <3> QED
      BY <2>2, <3>2 DEF LapDone, n
  <2> QED
    BY <2>1, <2>2
<1>4. ASSUME NEW k \in Nat, NEW l \in 1 .. WalkLen, k = Issued PROVE ~LapDone(k, l)'
  <2>1. n \in 1 .. Len(Loop)' /\ ~(l > p.remain)
    BY <1>1, WalkAssumption
  <2>2. Loop'[n].id = k /\ ~(l > Loop'[n].remain)
    BY <1>1, <1>4, <2>1
  <2> QED
    BY <2>1, <2>2 DEF LapDone
<1> HIDE DEF LapDone
<1> QED
  BY <1>3, <1>4, EnterDone

\* What FetchNext does to the loop: the first query of origin has one step less.
LEMMA FetchFields ==
  ASSUME TypeOK, Rest, FetchNext
  PROVE  \E m \in 1 .. Len(Loop) :
            /\ Len(Loop)' = Len(Loop)
            /\ Loop[m].remain \in 1 .. WalkLen
            /\ Loop'[m].id = Loop[m].id
            /\ Loop'[m].remain = Loop[m].remain - 1
            /\ \A i \in 1 .. Len(Loop) : i # m => Loop'[i] = Loop[i]
<1> DEFINE q == Head(origin)
           u == Head(input)
           p == StepUpdate(q, u)
           n == Len(Loop)
           m == Len(old_query) + 1
<1>1. /\ origin # <<>> /\ input # <<>> /\ old_query' = Append(old_query, p)
      /\ origin' = Tail(origin)
      /\ UNCHANGED <<sm_in, dup_in>>
  BY Zenon DEF FetchNext
<1>2. /\ old_query \in Seq(StepPkg) /\ origin \in Seq(StepPkg)
      /\ input \in Seq(NextPkg)
  BY DEF TypeOK
<1>3. q \in StepPkg /\ q = origin[1] /\ u \in NextPkg
  BY <1>1, <1>2
<1>4. p \in StepPkg /\ p.id = q.id /\ p.remain = (q.remain - 1) % StepMod
  <2> HIDE DEF q, u
  <2> QED
    BY <1>3, StepUpdateType, UpdateFields, Zenon
<1> HIDE DEF p
<1>5. /\ Len(Loop)' = n /\ m \in 1 .. n /\ Loop[m] = q /\ Loop'[m] = p
      /\ \A i \in 1 .. n : i # m => Loop'[i] = Loop[i]
  <2> HIDE DEF Loop, q
  <2> QED
    BY <1>1, <1>3, <1>4, FetchLoop
<1>6. n \in Nat /\ Len(old_query) \in Nat
  BY <1>2, LoopType
<1>7. q.remain \in Nat
  BY <1>5, LoopFields
<1> HIDE DEF q, u, n, m, Loop
<1>8. q.remain - 1 \in 0 .. WalkLen - 1
  <2>1. Laps[m] = q.remain - 1
    BY <1>5, <1>6 DEF Laps, n, m
  <2> HIDE DEF Laps
  <2> QED
    BY <1>5, <2>1 DEF Rest, WalkInv, n
<1>9. p.remain = q.remain - 1 /\ q.remain \in 1 .. WalkLen
  BY <1>4, <1>7, <1>8, WalkAssumption
<1> QED
  BY <1>4, <1>5, <1>9 DEF n

\* FetchNext makes one lap, which had not been made before.
LEMMA FetchDone ==
  ASSUME TypeOK, Rest, FetchNext
  PROVE  \E x : x \notin Done /\ Done' = Done \union {x}
<1> DEFINE n == Len(Loop)
<1>1. PICK m \in 1 .. n :
            /\ Len(Loop)' = n
            /\ Loop[m].remain \in 1 .. WalkLen
            /\ Loop'[m].id = Loop[m].id
            /\ Loop'[m].remain = Loop[m].remain - 1
            /\ \A i \in 1 .. n : i # m => Loop'[i] = Loop[i]
  BY FetchFields
<1>2. UNCHANGED <<loaded, new_query>>
  BY DEF FetchNext, loaderVars
<1>3. Issued' = Issued /\ Issued \in Nat
  BY <1>2, DoneFinite DEF Issued, Rest
<1>4. /\ Loop[m].id \in 0 .. Issued - 1
      /\ \A i \in 1 .. n : i # m => Loop[i].id # Loop[m].id
  <2>1. Loop[m].id \in Nat /\ Loop[m].id < Issued
    BY LoopFields DEF Rest, AccountInv
  <2>2. n \in Nat
    BY LoopType
  <2>3. \A i \in 1 .. n : Loop[i].id \in Nat
    BY LoopFields
  <2> HIDE DEF Loop, n, Issued
  <2>4. ASSUME NEW i \in 1 .. n, i # m PROVE Loop[i].id # Loop[m].id
    <3>1. i < m \/ m < i
      BY <2>2, <2>4
    <3>2. CASE i < m
      BY <2>3, <3>2 DEF Rest, OrderInv, n
    <3>3. CASE m < i
      BY <2>3, <3>3 DEF Rest, OrderInv, n
    <3> QED
      BY <3>1, <3>2, <3>3
  <2> QED
    BY <1>3, <2>1, <2>4
<1> DEFINE a == Loop[m].id
           b == Loop[m].remain
<1>5. a \in 0 .. Issued - 1 /\ b \in 1 .. WalkLen /\ Loop'[m].id = a /\ Loop'[m].remain = b - 1
  BY <1>1, <1>4
<1>6. \A i \in 1 .. n : Loop[i].remain \in Nat
  BY LoopFields
<1> HIDE DEF n, Loop, Issued
<1>7. ASSUME NEW k \in 0 .. Issued - 1, NEW l \in 1 .. WalkLen
      PROVE  LapDone(k, l)' <=> LapDone(k, l) \/ (k = a /\ l = b)
  <2>1. CASE k = a
    <3>1. LapDone(k, l) <=> l > b
      BY <1>4, <2>1 DEF LapDone, n
    <3>2. LapDone(k, l)' <=> l > b - 1
      <4>1. ASSUME LapDone(k, l)' PROVE l > b - 1
        BY <1>1, <1>5, <2>1, <4>1 DEF LapDone
      <4>2. ASSUME l > b - 1 PROVE LapDone(k, l)'
        <5> SUFFICES ASSUME NEW i \in 1 .. n, Loop'[i].id = k
                     PROVE  l > Loop'[i].remain
          BY <1>1 DEF LapDone
        <5>1. i = m
          BY <1>1, <1>4, <2>1
        <5> QED
          BY <1>5, <4>2, <5>1
      <4> QED
        BY <4>1, <4>2
    <3>3. l > b - 1 <=> l > b \/ l = b
      BY <1>5
    <3> HIDE DEF LapDone, a, b
    <3> QED
      BY <2>1, <3>1, <3>2, <3>3
  <2>2. CASE k # a
    <3>1. ASSUME LapDone(k, l)' PROVE LapDone(k, l)
      <4> SUFFICES ASSUME NEW i \in 1 .. n, Loop[i].id = k PROVE l > Loop[i].remain
        BY DEF LapDone, n
      <4>1. Loop'[i] = Loop[i]
        BY <1>1, <2>2
      <4> QED
        BY <1>1, <3>1, <4>1 DEF LapDone
    <3>2. ASSUME LapDone(k, l) PROVE LapDone(k, l)'
      <4> SUFFICES ASSUME NEW i \in 1 .. n, Loop'[i].id = k PROVE l > Loop'[i].remain
        BY <1>1 DEF LapDone
      <4>1. Loop'[i] = Loop[i]
        BY <1>1, <1>5, <2>2
      <4> QED
        BY <3>2, <4>1 DEF LapDone, n
    <3> HIDE DEF LapDone, a, b
    <3> QED
      BY <2>2, <3>1, <3>2
  <2> QED
    BY <2>1, <2>2
<1>8. ~LapDone(a, b)
  BY <1>5, <1>6 DEF LapDone, n
<1> DEFINE x == <<a, b>>
<1> HIDE DEF a, b, LapDone
<1>9. x \notin Done
  BY <1>8 DEF Done
<1>10. Done' = Done \union {x}
  <2>1. ASSUME NEW y \in Done' PROVE y \in Done \union {x}
    <3>1. PICK k \in 0 .. Issued - 1, l \in 1 .. WalkLen : y = <<k, l>> /\ LapDone(k, l)'
      <4>1. y \in (0 .. Issued - 1) \X (1 .. WalkLen) /\ LapDone(y[1], y[2])'
        BY <1>3, <2>1 DEF Done
      <4>2. y[1] \in 0 .. Issued - 1 /\ y[2] \in 1 .. WalkLen /\ y = <<y[1], y[2]>>
        BY <4>1
      <4> QED
        BY <4>1, <4>2, Zenon
    <3>2. LapDone(k, l) \/ (k = a /\ l = b)
      BY <1>7, <3>1
    <3> QED
      BY <3>1, <3>2 DEF Done
  <2>2. ASSUME NEW y \in Done \union {x} PROVE y \in Done'
    <3>1. PICK k \in 0 .. Issued - 1, l \in 1 .. WalkLen :
             y = <<k, l>> /\ (LapDone(k, l) \/ (k = a /\ l = b))
      <4>1. CASE y = x
        BY <1>5, <4>1
      <4>2. CASE y \in Done
        <5>1. y \in (0 .. Issued - 1) \X (1 .. WalkLen) /\ LapDone(y[1], y[2])
          BY <4>2 DEF Done
        <5>2. y[1] \in 0 .. Issued - 1 /\ y[2] \in 1 .. WalkLen /\ y = <<y[1], y[2]>>
          BY <5>1
        <5> QED
          BY <5>1, <5>2, Zenon
      <4> QED
        BY <2>2, <4>1, <4>2
    <3>2. LapDone(k, l)'
      BY <1>7, <3>1
    <3> QED
      BY <1>3, <3>1, <3>2 DEF Done
  <2> HIDE DEF Done, x
  <2> QED
    BY <2>1, <2>2
<1> QED
  BY <1>9, <1>10, Zenon

-----------------------------------------------------------------------------
(* The inductive invariant                                                  *)

\* Nothing has been issued when the kernels start.
LEMMA NothingIssued ==
  ASSUME Loop = <<>>, Issued = 0
  PROVE  Done = {} /\ 0 .. Issued - 1 = {}
<1> HIDE DEF Loop, Issued
<1>1. 0 .. Issued - 1 = {}
  OBVIOUS
<1> QED
  BY <1>1 DEF Done

\* So nothing is seen, and nothing counted.
LEMMA CountInit == Init => CountInv
<1> SUFFICES ASSUME Init PROVE CountInv
  OBVIOUS
<1>1. Loop = <<>>
  BY DEF Init, Loop
<1>2. Issued = 0
  <2>1. Len(<<>>) = 0
    OBVIOUS
  <2>2. Len(new_query) = 0 /\ loaded = 0
    BY <2>1, Zenon DEF Init
  <2> QED
    BY <2>2 DEF Issued
<1>3. Done = {} /\ 0 .. Issued - 1 = {}
  BY <1>1, <1>2, NothingIssued
<1>4. Cardinality({}) = 0
  BY FS_EmptySet
<1> HIDE DEF Done
<1> QED
  BY <1>3, <1>4 DEF Init, CountInv

\* The query that enters the ring is the next one of the run.
LEMMA EnterPaths ==
  ASSUME Issued \in Nat, Issued' = Issued + 1, paths = 0 .. Issued - 1,
         paths' = paths \union {Issued}
  PROVE  paths' = 0 .. Issued' - 1
<1> HIDE DEF Issued
<1> QED
  OBVIOUS

\* Queries enter the ring in the order of their indices, and do not count as laps.
LEMMA EnterStep ==
  ASSUME TypeOK, Rest, CountInv, RingInsert \/ RingReplace
  PROVE  CountInv' /\ Issued \in Nat /\ paths' = paths \union {Issued}
<1> DEFINE q == Head(new_query)
<1>1. /\ new_query # <<>> /\ new_query' = Tail(new_query)
      /\ paths' = paths \union {q.id}
      /\ UNCHANGED <<loaded, origin, dup_in, fetch_run, count, res>>
  BY Zenon DEF RingInsert, RingReplace, CanInsert, fetchVars
<1>2. /\ Issued \in Nat /\ Issued' = Issued + 1 /\ q \in StepPkg
      /\ q.id = Issued /\ q.remain = WalkLen
  BY <1>1, NewHead DEF Rest
<1>3. CASE RingInsert
  <2> DEFINE p == Issue(q, ring_counter)
  <2>1. sm_in' = Append(sm_in, p) /\ old_query' = old_query
    BY <1>3, Zenon DEF RingInsert
  <2>2. ring_counter \in 0 .. RingSize
    BY SizeAssumption DEF TypeOK, Slots
  <2> HIDE DEF q, Issued
  <2>3. p \in StepPkg /\ p.id = Issued /\ p.remain = WalkLen
    BY <1>2, <2>2, IssueType, IssueFields, Zenon, ZenonT(60)
  <2> HIDE DEF p
  <2>4. Done' = Done
    BY <1>1, <1>2, <2>1, <2>3, PushDone
  <2>5. paths' = 0 .. Issued' - 1
    BY <1>1, <1>2, EnterPaths DEF CountInv
  <2> HIDE DEF Done
  <2> QED
    BY <1>1, <1>2, <2>4, <2>5 DEF CountInv
<1>4. CASE RingReplace
  <2> DEFINE o == Head(old_query)
             p == Issue(q, o.slot)
  <2>1. /\ sm_in' = Append(sm_in, p) /\ old_query # <<>> /\ old_query' = Tail(old_query)
        /\ o.remain = 0
    BY <1>4, Zenon DEF RingReplace, Retired
  <2>2. o.slot \in 0 .. RingSize
    <3>1. o \in StepPkg
      BY <2>1, PopElements DEF TypeOK
    <3> HIDE DEF o
    <3> QED
      BY <3>1 DEF StepPkg
  <2> HIDE DEF q, Issued
  <2>3. p \in StepPkg /\ p.id = Issued /\ p.remain = WalkLen
    <3> HIDE DEF o
    <3> QED
      BY <1>2, <2>2, IssueType, IssueFields, Zenon, ZenonT(60)
  <2> HIDE DEF p
  <2>4. Done' = Done
    BY <1>1, <1>2, <2>1, <2>3, ReplaceDone
  <2>5. paths' = 0 .. Issued' - 1
    BY <1>1, <1>2, EnterPaths DEF CountInv
  <2> HIDE DEF Done
  <2> QED
    BY <1>1, <1>2, <2>4, <2>5 DEF CountInv
<1> QED
  BY <1>3, <1>4

\* The other steps of ring_manager let no query in and make no lap.
LEMMA ManagerStep ==
  ASSUME TypeOK, Rest, CountInv,
         RingIdle \/ RingStop \/ RingRelease \/ RingForward \/ RingCommit
  PROVE  CountInv' /\ paths' = paths
<1>1. UNCHANGED <<loaded, new_query, origin, dup_in, fetch_run, count, res, paths>>
  BY Zenon DEF RingIdle, RingStop, RingRelease, RingForward, RingCommit, loaderVars,
               fetchVars, history
<1>2. Issued' = Issued
  BY <1>1 DEF Issued
<1>3. Done' = Done
  <2>1. CASE RingIdle \/ RingCommit
    <3>1. UNCHANGED <<old_query, sm_in>>
      BY <2>1 DEF RingIdle, RingCommit
    <3> QED
      BY <1>1, <1>2, <3>1, LoopSame, LoopSameDone
  <2>2. CASE RingStop \/ RingRelease
    <3>1. /\ old_query # <<>> /\ old_query' = Tail(old_query) /\ sm_in' = sm_in
          /\ Head(old_query).remain = 0
      BY <2>2, Zenon DEF RingStop, RingRelease, Retired
    <3> QED
      BY <1>1, <1>2, <3>1, PopDone
  <2>3. CASE RingForward
    <3> DEFINE q == Head(old_query)
               p == [q EXCEPT !.last = q.remain = 1 /\ q.tag]
    <3>1. /\ old_query # <<>> /\ old_query' = Tail(old_query)
          /\ sm_in' = Append(sm_in, p)
      BY <2>3, Zenon DEF RingForward
    <3>2. q \in StepPkg
      BY <3>1, PopElements DEF TypeOK
    <3>3. p \in StepPkg /\ p.id = q.id /\ p.remain = q.remain
      BY <3>2, LastType, LastFields, Zenon
    <3> HIDE DEF p, Issued
    <3> QED
      BY <1>1, <1>2, <3>1, <3>3, TurnDone
  <2> QED
    BY <2>1, <2>2, <2>3
<1> HIDE DEF Done, Issued
<1> QED
  BY <1>1, <1>2, <1>3 DEF CountInv

\* The kernels that pass packets on, and step_loader, let no query in and make
\* no lap either.
LEMMA KernelStep ==
  ASSUME Aligned, TypeOK, Rest, CountInv,
         LoadQuery \/ MetapathSm \/ StepDuplicator \/ SamplePath \/ UNCHANGED vars
  PROVE  CountInv' /\ paths' = paths
<1>1. UNCHANGED <<fetch_run, count, res, paths>>
  BY Zenon DEF LoadQuery, MetapathSm, StepDuplicator, SamplePath, vars, fetchVars, history
<1>2. Loop' = Loop
  <2>1. CASE LoadQuery \/ SamplePath \/ UNCHANGED vars
    BY <2>1, LoopSame DEF LoadQuery, SamplePath, vars
  <2> QED
    BY <2>1, MetapathStep, DuplicatorStep
<1>3. Issued' = Issued
  <2>1. CASE LoadQuery
    <3>1. loaded' = loaded + 1 /\ \E x \in StepPkg : new_query' = Append(new_query, x)
      <4>1. loaded' = loaded + 1 /\ loaded < NumQueries
        BY <2>1 DEF LoadQuery, Aligned
      <4>2. new_query' = Append(new_query, [id |-> loaded, remain |-> WalkLen, slot |-> 0,
                 tag |-> FALSE, dead |-> FALSE, last |-> loaded = NumQueries - 1])
        BY <2>1, <4>1 DEF LoadQuery
      <4>3. [id |-> loaded, remain |-> WalkLen, slot |-> 0, tag |-> FALSE, dead |-> FALSE,
             last |-> loaded = NumQueries - 1] \in StepPkg
        BY TotalLoadNat, WalkAssumption, SizeAssumption DEF StepPkg, TypeOK
      <4> QED
        BY <4>1, <4>2, <4>3
    <3>2. new_query \in Seq(StepPkg) /\ loaded \in Nat
      BY TotalLoadNat DEF TypeOK
    <3>3. Len(new_query)' = Len(new_query) + 1 /\ Len(new_query) \in Nat
      BY <3>1, <3>2
    <3> QED
      BY <3>1, <3>2, <3>3 DEF Issued
  <2>2. CASE ~LoadQuery
    BY <2>2 DEF MetapathSm, StepDuplicator, SamplePath, vars, loaderVars, Issued
  <2> QED
    BY <2>1, <2>2
<1>4. Done' = Done
  BY <1>2, <1>3, LoopSameDone
<1> HIDE DEF Done, Issued
<1> QED
  BY <1>1, <1>3, <1>4 DEF CountInv

\* fetch_next counts the lap it makes, and writes the count when it meets the flag.
LEMMA FetchCount ==
  ASSUME TypeOK, Rest, CountInv, FetchNext
  PROVE  CountInv' /\ paths' = paths
<1>1. PICK x : x \notin Done /\ Done' = Done \union {x}
  BY FetchDone
<1>2. IsFiniteSet(Done)
  BY DoneFinite DEF Rest
<1>3. /\ count' = count + 1 /\ fetch_run' = ~Head(input).last
      /\ res' = IF Head(input).last THEN count' ELSE res
      /\ UNCHANGED <<loaded, new_query, paths>>
  BY DEF FetchNext, loaderVars, history
<1>4. Issued' = Issued
  BY <1>3 DEF Issued
<1> HIDE DEF Done, Issued
<1>5. Cardinality(Done') = Cardinality(Done) + 1
  BY <1>1, <1>2, FS_AddElement
<1>6. count' = Cardinality(Done')
  BY <1>3, <1>5 DEF CountInv
<1>7. ~fetch_run' => res' = count'
  BY <1>3
<1> QED
  BY <1>3, <1>4, <1>6, <1>7 DEF CountInv

\* The next run counts from the start.
LEMMA NextRunCount ==
  ASSUME TypeOK, Rest, HostNextRun
  PROVE  CountInv' /\ paths' = {}
<1>1. /\ rm_pc = "done" /\ loaded' = 0 /\ paths' = {} /\ fetch_run' = TRUE /\ count' = 0
      /\ UNCHANGED <<new_query, sm_in, dup_in, origin, old_query>>
  BY Zenon DEF HostNextRun, RunOver
<1>2. Loop' = <<>> /\ new_query' = <<>>
  BY <1>1, LoopSame DEF Rest, DoneInv
<1>3. Issued' = 0
  <2>1. Len(<<>>) = 0
    OBVIOUS
  <2>2. Len(new_query)' = 0
    BY <1>2, <2>1, Zenon
  <2> QED
    BY <1>1, <2>2 DEF Issued
<1>4. 0 .. Issued' - 1 = {} /\ Done' = {}
  <2> HIDE DEF Loop, Issued
  <2>1. 0 .. Issued' - 1 = {}
    BY <1>3
  <2> QED
    BY <2>1 DEF Done
<1>5. Cardinality({}) = 0
  BY FS_EmptySet
<1> HIDE DEF Done, Issued
<1> QED
  BY <1>1, <1>4, <1>5 DEF CountInv

\* Every step keeps the count, and lets in nothing but the next query of the run.
LEMMA CountStep ==
  ASSUME Aligned, TypeOK, Rest, CountInv, [Next]_vars
  PROVE  /\ CountInv'
         /\ paths' \subseteq paths \union {Issued}
<1>1. CASE RingInsert \/ RingReplace
  <2> HIDE DEF Issued
  <2> QED
    BY <1>1, EnterStep
<1>2. CASE RingIdle \/ RingStop \/ RingRelease \/ RingForward \/ RingCommit
  BY <1>2, ManagerStep
<1>3. CASE LoadQuery \/ MetapathSm \/ StepDuplicator \/ SamplePath \/ UNCHANGED vars
  BY <1>3, KernelStep
<1>4. CASE FetchNext
  BY <1>4, FetchCount
<1>5. CASE HostNextRun
  BY <1>5, NextRunCount
<1>6. CASE HostDone
  <2>1. UNCHANGED vars
    BY <1>6 DEF HostDone
  <2> QED
    BY <2>1, KernelStep
<1> QED
  BY <1>1, <1>2, <1>3, <1>4, <1>5, <1>6, Zenon DEF Next, RingManager

-----------------------------------------------------------------------------
(* The theorems, for runs whose queries fill whole bursts                   *)

\* Every lap made is counted exactly once, in every state of every run.
THEOREM EveryLapCounted ==
  ASSUME Aligned
  PROVE  Spec => []CountInv
<1>1. Init => CountInv
  BY CountInit
<1>2. RingInv /\ CountInv /\ [Next]_vars => CountInv'
  BY CountStep DEF RingInv, Rest
<1> QED
  BY <1>1, <1>2, RingInvariant, PTL DEF Spec

\* The number of steps the host reads back is one per query and lap, although
\* fetch_next stops counting at a flag and not at a number.
THEOREM StepCountIsExact ==
  ASSUME Aligned
  PROVE  Spec => []StepsCounted
<1>1. RingInv /\ CountInv => StepsCounted
  <2> SUFFICES ASSUME RingInv, CountInv, RunOver
               PROVE  res = NumQueries * WalkLen
    BY DEF StepsCounted
  <2>1. Loop = <<>> /\ new_query = <<>> /\ loaded = NumQueries
    BY DEF RingInv, DoneInv, RunOver
  <2>2. TypeOK /\ NewInv
    BY DEF RingInv
  <2>3. Issued = NumQueries
    BY <2>1, SizeAssumption DEF Issued
  <2>4. Cardinality((0 .. Issued - 1) \X (1 .. WalkLen)) = Issued * WalkLen
    BY <2>2, DoneFinite
  <2>5. Done = (0 .. Issued - 1) \X (1 .. WalkLen)
    <3>1. Len(Loop) = 0
      <4> HIDE DEF Loop
      <4> QED
        BY <2>1
    <3>2. \A k, l : LapDone(k, l)
      <4> HIDE DEF Loop
      <4> QED
        BY <3>1 DEF LapDone
    <3> HIDE DEF Loop, LapDone, Issued
    <3> QED
      BY <3>2 DEF Done
  <2>6. res = Cardinality(Done)
    BY DEF CountInv, RunOver
  <2> HIDE DEF Done, Issued
  <2> QED
    BY <2>3, <2>4, <2>5, <2>6
<1> QED
  BY <1>1, RingInvariant, EveryLapCounted, PTL

\* The k-th query to appear on ring_manager.out is query k of the run, which
\* is how get_path tells a new path from a longer one.
THEOREM PathsAppearInOrder ==
  ASSUME Aligned
  PROVE  Spec => PathsInOrder
<1>1. RingInv /\ CountInv /\ [Next]_vars
        => [\A id \in paths' \ paths : id = Cardinality(paths)]_vars
  <2> SUFFICES ASSUME RingInv, CountInv, [Next]_vars
               PROVE  \A id \in paths' \ paths : id = Cardinality(paths)
    OBVIOUS
  <2>1. TypeOK /\ Rest
    BY DEF RingInv, Rest
  <2>2. paths' \subseteq paths \union {Issued}
    BY <2>1, CountStep
  <2>3. Cardinality(0 .. Issued - 1) = Issued
    BY <2>1, DoneFinite DEF Rest
  <2> HIDE DEF Issued
  <2> QED
    BY <2>2, <2>3 DEF CountInv
<1> QED
  BY <1>1, RingInvariant, EveryLapCounted, PTL DEF Spec, PathsInOrder
=============================================================================
