----------------------------- MODULE QueryRing -----------------------------
(***************************************************************************)
(* The query ring of the MetaPath accelerator (app/metapath/kernel.cfg):   *)
(* step_loader streams the queries of one host run into ring_manager,      *)
(* which gives each of them a ring slot and sends it around the loop       *)
(*                                                                         *)
(*   ring_manager -> metapath_sm -> step_duplicator -> (sampling path)     *)
(*        ^                               |                 |              *)
(*        |                               v origin          v input        *)
(*        +---- old_query <---------- fetch_next <----------+              *)
(*                                                                         *)
(* once for every step of its walk.  Nobody counts the queries: the run    *)
(* ends when the query loaded last comes back with no step left, and every *)
(* kernel on the loop stops when the `last` flag of that final lap passes  *)
(* it.  The host then launches the next run; the streams keep whatever the *)
(* previous run left in them.                                              *)
(*                                                                         *)
(* The kernels run concurrently and are connected by bounded streams.  A   *)
(* blocking write is a guard on the room in the stream.  ring_manager      *)
(* polls its two inputs without blocking, and polls new_query twice in one *)
(* iteration of its loop, so an iteration is two steps here ("recv", then  *)
(* "insert"): a query may arrive between the two polls.                    *)
(*                                                                         *)
(* The sampling path (vertex_loader ... update_merge) is one action that   *)
(* answers the steps in order, with a dead answer for a dead vertex.       *)
(***************************************************************************)
EXTENDS Integers, Sequences, FiniteSets

CONSTANTS
    NumQueries,    \* queries of one run (argument `size` of step_loader)
    LoadBurst,     \* BURST_BUFFER_SIZE of step_loader (32)
    WalkLen,       \* remain_step the host gives to every query (6)
    PaddingSteps,  \* remain_step values of the words loaded past the queries
    RingSize,      \* RING_SIZE of ring_manager (256)
    StepMod,       \* metapath_sm keeps remain_step modulo this (2^9)
    NewDepth,      \* depth of step_loader.new_query (512)
    OldDepth,      \* depth of fetch_next.new_query, read as old_query (512)
    OriginDepth,   \* depth of step_duplicator.origin (512)
    StateDepth,    \* depth of metapath_sm.state_out (512)
    LinkDepth,     \* depth of the streams the configuration gives no depth
    MaxRuns        \* runs the host starts (10)

ASSUME SizeAssumption ==
    /\ NumQueries \in Nat \ {0}
    /\ LoadBurst \in Nat \ {0}
    /\ RingSize \in Nat \ {0}
    /\ MaxRuns \in Nat \ {0}
    /\ PaddingSteps \subseteq Nat

\* The lookup table of metapath_sm is indexed by nine bits, and the flag that
\* ends a run is raised one lap before the walk is over.
ASSUME WalkAssumption ==
    /\ StepMod \in Nat \ {0}
    /\ WalkLen \in 2..(StepMod - 1)

ASSUME DepthAssumption ==
    /\ NewDepth \in Nat \ {0}
    /\ OldDepth \in Nat \ {0}
    /\ OriginDepth \in Nat \ {0}
    /\ StateDepth \in Nat \ {0}
    /\ LinkDepth \in Nat \ {0}

VARIABLES
    run,           \* number of the host's current run
    loaded,        \* queries step_loader has written in this run
    new_query,     \* step_loader -> ring_manager
    rm_pc,         \* ring_manager: "recv", "insert" or "done"
    slot_status,   \* ring_manager: slot_status[]
    ring_counter,  \* ring_manager: next slot to fill
    release,       \* ring_manager: slot_update_index of a pending reset
    sm_in,         \* ring_manager -> metapath_sm
    sm_run,        \* metapath_sm has not seen `last` in this run
    dup_in,        \* metapath_sm -> step_duplicator
    state_out,     \* metapath_sm -> vd_scheduler, in the sampling path
    origin,        \* step_duplicator -> fetch_next
    query,         \* step_duplicator -> sampling path
    walk_run,      \* the sampling path has not seen `last` in this run
    input,         \* sampling path -> fetch_next
    fetch_run,     \* fetch_next has not seen `last` in this run
    count,         \* step_update: steps answered in this run
    res,           \* res[0], written when fetch_next returns
    old_query,     \* fetch_next -> ring_manager
    finished,      \* history: queries retired by ring_manager in this run
    paths          \* history: queries seen on ring_manager.out in this run

loaderVars == <<loaded, new_query>>
ringVars   == <<rm_pc, slot_status, ring_counter, release>>
fetchVars  == <<fetch_run, count, res>>
history    == <<finished, paths>>
vars == <<run, loaded, new_query, rm_pc, slot_status, ring_counter, release,
          sm_in, sm_run, dup_in, state_out, origin, query, walk_run, input, fetch_run,
          count, res, old_query, finished, paths>>

-----------------------------------------------------------------------------

Slots == 0 .. RingSize - 1

\* slot_update_flg is FLAG_RESET: no slot is waiting to be reset
NoSlot == RingSize

\* step_loader writes whole bursts, so it rounds the number of queries up
TotalLoad == ((NumQueries + LoadBurst - 1) \div LoadBurst) * LoadBurst

\* step_metadata_pkg_t: inner_state (the query's index in the host's array),
\* remain_step, the slot and the flag bit of ring_state, bit 31 of
\* curr_vertex (the walk is over) and the packet's own last flag
StepPkg == [id: Nat, remain: Nat, slot: 0..RingSize, tag: BOOLEAN,
            dead: BOOLEAN, last: BOOLEAN]

\* next_vertex_pkg_t: a vertex to be loaded, or the vertex that was sampled
NextPkg == [dead: BOOLEAN, last: BOOLEAN]

Init ==
    /\ run = 1
    /\ loaded = 0
    /\ new_query = <<>>
    /\ rm_pc = "recv"
    /\ slot_status = [s \in Slots |-> FALSE]
    /\ ring_counter = 0
    /\ release = NoSlot
    /\ sm_in = <<>>
    /\ sm_run = TRUE
    /\ dup_in = <<>>
    /\ state_out = <<>>
    /\ origin = <<>>
    /\ query = <<>>
    /\ walk_run = TRUE
    /\ input = <<>>
    /\ fetch_run = TRUE
    /\ count = 0
    /\ res = 0
    /\ old_query = <<>>
    /\ finished = {}
    /\ paths = {}

-----------------------------------------------------------------------------
(* step_loader                                                             *)

\* Mutants of LoadQuery: the flag on the last query but one; indices from 1.
LoadQueryFlagsEarly ==
    /\ loaded < TotalLoad
    /\ Len(new_query) < NewDepth
    /\ new_query' = Append(new_query,
                      [id |-> loaded, remain |-> WalkLen, slot |-> 0,
                       tag |-> FALSE, dead |-> FALSE,
                       last |-> loaded = NumQueries - 2])
    /\ loaded' = loaded + 1
    /\ UNCHANGED <<run, ringVars, sm_in, sm_run, dup_in, state_out, origin,
                   query, walk_run, input, fetchVars, old_query, history>>

LoadQueryCountsFromOne ==
    /\ loaded < TotalLoad
    /\ Len(new_query) < NewDepth
    /\ new_query' = Append(new_query,
                      [id |-> loaded + 1, remain |-> WalkLen, slot |-> 0,
                       tag |-> FALSE, dead |-> FALSE,
                       last |-> loaded = NumQueries - 1])
    /\ loaded' = loaded + 1
    /\ UNCHANGED <<run, ringVars, sm_in, sm_run, dup_in, state_out, origin,
                   query, walk_run, input, fetchVars, old_query, history>>

\* one query of a burst; the words past the last query are whatever memory
\* follows the host's array
LoadQuery ==
    /\ loaded < TotalLoad
    /\ Len(new_query) < NewDepth
    /\ \E r \in IF loaded < NumQueries THEN {WalkLen} ELSE PaddingSteps :
         new_query' = Append(new_query,
                        [id |-> loaded, remain |-> r, slot |-> 0,
                         tag |-> FALSE, dead |-> FALSE,
                         last |-> loaded = NumQueries - 1])
    /\ loaded' = loaded + 1
    /\ UNCHANGED <<run, ringVars, sm_in, sm_run, dup_in, state_out, origin,
                   query, walk_run, input, fetchVars, old_query, history>>

-----------------------------------------------------------------------------
(* ring_manager: first half of an iteration, the poll of old_query         *)

\* a query put into a ring slot: the last flag moves into ring_state
Issue(q, s) == [q EXCEPT !.slot = s, !.tag = q.last, !.last = FALSE]

Retired == old_query # <<>> /\ Head(old_query).remain = 0

RingIdle ==
    /\ rm_pc = "recv"
    /\ old_query = <<>>
    /\ rm_pc' = "insert"
    /\ UNCHANGED <<run, loaderVars, slot_status, ring_counter, release,
                   sm_in, sm_run, dup_in, state_out, state_out, origin,
                   query, walk_run, input, fetchVars, old_query, history>>

\* the walk flagged as the last one is over: leave the loop
RingStop ==
    /\ rm_pc = "recv"
    /\ Retired
    /\ Head(old_query).last
    /\ old_query' = Tail(old_query)
    /\ finished' = finished \union {Head(old_query).id}
    /\ rm_pc' = "done"
    /\ UNCHANGED <<run, loaderVars, slot_status, ring_counter, release,
                   sm_in, sm_run, dup_in, state_out, state_out, origin,
                   query, walk_run, input, fetchVars, paths>>

\* a walk is over and a new query is there: it takes over the slot
RingReplace ==
    /\ rm_pc = "recv"
    /\ Retired
    /\ ~Head(old_query).last
    /\ new_query # <<>>
    /\ Len(sm_in) < LinkDepth
    /\ old_query' = Tail(old_query)
    /\ new_query' = Tail(new_query)
    /\ sm_in' = Append(sm_in, Issue(Head(new_query), Head(old_query).slot))
    /\ finished' = finished \union {Head(old_query).id}
    /\ paths' = paths \union {Head(new_query).id}
    /\ rm_pc' = "insert"
    /\ UNCHANGED <<run, loaded, slot_status, ring_counter, release, sm_run,
                   dup_in, state_out, origin, query, walk_run, input,
                   fetchVars>>

\* a walk is over and no new query is there: its slot will be reset
RingRelease ==
    /\ rm_pc = "recv"
    /\ Retired
    /\ ~Head(old_query).last
    /\ new_query = <<>>
    /\ old_query' = Tail(old_query)
    /\ release' = Head(old_query).slot
    /\ finished' = finished \union {Head(old_query).id}
    /\ rm_pc' = "insert"
    /\ UNCHANGED <<run, loaderVars, slot_status, ring_counter, sm_in, sm_run,
                   dup_in, state_out, origin, query, walk_run, input,
                   fetchVars, paths>>

\* Mutant of RingForward: the tag is never turned back into the last flag.
RingForwardNoLast ==
    /\ rm_pc = "recv"
    /\ old_query # <<>>
    /\ Head(old_query).remain # 0
    /\ Len(sm_in) < LinkDepth
    /\ old_query' = Tail(old_query)
    /\ sm_in' = Append(sm_in, [Head(old_query) EXCEPT !.last = FALSE])
    /\ rm_pc' = "insert"
    /\ UNCHANGED <<run, loaderVars, slot_status, ring_counter, release,
                   sm_run, dup_in, state_out, origin, query, walk_run, input,
                   fetchVars, history>>

\* the walk goes on; its final lap carries the last flag if it has the tag
RingForward ==
    /\ rm_pc = "recv"
    /\ old_query # <<>>
    /\ Head(old_query).remain # 0
    /\ Len(sm_in) < LinkDepth
    /\ old_query' = Tail(old_query)
    /\ LET q == Head(old_query)
       IN  sm_in' = Append(sm_in, [q EXCEPT !.last = q.remain = 1 /\ q.tag])
    /\ rm_pc' = "insert"
    /\ UNCHANGED <<run, loaderVars, slot_status, ring_counter, release,
                   sm_run, dup_in, state_out, origin, query, walk_run, input,
                   fetchVars, history>>

(* ring_manager: second half, the ring insertion and the slot update       *)

\* Mutant of CanInsert: the slot is not checked.
CanInsertUnchecked == new_query # <<>>

CanInsert == ~slot_status[ring_counter] /\ new_query # <<>>

\* slot_update_* is overwritten: a reset set up by RingRelease is forgotten
RingInsert ==
    /\ rm_pc = "insert"
    /\ CanInsert
    /\ Len(sm_in) < LinkDepth
    /\ new_query' = Tail(new_query)
    /\ sm_in' = Append(sm_in, Issue(Head(new_query), ring_counter))
    /\ paths' = paths \union {Head(new_query).id}
    /\ slot_status' = [slot_status EXCEPT ![ring_counter] = TRUE]
    /\ ring_counter' = (ring_counter + 1) % RingSize
    /\ release' = NoSlot
    /\ rm_pc' = "recv"
    /\ UNCHANGED <<run, loaded, sm_run, dup_in, state_out, origin, query,
                   walk_run, input, fetchVars, old_query, finished>>

RingCommit ==
    /\ rm_pc = "insert"
    /\ ~CanInsert
    /\ slot_status' = IF release = NoSlot
                      THEN slot_status
                      ELSE [slot_status EXCEPT ![release] = FALSE]
    /\ release' = NoSlot
    /\ rm_pc' = "recv"
    /\ UNCHANGED <<run, loaderVars, ring_counter, sm_in, sm_run, dup_in,
                   state_out, origin, query, walk_run, input, fetchVars,
                   old_query, history>>

-----------------------------------------------------------------------------
(* metapath_sm, step_duplicator, the sampling path and fetch_next          *)

\* Mutant of MetapathSm: no label is looked up for a dead vertex.
MetapathSmSkipsDead ==
    /\ sm_run
    /\ sm_in # <<>>
    /\ Len(dup_in) < LinkDepth
    /\ Len(state_out) < StateDepth
    /\ LET q == Head(sm_in)
       IN  /\ dup_in' = Append(dup_in, [q EXCEPT !.remain = @ % StepMod])
           /\ state_out' = IF q.dead THEN state_out
                           ELSE Append(state_out, q.remain % StepMod)
           /\ sm_run' = ~q.last
    /\ sm_in' = Tail(sm_in)
    /\ UNCHANGED <<run, loaderVars, ringVars, origin, query, walk_run, input,
                   fetchVars, old_query, history>>

\* the label for the step is looked up with the low bits of remain_step,
\* which are all that is forwarded; it goes straight to the sampling path
MetapathSm ==
    /\ sm_run
    /\ sm_in # <<>>
    /\ Len(dup_in) < LinkDepth
    /\ Len(state_out) < StateDepth
    /\ LET q == Head(sm_in)
       IN  /\ dup_in' = Append(dup_in, [q EXCEPT !.remain = @ % StepMod])
           /\ state_out' = Append(state_out, q.remain % StepMod)
           /\ sm_run' = ~q.last
    /\ sm_in' = Tail(sm_in)
    /\ UNCHANGED <<run, loaderVars, ringVars, origin, query,
                   walk_run, input, fetchVars, old_query, history>>

StepDuplicator ==
    /\ dup_in # <<>>
    /\ Len(origin) < OriginDepth
    /\ Len(query) < LinkDepth
    /\ LET q == Head(dup_in)
       IN  /\ origin' = Append(origin, q)
           /\ query' = Append(query, [dead |-> q.dead, last |-> q.last])
    /\ dup_in' = Tail(dup_in)
    /\ UNCHANGED <<state_out, run, loaderVars, ringVars, sm_in, sm_run,
                   walk_run, input, fetchVars, old_query, history>>

\* vertex_loader ... update_merge: a dead vertex has degree 0 and is answered
\* dead, another one may turn out to have no (eligible) neighbour
SamplePath ==
    /\ walk_run
    /\ query # <<>>
    /\ state_out # <<>>
    /\ Len(input) < LinkDepth
    /\ \E dead \in IF Head(query).dead THEN {TRUE} ELSE BOOLEAN :
         input' = Append(input, [dead |-> dead, last |-> Head(query).last])
    /\ walk_run' = ~Head(query).last
    /\ query' = Tail(query)
    /\ state_out' = Tail(state_out)
    /\ UNCHANGED <<run, loaderVars, ringVars, sm_in, sm_run, dup_in, origin,
                   fetchVars, old_query, history>>

\* Mutant of StepUpdate: the final lap is marked one lap too late.
StepUpdateMarksLate(q, u) ==
    [q EXCEPT !.remain = (@ - 1) % StepMod,
              !.dead = u.dead \/ q.remain = 1,
              !.last = u.last]

\* step_update: one step of the walk is over.  The vertex reached with one
\* step left is marked dead, so that the final lap loads nothing.  (Only the
\* low bits of remain_step count: metapath_sm drops the others on every lap.)
StepUpdate(q, u) ==
    [q EXCEPT !.remain = (@ - 1) % StepMod,
              !.dead = u.dead \/ q.remain = 2,
              !.last = u.last]

FetchNext ==
    /\ fetch_run
    /\ origin # <<>>
    /\ input # <<>>
    /\ Len(old_query) < OldDepth
    /\ old_query' = Append(old_query, StepUpdate(Head(origin), Head(input)))
    /\ origin' = Tail(origin)
    /\ input' = Tail(input)
    /\ count' = count + 1
    /\ fetch_run' = ~Head(input).last
    /\ res' = IF Head(input).last THEN count' ELSE res
    /\ UNCHANGED <<run, loaderVars, ringVars, sm_in, sm_run, dup_in,
                   state_out, query, walk_run, history>>

-----------------------------------------------------------------------------
(* the host: set_query, start, stop and get_res of one iteration           *)

\* q.finish() returns when every kernel the host enqueued has returned
RunOver ==
    /\ loaded = TotalLoad
    /\ rm_pc = "done"
    /\ ~sm_run /\ ~walk_run /\ ~fetch_run

\* Mutant of HostNextRun: the step count is not reset between runs.
HostNextRunKeepsCount ==
    /\ RunOver
    /\ run < MaxRuns
    /\ run' = run + 1
    /\ loaded' = 0
    /\ rm_pc' = "recv"
    /\ slot_status' = [s \in Slots |-> FALSE]
    /\ ring_counter' = 0
    /\ release' = NoSlot
    /\ sm_run' = TRUE
    /\ walk_run' = TRUE
    /\ fetch_run' = TRUE
    /\ finished' = {}
    /\ paths' = {}
    /\ UNCHANGED <<new_query, sm_in, dup_in, state_out, origin, query, input,
                   res, old_query, count>>

HostNextRun ==
    /\ RunOver
    /\ run < MaxRuns
    /\ run' = run + 1
    /\ loaded' = 0
    /\ rm_pc' = "recv"
    /\ slot_status' = [s \in Slots |-> FALSE]
    /\ ring_counter' = 0
    /\ release' = NoSlot
    /\ sm_run' = TRUE
    /\ walk_run' = TRUE
    /\ fetch_run' = TRUE
    /\ count' = 0
    /\ finished' = {}
    /\ paths' = {}
    /\ UNCHANGED <<new_query, sm_in, dup_in, state_out, origin, query, input,
                   res, old_query>>

HostDone ==
    /\ RunOver
    /\ run = MaxRuns
    /\ UNCHANGED vars

-----------------------------------------------------------------------------

RingManager == \/ RingIdle \/ RingStop \/ RingReplace \/ RingRelease
               \/ RingForward \/ RingInsert \/ RingCommit

Next == \/ LoadQuery \/ RingManager \/ MetapathSm \/ StepDuplicator
        \/ SamplePath \/ FetchNext \/ HostNextRun \/ HostDone

Spec == Init /\ [][Next]_vars

\* every kernel is a free-running piece of hardware: it takes a step whenever
\* it can; the host's loop goes on when its wait returns
Fairness ==
    /\ WF_vars(LoadQuery)
    /\ WF_vars(RingManager)
    /\ WF_vars(MetapathSm)
    /\ WF_vars(StepDuplicator)
    /\ WF_vars(SamplePath)
    /\ WF_vars(FetchNext)
    /\ WF_vars(HostNextRun)

FairSpec == Spec /\ Fairness

-----------------------------------------------------------------------------
(* Properties                                                              *)

\* The queries on their way around the ring, the next one to reach
\* ring_manager first.  origin holds every query the sampling path works on.
Loop == old_query \o origin \o dup_in \o sm_in

\* laps the i-th query of the loop still has to make after the current one
Laps == [i \in 1..Len(Loop) |-> IF i <= Len(old_query) THEN Loop[i].remain
                                                     ELSE Loop[i].remain - 1]

\* Every stream holds packets of its own kind, labels stay below StepMod and the
\* counters of step_loader and ring_manager in their ranges.
TypeOK ==
    /\ run \in 1..MaxRuns
    /\ loaded \in 0..TotalLoad
    /\ rm_pc \in {"recv", "insert", "done"}
    /\ slot_status \in [Slots -> BOOLEAN]
    /\ ring_counter \in Slots
    /\ release \in 0..RingSize
    /\ new_query \in Seq(StepPkg)
    /\ sm_in \in Seq(StepPkg)
    /\ dup_in \in Seq(StepPkg)
    /\ origin \in Seq(StepPkg)
    /\ old_query \in Seq(StepPkg)
    /\ query \in Seq(NextPkg)
    /\ input \in Seq(NextPkg)
    /\ state_out \in Seq(0 .. StepMod - 1)
    /\ sm_run \in BOOLEAN /\ walk_run \in BOOLEAN /\ fetch_run \in BOOLEAN
    /\ count \in Nat /\ res \in Nat
    /\ finished \subseteq Nat /\ paths \subseteq Nat

\* No two walks share a ring slot, and a slot in use is marked as used.  The
\* slot is found free in one half of an iteration and may have been given
\* away, or be waiting for its reset, since the other half.
SlotOwnership ==
    /\ \A i, j \in 1..Len(Loop) : i # j => Loop[i].slot # Loop[j].slot
    /\ \A i \in 1..Len(Loop) : /\ Loop[i].slot \in Slots
                              /\ slot_status[Loop[i].slot]
                              /\ Loop[i].slot # release

\* The loop never holds more queries than the ring has slots, which is what
\* keeps ring_manager -> ... -> fetch_next -> ring_manager, a cycle of
\* blocking writes, from filling up.
LoopFits == Len(Loop) <= RingSize

\* ring_manager leaves its loop on one flagged packet without counting what
\* is still on its way: every query of the run has finished by then and every
\* stream is empty, so the next run of the same kernels starts clean.
NothingLeftBehind ==
    rm_pc = "done" =>
        /\ finished = 0 .. NumQueries - 1
        /\ Loop = <<>>
        /\ new_query = <<>> /\ query = <<>> /\ input = <<>>
        /\ state_out = <<>>

\* The label a step is sampled with is the one of its own place in the
\* metapath: labels and vertices take different ways into the sampling path
\* and meet there by position only, also for dead vertices, which need none.
LabelsArePaired ==
    /\ Len(state_out) = Len(query) + Len(dup_in)
    /\ \A i \in 1..Len(query) : state_out[i] = origin[Len(input) + i].remain
    /\ \A i \in 1..Len(dup_in) : state_out[Len(query) + i] = dup_in[i].remain

\* The final lap of a walk, the one that carries the last flag past the
\* kernels, never touches the graph: its vertex was marked dead a lap earlier
\* and stays so through the sampling path.
FinalLapIsDead ==
    \A i \in 1..Len(Loop) : Loop[i].remain <= 1 => Loop[i].dead

\* The number of steps the host reads back, which its throughput is computed
\* from, is exactly one per query and lap although fetch_next stops counting
\* at a flag and not at a number.
StepsCounted == RunOver => res = NumQueries * WalkLen

\* The k-th query to appear for the first time on ring_manager.out is query k
\* of the run, which is how get_path tells a new path from a longer one.
PathsInOrder == [][\A id \in paths' \ paths : id = Cardinality(paths)]_vars

\* a slot marked as used that no walk occupies and no pending update frees
LeakedSlot(s) ==
    /\ slot_status[s]
    /\ s # release
    /\ \A i \in 1..Len(Loop) : Loop[i].slot # s

AllRunsOver == RunOver /\ run = MaxRuns

\* Every run comes to its end, whatever the number of queries, as long as no
\* slot is leaked.
LeakFreeRunsEnd == []( \A s \in Slots : rm_pc # "done" => ~LeakedSlot(s))
                       => <>AllRunsOver

\* A query waiting at ring_manager is put into the ring when the ring is
\* empty (every slot is free then).
WaitingQueryIsInserted ==
    (new_query # <<>> /\ Loop = <<>> /\ rm_pc # "done")
        ~> (Loop # <<>> \/ rm_pc = "done")

-----------------------------------------------------------------------------
(* The inductive invariant behind SlotOwnership, NothingLeftBehind and     *)
(* FinalLapIsDead, for runs whose queries fill whole bursts.               *)

Aligned == TotalLoad = NumQueries

\* queries 0 .. Issued - 1 have entered the ring
Issued == loaded - Len(new_query)

\* new_query holds the queries from Issued on, in order
NewInv ==
    /\ Len(new_query) <= loaded
    /\ \A i \in 1..Len(new_query) :
          /\ new_query[i].id = Issued + i - 1
          /\ new_query[i].remain = WalkLen
          /\ new_query[i].last = (new_query[i].id = NumQueries - 1)

\* a query on the loop has laps left, and the flags of the last one are where
\* they belong
WalkInv ==
    \A i \in 1..Len(Loop) :
        /\ Laps[i] \in 0 .. WalkLen - 1
        /\ Loop[i].tag = (Loop[i].id = NumQueries - 1)
        /\ Loop[i].last = (Loop[i].tag /\ Laps[i] = 0)

\* Of two queries on the loop, the one issued first is a lap ahead if it is
\* behind the other, and at least as far otherwise.
OrderInv ==
    \A i, j \in 1..Len(Loop) :
        i < j => \/ Loop[i].id < Loop[j].id /\ Laps[i] <= Laps[j]
                 \/ Loop[i].id > Loop[j].id /\ Laps[i] > Laps[j]

\* a query that has been issued is on the loop or finished, and not both
AccountInv ==
    /\ finished \subseteq 0 .. Issued - 1
    /\ \A i \in 1..Len(Loop) : Loop[i].id < Issued /\ Loop[i].id \notin finished
    /\ \A k \in 0 .. Issued - 1 :
          k \in finished \/ \E i \in 1..Len(Loop) : Loop[i].id = k

\* the sampling path works on the queries in origin, in the same order
PathInv ==
    /\ Len(origin) = Len(input) + Len(query)
    /\ \A i \in 1..Len(input) : /\ input[i].last = origin[i].last
                                /\ origin[i].dead => input[i].dead
    /\ \A i \in 1..Len(query) : /\ query[i].last = origin[Len(input) + i].last
                                /\ query[i].dead = origin[Len(input) + i].dead

\* a slot waits for its reset only between the halves of an iteration
ReleaseInv == release # NoSlot => rm_pc = "insert"

DoneInv == rm_pc = "done" => /\ Loop = <<>> /\ new_query = <<>>
                             /\ loaded = NumQueries
                             /\ finished = 0 .. NumQueries - 1

\* At every moment of every run the walks are on the loop in the order of their
\* laps, each in a slot of its own, and accounted for, and the flag that ends
\* the run is on the final lap of the query loaded last: what ring_manager
\* relies on when it stops at one flag.
RingInv ==
    /\ TypeOK /\ NewInv /\ WalkInv /\ OrderInv /\ AccountInv /\ PathInv
    /\ SlotOwnership /\ FinalLapIsDead /\ ReleaseInv /\ DoneInv
=============================================================================
