------------------------------ MODULE WalkLoop ------------------------------
(***************************************************************************)
(* The query ring as the other two applications use it, with the vertices  *)
(* of the walks and the memory the host reads back:                        *)
(*                                                                         *)
(*   node2vec     ring_manager -> step_record -> step_duplicator           *)
(*                  -> (weighing and sampling) -> fetch_next               *)
(*   uniform      ring_manager -> step_counter -> get_curr_v               *)
(*                  -> vertex_loader -> cal_sample_index -> fetch_next     *)
(*                  -> step_update                                         *)
(*                                                                         *)
(* step_loader and ring_manager are those of module QueryRing; sm_in is    *)
(* the stream into step_record or step_counter and dup_in the one behind   *)
(* it.  A packet carries its vertex v and the vertex before it, prev.      *)
(*                                                                         *)
(* node2vec records every lap in memory, in groups of RecGroup records,    *)
(* and the host cuts the records into paths again (get_path).  step_record *)
(* is on a second queue: the host's stop() does not wait for it, get_res() *)
(* does.  The sampling path is one in-order action, with the weights of    *)
(* module SetIntersect: a word 0 is a mask and weighs nothing, unless the  *)
(* previous vertex is 0.  uniform keeps no record and counts its steps.    *)
(*                                                                         *)
(* A kernel the host has not enqueued is one that has returned.            *)
(***************************************************************************)
EXTENDS QueryRing, SequencesExt

CONSTANTS
    Jobs,       \* what a host may run: an application, a graph and start vertices
    FirstPrev,  \* argument `prop` of step_loader (10)
    RandMod,    \* random numbers are below this (2^32)
    RecGroup    \* records in a word of step_record (4)

\* query_array: the vertices that have a neighbour.  The loop looks one place behind
\* the degrees as well; that word is taken to be 0, as in a fresh block of memory.
QueryArray(g) == {v \in DOMAIN g : g[v] # {}}

\* the hosts load symmetric graphs and start at vertices of query_array
ASSUME JobAssumption ==
    \A j \in Jobs :
        /\ j.app \in {"node2vec", "uniform"}
        /\ \A v \in DOMAIN j.graph : /\ j.graph[v] \subseteq DOMAIN j.graph
                                     /\ \A w \in j.graph[v] : v \in j.graph[w]
        /\ j.starts \in [0 .. NumQueries - 1 -> QueryArray(j.graph)]

ASSUME RecordAssumption ==
    /\ RecGroup \in Nat \ {0}
    /\ (NumQueries * WalkLen) % RecGroup = 0
    /\ TotalLoad = NumQueries
    /\ FirstPrev \in Nat \ {0}

VARIABLES
    job,         \* the application, its graph and the vertices the walks start at
    host_pc,     \* "idle", "set", "started", "stopped" or "got"
    descriptors, \* vertex_loader -> cal_sample_index (uniform)
    update,      \* fetch_next -> step_update (uniform)
    buffer,      \* step_record: buffer_array, the records of the group so far
    addr,        \* step_record: next group
    path,        \* the device's copy of the recorded paths
    path_mem     \* the host's copy

hostVars == <<job, host_pc, path_mem>>
recVars  == <<buffer, addr, path>>
midVars  == <<descriptors, update>>
ringAll  == <<run, loaded, new_query, rm_pc, slot_status, ring_counter, release,
              old_query, finished, paths>>
walkVars == <<vars, hostVars, recVars, midVars>>

-----------------------------------------------------------------------------
(* what the host puts into the device's memory                             *)

Node2Vec == job.app = "node2vec"

Adj(v) == job.graph[v]

\* vertex_loader.init: the descriptor of a vertex
Row(v) == [start |-> FoldSet(LAMBDA w, n : n + Cardinality(Adj(w)), 0, 0 .. v - 1),
           size  |-> Cardinality(Adj(v))]

\* fetch_next.init: the neighbour lists, one behind the other
Column == FoldLeft(LAMBDA c, v : c \o SetToSortSeq(Adj(v), <), <<>>,
                   [i \in 1..Cardinality(DOMAIN job.graph) |-> i - 1])

NoRecord == [id |-> 0, v |-> 0]
Places   == 0 .. NumQueries * WalkLen - 1

WalkInit ==
    /\ run = 0
    /\ host_pc = "idle"
    /\ job \in Jobs
    /\ loaded = TotalLoad
    /\ rm_pc = "done"
    /\ slot_status = [s \in Slots |-> FALSE]
    /\ ring_counter = 0
    /\ release = NoSlot
    /\ sm_run = FALSE /\ walk_run = FALSE /\ fetch_run = FALSE
    /\ new_query = <<>> /\ sm_in = <<>> /\ dup_in = <<>> /\ state_out = <<>>
    /\ origin = <<>> /\ query = <<>> /\ input = <<>> /\ old_query = <<>>
    /\ descriptors = <<>> /\ update = <<>> /\ buffer = <<>>
    /\ count = 0 /\ res = 0 /\ addr = 0
    /\ finished = {} /\ paths = {}
    /\ path = [i \in Places |-> NoRecord]
    /\ path_mem = path

-----------------------------------------------------------------------------
(* step_loader and ring_manager                                            *)

\* Mutant of WalkLoad: `prop` is 0, the word that marks an empty place.
WalkLoadNoPrev ==
    /\ loaded < TotalLoad
    /\ Len(new_query) < NewDepth
    /\ new_query' = Append(new_query,
                      [id |-> loaded, remain |-> WalkLen, slot |-> 0, tag |-> FALSE,
                       v |-> job.starts[loaded], prev |-> 0, dead |-> FALSE,
                       last |-> loaded = NumQueries - 1])
    /\ loaded' = loaded + 1
    /\ UNCHANGED <<run, ringVars, sm_in, sm_run, dup_in, state_out, origin, query, walk_run,
                   input, fetchVars, old_query, history, hostVars, recVars, midVars>>

\* Mutant of WalkLoad: the flag on the last query but one.
WalkLoadFlagsEarly ==
    /\ loaded < TotalLoad
    /\ Len(new_query) < NewDepth
    /\ new_query' = Append(new_query,
                      [id |-> loaded, remain |-> WalkLen, slot |-> 0, tag |-> FALSE,
                       v |-> job.starts[loaded], prev |-> FirstPrev, dead |-> FALSE,
                       last |-> loaded = NumQueries - 2])
    /\ loaded' = loaded + 1
    /\ UNCHANGED <<run, ringVars, sm_in, sm_run, dup_in, state_out, origin, query, walk_run,
                   input, fetchVars, old_query, history, hostVars, recVars, midVars>>

\* a query of the host's array, with its start vertex; the vertex before it
\* is the same for all
WalkLoad ==
    /\ loaded < TotalLoad
    /\ Len(new_query) < NewDepth
    /\ new_query' = Append(new_query,
                      [id |-> loaded, remain |-> WalkLen, slot |-> 0, tag |-> FALSE,
                       v |-> job.starts[loaded], prev |-> FirstPrev, dead |-> FALSE,
                       last |-> loaded = NumQueries - 1])
    /\ loaded' = loaded + 1
    /\ UNCHANGED <<run, ringVars, sm_in, sm_run, dup_in, state_out, origin, query, walk_run,
                   input, fetchVars, old_query, history, hostVars, recVars, midVars>>

WalkRing == RingManager /\ UNCHANGED <<hostVars, recVars, midVars>>

-----------------------------------------------------------------------------
(* node2vec                                                                *)

GroupFull == buffer # <<>> /\ (Len(buffer) = RecGroup \/ Last(buffer).last)

\* step_record passes a packet on and keeps its record for the group
RecordStep ==
    /\ Node2Vec /\ sm_run
    /\ ~GroupFull
    /\ sm_in # <<>>
    /\ Len(dup_in) < LinkDepth
    /\ LET q == Head(sm_in)
       IN  /\ dup_in' = Append(dup_in, q)
           /\ buffer' = Append(buffer, [id |-> q.id, v |-> q.v, last |-> q.last])
    /\ sm_in' = Tail(sm_in)
    /\ UNCHANGED <<ringAll, sm_run, state_out, origin, query, walk_run, input, fetchVars,
                   hostVars, addr, path, midVars>>

\* it writes a group when it is full or the run is over, and then returns.
\* The rest of a group that is not full is never initialised.
RecordGroup ==
    /\ Node2Vec /\ sm_run
    /\ GroupFull
    /\ \E rest \in IF Len(buffer) = RecGroup THEN {NoRecord}
                   ELSE [id: 0 .. NumQueries - 1, v: DOMAIN job.graph] :
         path' = [i \in Places |->
                    LET k == i - addr * RecGroup
                    IN  IF k \in 0 .. Len(buffer) - 1
                        THEN [id |-> buffer[k + 1].id, v |-> buffer[k + 1].v]
                        ELSE IF k \in 0 .. RecGroup - 1 THEN rest ELSE path[i]]
    /\ buffer' = <<>>
    /\ addr' = addr + 1
    /\ sm_run' = ~Last(buffer).last
    /\ UNCHANGED <<ringAll, sm_in, dup_in, state_out, origin, query, walk_run, input,
                   fetchVars, hostVars, midVars>>

\* step_duplicator asks for the lists of the vertex and of the one before it;
\* get_curr_v, its place in the uniform walk, for the vertex only
DuplicateStep ==
    /\ dup_in # <<>>
    /\ Len(origin) < OriginDepth
    /\ Len(query) < LinkDepth
    /\ LET q == Head(dup_in)
       IN  /\ origin' = Append(origin, q)
           /\ query' = Append(query, [v |-> q.v, prev |-> q.prev,
                                      dead |-> q.dead, last |-> q.last])
    /\ dup_in' = Tail(dup_in)
    /\ UNCHANGED <<ringAll, sm_in, sm_run, state_out, walk_run, input, fetchVars,
                   hostVars, recVars, midVars>>

\* The vertices a step may sample.  A word 0 weighs nothing, but when the
\* vertex before is 0 every word 0 is taken for the way back, the masked ones
\* too.  A list of which no word is selected leaves 0x80000000, and sample
\* writes its low bits.
Weighed(q) ==
    LET weighed == (Adj(q.v) \ {0}) \union (IF q.prev = 0 THEN {0} ELSE {})
    IN  IF weighed = {} THEN {0} ELSE weighed

\* vertex_loader ... sta_update_merge: dead vertices and those without
\* neighbours are answered 0x80000000, the others with a sampled neighbour
SampleStep ==
    /\ Node2Vec /\ walk_run
    /\ query # <<>>
    /\ Len(input) < LinkDepth
    /\ LET q == Head(query)
       IN  /\ IF q.dead \/ Adj(q.v) = {}
              THEN input' = Append(input, [v |-> 0, dead |-> TRUE, last |-> q.last])
              ELSE \E w \in Weighed(q) :
                     input' = Append(input, [v |-> w, dead |-> FALSE, last |-> q.last])
           /\ walk_run' = ~q.last
    /\ query' = Tail(query)
    /\ UNCHANGED <<ringAll, sm_in, sm_run, dup_in, state_out, origin, fetchVars,
                   hostVars, recVars, midVars>>

\* Mutant of Stepped: the vertex before is not passed on.
SteppedKeepsPrev(q, u) ==
    [q EXCEPT !.v = IF u.dead /\ q.remain # 2 THEN q.v ELSE u.v,
              !.dead = u.dead \/ q.remain = 2,
              !.remain = @ - 1,
              !.last = u.last]

\* step_update (srw): a dead answer keeps the vertex, except with two steps
\* left, where the answer, marked dead, replaces it in any case
Stepped(q, u) ==
    [q EXCEPT !.v = IF u.dead /\ q.remain # 2 THEN q.v ELSE u.v,
              !.prev = q.v,
              !.dead = u.dead \/ q.remain = 2,
              !.remain = @ - 1,
              !.last = u.last]

\* fetch_next (srw) is free-running
UpdateStep ==
    /\ Node2Vec
    /\ origin # <<>> /\ input # <<>>
    /\ Len(old_query) < OldDepth
    /\ old_query' = Append(old_query, Stepped(Head(origin), Head(input)))
    /\ origin' = Tail(origin)
    /\ input' = Tail(input)
    /\ UNCHANGED <<run, loaderVars, ringVars, sm_in, sm_run, dup_in, state_out, query,
                   walk_run, fetchVars, history, hostVars, recVars, midVars>>

-----------------------------------------------------------------------------
(* uniform walk                                                            *)

\* Mutant of CountStep: a walk's final lap is not counted.
CountStepNotLast ==
    /\ ~Node2Vec /\ sm_run
    /\ sm_in # <<>>
    /\ Len(dup_in) < LinkDepth
    /\ LET q == Head(sm_in)
       IN  /\ dup_in' = Append(dup_in, q)
           /\ count' = IF q.remain > 1 THEN count + 1 ELSE count
           /\ sm_run' = ~q.last
           /\ res' = IF q.last THEN count' ELSE res
    /\ sm_in' = Tail(sm_in)
    /\ UNCHANGED <<ringAll, state_out, origin, query, walk_run, input, fetch_run,
                   hostVars, recVars, midVars>>

\* step_counter writes its count when it returns
CountStep ==
    /\ ~Node2Vec /\ sm_run
    /\ sm_in # <<>>
    /\ Len(dup_in) < LinkDepth
    /\ LET q == Head(sm_in)
       IN  /\ dup_in' = Append(dup_in, q)
           /\ count' = IF q.remain # 0 THEN count + 1 ELSE count
           /\ sm_run' = ~q.last
           /\ res' = IF q.last THEN count' ELSE res
    /\ sm_in' = Tail(sm_in)
    /\ UNCHANGED <<ringAll, state_out, origin, query, walk_run, input, fetch_run,
                   hostVars, recVars, midVars>>

VertexLoader ==
    /\ ~Node2Vec /\ walk_run
    /\ query # <<>>
    /\ Len(descriptors) < OriginDepth
    /\ LET q == Head(query)
           d == IF q.dead THEN [start |-> q.v, size |-> 0] ELSE Row(q.v)
       IN  /\ descriptors' = Append(descriptors, [start |-> d.start, size |-> d.size,
                                                  dead |-> q.dead, last |-> q.last])
           /\ walk_run' = ~q.last
    /\ query' = Tail(query)
    /\ UNCHANGED <<ringAll, sm_in, sm_run, dup_in, state_out, origin, input, fetchVars,
                   hostVars, recVars, update>>

\* a random number scaled to the degree
SelectedIndex(size, rn) == (size * rn) \div RandMod

CalSampleIndex ==
    /\ descriptors # <<>>
    /\ Len(input) < LinkDepth
    /\ \E rn \in 0 .. RandMod - 1 :
         LET d == Head(descriptors)
         IN  input' = Append(input, [index |-> d.start + SelectedIndex(d.size, rn),
                                     dead |-> d.dead, last |-> d.last])
    /\ descriptors' = Tail(descriptors)
    /\ UNCHANGED <<ringAll, sm_in, sm_run, dup_in, state_out, origin, query, walk_run,
                   fetchVars, hostVars, recVars, update>>

FetchVertex ==
    /\ ~Node2Vec /\ fetch_run
    /\ input # <<>>
    /\ Len(update) < LinkDepth
    /\ LET i == Head(input)
       IN  /\ update' = Append(update, [v |-> IF i.dead THEN i.index
                                              ELSE Column[i.index + 1],
                                        dead |-> i.dead, last |-> i.last])
           /\ fetch_run' = ~i.last
    /\ input' = Tail(input)
    /\ UNCHANGED <<ringAll, sm_in, sm_run, dup_in, state_out, origin, query, walk_run,
                   count, res, hostVars, recVars, descriptors>>

\* step_update (urw) keeps the vertex of a dead answer and marks no final lap
UniformStep ==
    /\ origin # <<>> /\ update # <<>>
    /\ Len(old_query) < OldDepth
    /\ LET q == Head(origin)
           u == Head(update)
       IN  old_query' = Append(old_query,
                          [q EXCEPT !.v = IF u.dead THEN q.v ELSE u.v,
                                    !.dead = u.dead,
                                    !.remain = @ - 1,
                                    !.last = u.last])
    /\ origin' = Tail(origin)
    /\ update' = Tail(update)
    /\ UNCHANGED <<run, loaderVars, ringVars, sm_in, sm_run, dup_in, state_out, query,
                   walk_run, input, fetchVars, history, hostVars, recVars, descriptors>>

-----------------------------------------------------------------------------
(* the host: vhost.cpp and urw/host.cpp                                    *)

\* set_query and start_process_kernel, or the schedule_task calls, enqueue
\* every kernel but step_loader; none of them keeps a local variable
SetQuery ==
    /\ host_pc \in {"idle", "got"}
    /\ run < MaxRuns
    /\ run' = run + 1
    /\ host_pc' = "set"
    /\ rm_pc' = "recv"
    /\ slot_status' = [s \in Slots |-> FALSE]
    /\ ring_counter' = 0
    /\ release' = NoSlot
    /\ sm_run' = TRUE
    /\ walk_run' = TRUE
    /\ fetch_run' = ~Node2Vec
    /\ buffer' = <<>>
    /\ addr' = 0
    /\ count' = 0
    /\ finished' = {} /\ paths' = {}
    /\ UNCHANGED <<loaderVars, sm_in, dup_in, state_out, origin, query, input, res,
                   old_query, job, path, path_mem, midVars>>

\* step_loader
Start ==
    /\ host_pc = "set"
    /\ host_pc' = "started"
    /\ loaded' = 0
    /\ UNCHANGED <<run, new_query, ringVars, sm_in, sm_run, dup_in, state_out, origin,
                   query, walk_run, input, fetchVars, old_query, history, job, path_mem,
                   recVars, midVars>>

\* q.finish() waits for the kernels of the first queue
Stop ==
    /\ host_pc = "started"
    /\ loaded = TotalLoad
    /\ rm_pc = "done"
    /\ ~walk_run /\ ~fetch_run
    /\ Node2Vec \/ ~sm_run
    /\ host_pc' = "stopped"
    /\ UNCHANGED <<vars, job, path_mem, recVars, midVars>>

\* Mutant of GetRes: the second queue is not waited for.
GetResEarly ==
    /\ host_pc = "stopped"
    /\ path_mem' = path
    /\ host_pc' = "got"
    /\ UNCHANGED <<vars, job, recVars, midVars>>

\* aux_q.finish(), then the paths are copied to the host
GetRes ==
    /\ host_pc = "stopped"
    /\ ~sm_run
    /\ path_mem' = path
    /\ host_pc' = "got"
    /\ UNCHANGED <<vars, job, recVars, midVars>>

HostEnds ==
    /\ host_pc = "got"
    /\ run = MaxRuns
    /\ UNCHANGED walkVars

-----------------------------------------------------------------------------

WalkNext ==
    \/ WalkLoad \/ WalkRing \/ DuplicateStep
    \/ RecordStep \/ RecordGroup \/ SampleStep \/ UpdateStep
    \/ CountStep \/ VertexLoader \/ CalSampleIndex \/ FetchVertex \/ UniformStep
    \/ SetQuery \/ Start \/ Stop \/ GetRes \/ HostEnds

\* kernels run on their own; the host's calls return when what they wait for
\* has happened
WalkFairness ==
    /\ WF_walkVars(WalkLoad) /\ WF_walkVars(WalkRing) /\ WF_walkVars(DuplicateStep)
    /\ WF_walkVars(RecordStep) /\ WF_walkVars(RecordGroup)
    /\ WF_walkVars(SampleStep) /\ WF_walkVars(UpdateStep)
    /\ WF_walkVars(CountStep) /\ WF_walkVars(VertexLoader)
    /\ WF_walkVars(CalSampleIndex) /\ WF_walkVars(FetchVertex) /\ WF_walkVars(UniformStep)
    /\ WF_walkVars(SetQuery \/ Start \/ Stop \/ GetRes)

WalkSpec == WalkInit /\ [][WalkNext]_walkVars /\ WalkFairness

-----------------------------------------------------------------------------
(* Properties                                                              *)

\* get_path: a record with an index above those seen so far opens a path, any
\* other is appended to its path
GetPath(mem) ==
    FoldLeft(LAMBDA ps, r : IF r.id >= Len(ps) THEN Append(ps, <<r.v>>)
                            ELSE [ps EXCEPT ![r.id + 1] = Append(@, r.v)],
             <<>>, [i \in 1 .. NumQueries * WalkLen |-> mem[i - 1]])

\* Packets, groups of records and memory keep their shapes.
WalkTypeOK ==
    /\ run \in 0..MaxRuns /\ loaded \in 0..TotalLoad
    /\ host_pc \in {"idle", "set", "started", "stopped", "got"}
    /\ \A i \in 1..Len(Loop) : /\ Loop[i].v \in DOMAIN job.graph
                               /\ Loop[i].remain \in 0..WalkLen
                               /\ Loop[i].id \in 0 .. NumQueries - 1
    /\ Len(buffer) <= RecGroup
    /\ addr \in 0 .. (NumQueries * WalkLen) \div RecGroup
    /\ path_mem \in [Places -> [id: 0 .. NumQueries - 1, v: DOMAIN job.graph]]

\* The paths the host cuts out of the recorded memory are the walks: one for
\* every query, in the order of the queries, of WalkLen vertices, from the
\* query's own start vertex along edges of the graph.  The records come from
\* many walks at once, in groups, by way of a queue that stop() does not wait
\* for, and into the memory of the run before.
PathsAreWalks ==
    host_pc = "got" /\ Node2Vec =>
        LET ps == GetPath(path_mem)
        IN  /\ Len(ps) = NumQueries
            /\ \A k \in 1..NumQueries :
                 /\ Len(ps[k]) = WalkLen
                 /\ ps[k][1] = job.starts[k - 1]
                 /\ \A i \in 2..WalkLen : ps[k][i] \in Adj(ps[k][i - 1])

\* A walk moves along an edge of the graph with every step it counts and never
\* dies before the final lap of Node2Vec, which goes nowhere, although the word 0
\* stands for a vertex, for a masked place and for a list of which nothing
\* was selected, and although the answer finds its walk by position only.
StepsFollowEdges ==
    [][\A i \in 1..Len(Loop), j \in 1..Len(Loop') :
          Loop[i].id = Loop'[j].id =>
             \/ Loop'[j].v \in Adj(Loop[i].v)
             \/ /\ Loop'[j].v = Loop[i].v
                /\ Loop'[j].remain = Loop[i].remain \/ (Node2Vec /\ Loop[i].remain <= 1)
      ]_walkVars

\* After its first lap a Node2Vec walk is weighed against the vertex it came
\* from: the pair it carries is an edge.
PrevIsNeighbour ==
    Node2Vec => \A i \in 1..Len(Loop) :
        Loop[i].remain \in 1 .. WalkLen - 1 => Loop[i].v \in Adj(Loop[i].prev)

\* When a run is over nothing of it is left in a stream or in the group of
\* step_record, and the uniform walk has counted each of its steps once; all
\* along, packets, groups of records and memory keep their shapes.
WalksEndClean ==
    WalkTypeOK /\ (host_pc = "got" =>
        /\ Loop = <<>> /\ new_query = <<>> /\ query = <<>> /\ input = <<>>
        /\ descriptors = <<>> /\ update = <<>> /\ buffer = <<>>
        /\ ~Node2Vec => res = NumQueries * WalkLen)

\* Every run of either application comes to its end, unless a slot is leaked.
WalkRunsEnd ==
    []( \A s \in Slots : rm_pc # "done" => ~LeakedSlot(s))
        => <>(host_pc = "got" /\ run = MaxRuns)
=============================================================================
