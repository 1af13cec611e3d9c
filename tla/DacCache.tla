------------------------------ MODULE DacCache ------------------------------
(***************************************************************************)
(* The degree-aware vertex cache (src/vdac_cache).  vertex_loader looks a  *)
(* vertex up in a direct-mapped cache of descriptors and always sends a    *)
(* memory command, a dummy one on a hit; the answer of the memory meets    *)
(* the packet of the lookup again in vcache_vd, which forwards one of the  *)
(* two, and in vcache_update, which sends the descriptor back to the cache *)
(* if it has more neighbours than the entry it would replace had when the  *)
(* lookup was made:                                                        *)
(*                                                                         *)
(*   vertex_loader -- vertex_cmd -- vcache_mem -- data -+- data_1 -- vcache*)
(*      ^     |                                         +- data_2    vd    *)
(*      |     +---------- output ------------- +- vds_1 ------------ ^     *)
(*      |                                      +- vds_2 -- vcache_update   *)
(*      +---------------------- cache_update ----------------- +           *)
(*                                                                         *)
(* The loop through cache_update is a cycle of blocking streams.  The      *)
(* loader polls its input and then cache_update, one packet of each in an  *)
(* iteration.  A kernel that has read one packet and waits for another, or *)
(* for room, keeps the packet at the head of its stream here.              *)
(***************************************************************************)
EXTENDS Integers, Sequences, FiniteSets

CONSTANTS
    Vertices,     \* the vertices of the graph
    Desc,         \* the graph in memory: vertex -> [start, size]
    CacheSize,    \* VCACHE_SIZE (2^16)
    CmdDepth,     \* depth of vertex_cmd and of the answers of vcache_mem
    OutputDepth,  \* depth of vertex_loader.output (512)
    DupDepth,     \* depth of the streams out of vcache_duplicate (16)
    UpdateDepth,  \* depth of cache_update (512)
    MaxInFlight,  \* lookups the query ring lets be unanswered (256)
    MaxReq        \* bound on the number of lookups

ASSUME CacheAssumption ==
    /\ Vertices \subseteq Nat
    /\ Desc \in [Vertices -> [start: Nat, size: Nat]]
    /\ CacheSize \in Nat \ {0}
    /\ MaxInFlight \in Nat \ {0} /\ MaxReq \in Nat

ASSUME CacheDepthAssumption ==
    /\ CmdDepth \in Nat \ {0} /\ OutputDepth \in Nat \ {0}
    /\ DupDepth \in Nat \ {0} /\ UpdateDepth \in Nat \ {0}

VARIABLES
    asked,        \* lookups so far
    input,        \* step_duplicator -> vertex_loader
    vl_pc,        \* vertex_loader: "lookup", "update", "drain" or "done"
    tag,          \* vertex_loader: tag[], NoTag while bit 63 is not set
    cache,        \* vertex_loader: cache[]
    vertex_cmd,   \* vertex_loader -> vcache_mem
    mem_run,      \* vcache_mem has not seen the last command of the run
    output,       \* vertex_loader -> vcache_duplicate
    data,         \* vcache_mem -> vcache_duplicate
    half,         \* vcache_duplicate: the streams whose head is in out1 only
    vds,          \* vcache_duplicate -> vcache_vd (1), vcache_update (2)
    dup,          \* the same for the answers of the memory
    cache_update, \* vcache_update -> vertex_loader
    answer,       \* the packet vcache_vd wrote last
    pending       \* history: lookups not answered, oldest first

feedVars   == <<asked, input>>
loaderVars == <<vl_pc, tag, cache>>
memVars    == <<vertex_cmd, mem_run>>
dupVars    == <<output, data, half>>
vars == <<feedVars, loaderVars, memVars, dupVars, vds, dup, cache_update,
          answer, pending>>

-----------------------------------------------------------------------------

Slots == 0 .. CacheSize - 1

\* V_CACHE_TAG
SlotOf(v) == v % CacheSize

NoTag == -1

\* a vertex with bit 31 set: the walk is over
Dead == -2

Nothing == [start |-> 0, size |-> 0]

EmptyTag   == [s \in Slots |-> NoTag]
EmptyCache == [s \in Slots |-> Nothing]

Init ==
    /\ asked = 0
    /\ input = <<>>
    /\ vl_pc = "lookup" /\ tag = EmptyTag /\ cache = EmptyCache
    /\ vertex_cmd = <<>> /\ mem_run = TRUE
    /\ output = <<>> /\ data = <<>> /\ half = {}
    /\ vds = [i \in 1..2 |-> <<>>]
    /\ dup = [i \in 1..2 |-> <<>>]
    /\ cache_update = <<>>
    /\ answer = [to |-> Nothing, last |-> FALSE]
    /\ pending = <<>>

-----------------------------------------------------------------------------
(* vertex_loader                                                           *)

\* a step of a walk; the last one of a run is a final lap and its vertex dead
Request ==
    /\ asked < MaxReq
    /\ Len(pending) < MaxInFlight
    /\ input = <<>>
    /\ vl_pc \in {"lookup", "update"}
    /\ \A i \in 1..Len(pending) : ~pending[i].last
    /\ \E v \in Vertices \union {Dead}, last \in BOOLEAN :
         /\ last => v = Dead
         /\ input' = <<[v |-> v, last |-> last]>>
         /\ pending' = Append(pending, [vertex |-> v, last |-> last])
    /\ asked' = asked + 1
    /\ UNCHANGED <<loaderVars, memVars, dupVars, vds, dup, cache_update, answer>>

\* Mutant of Hit: the entry is not compared with the vertex.
HitAnyValid(v) == v # Dead /\ tag[SlotOf(v)] # NoTag

Hit(v) == v # Dead /\ tag[SlotOf(v)] = v

\* the packet for vcache_duplicate: on a miss it carries the vertex and the
\* size of the entry found in its place
LookupPkg(p) ==
    IF p.v = Dead THEN [start |-> p.v, size |-> 0, invalid |-> FALSE, last |-> p.last]
    ELSE IF Hit(p.v) THEN [start |-> cache[SlotOf(p.v)].start,
                           size |-> cache[SlotOf(p.v)].size,
                           invalid |-> FALSE, last |-> p.last]
    ELSE [start |-> p.v, size |-> cache[SlotOf(p.v)].size,
          invalid |-> TRUE, last |-> p.last]

\* Mutant of LoaderLookup: cache_update is polled only when there is no input.
LoaderLookupSkipsPoll ==
    /\ vl_pc = "lookup"
    /\ input # <<>>
    /\ Len(vertex_cmd) < CmdDepth
    /\ Len(output) < OutputDepth
    /\ LET p == Head(input)
       IN  /\ vertex_cmd' = Append(vertex_cmd, [addr |-> p.v, last |-> p.last,
                                                dummy |-> ~LookupPkg(p).invalid])
           /\ output' = Append(output, LookupPkg(p))
           /\ vl_pc' = IF p.last THEN "drain" ELSE "lookup"
    /\ input' = Tail(input)
    /\ UNCHANGED <<asked, tag, cache, mem_run, data, half, vds, dup,
                   cache_update, answer, pending>>

LoaderLookup ==
    /\ vl_pc = "lookup"
    /\ input # <<>>
    /\ Len(vertex_cmd) < CmdDepth
    /\ Len(output) < OutputDepth
    /\ LET p == Head(input)
       IN  /\ vertex_cmd' = Append(vertex_cmd, [addr |-> p.v, last |-> p.last,
                                                dummy |-> ~LookupPkg(p).invalid])
           /\ output' = Append(output, LookupPkg(p))
           /\ vl_pc' = IF p.last THEN "drain" ELSE "update"
    /\ input' = Tail(input)
    /\ UNCHANGED <<asked, tag, cache, mem_run, data, half, vds, dup,
                   cache_update, answer, pending>>

\* Mutant of LoaderUpdate: an entry that was valid before keeps its tag.
LoaderUpdateKeepsTag ==
    /\ vl_pc = "update" \/ (vl_pc = "lookup" /\ input = <<>>)
    /\ cache_update # <<>>
    /\ LET u == Head(cache_update)
       IN  /\ tag' = [tag EXCEPT ![SlotOf(u.v)] = IF @ = NoTag THEN u.v ELSE @]
           /\ cache' = [cache EXCEPT ![SlotOf(u.v)] = [start |-> u.start, size |-> u.size]]
    /\ cache_update' = Tail(cache_update)
    /\ vl_pc' = "lookup"
    /\ UNCHANGED <<feedVars, memVars, dupVars, vds, dup, answer, pending>>

\* the second poll of an iteration, reached also when the first found nothing
LoaderUpdate ==
    /\ vl_pc = "update" \/ (vl_pc = "lookup" /\ input = <<>>)
    /\ cache_update # <<>>
    /\ LET u == Head(cache_update)
       IN  /\ tag' = [tag EXCEPT ![SlotOf(u.v)] = u.v]
           /\ cache' = [cache EXCEPT ![SlotOf(u.v)] = [start |-> u.start, size |-> u.size]]
    /\ cache_update' = Tail(cache_update)
    /\ vl_pc' = "lookup"
    /\ UNCHANGED <<feedVars, memVars, dupVars, vds, dup, answer, pending>>

LoaderNoUpdate ==
    /\ vl_pc = "update"
    /\ cache_update = <<>>
    /\ vl_pc' = "lookup"
    /\ UNCHANGED <<feedVars, tag, cache, memVars, dupVars, vds, dup,
                   cache_update, answer, pending>>

\* empty_stream after the last packet: what arrives is thrown away
LoaderDrain ==
    /\ vl_pc = "drain"
    /\ cache_update # <<>>
    /\ cache_update' = Tail(cache_update)
    /\ UNCHANGED <<feedVars, loaderVars, memVars, dupVars, vds, dup, answer, pending>>

\* nothing arrived for 4095 polls: the loader returns, even though an update
\* may still be on its way
LoaderReturn ==
    /\ vl_pc = "drain"
    /\ cache_update = <<>>
    /\ vl_pc' = "done"
    /\ UNCHANGED <<feedVars, tag, cache, memVars, dupVars, vds, dup,
                   cache_update, answer, pending>>

-----------------------------------------------------------------------------
(* vcache_mem, vcache_duplicate, vcache_vd and vcache_update               *)

VcacheMem ==
    /\ mem_run
    /\ vertex_cmd # <<>>
    /\ Len(data) < CmdDepth
    /\ LET c == Head(vertex_cmd)
       IN  /\ data' = Append(data, IF c.dummy THEN Nothing ELSE Desc[c.addr])
           /\ mem_run' = ~c.last
    /\ vertex_cmd' = Tail(vertex_cmd)
    /\ UNCHANGED <<feedVars, loaderVars, output, half, vds, dup, cache_update,
                   answer, pending>>

\* stream_duplicate_nb writes its packet to out1 and then to out2
DuplicateVds(i) ==
    /\ output # <<>>
    /\ IF "vds" \in half THEN i = 2 ELSE i = 1
    /\ Len(vds[i]) < DupDepth
    /\ vds' = [vds EXCEPT ![i] = Append(@, Head(output))]
    /\ half' = IF i = 1 THEN half \union {"vds"} ELSE half \ {"vds"}
    /\ output' = IF i = 1 THEN output ELSE Tail(output)
    /\ UNCHANGED <<feedVars, loaderVars, memVars, data, dup, cache_update,
                   answer, pending>>

DuplicateData(i) ==
    /\ data # <<>>
    /\ IF "data" \in half THEN i = 2 ELSE i = 1
    /\ Len(dup[i]) < DupDepth
    /\ dup' = [dup EXCEPT ![i] = Append(@, Head(data))]
    /\ half' = IF i = 1 THEN half \union {"data"} ELSE half \ {"data"}
    /\ data' = IF i = 1 THEN data ELSE Tail(data)
    /\ UNCHANGED <<feedVars, loaderVars, memVars, output, vds, cache_update,
                   answer, pending>>

\* the descriptor comes from the memory on a miss and from the lookup else
VcacheVd ==
    /\ dup[1] # <<>> /\ vds[1] # <<>>
    /\ LET p == Head(vds[1])
       IN  answer' = [to |-> IF p.invalid THEN Head(dup[1])
                             ELSE [start |-> p.start, size |-> p.size],
                      last |-> p.last]
    /\ vds' = [vds EXCEPT ![1] = Tail(@)]
    /\ dup' = [dup EXCEPT ![1] = Tail(@)]
    /\ pending' = Tail(pending)
    /\ UNCHANGED <<feedVars, loaderVars, memVars, dupVars, cache_update>>

\* the vertex travels in the start field of the packet of a miss
UpdatePkg(p, new) == [v |-> p.start, start |-> new.start, size |-> new.size]

VcacheUpdate ==
    /\ dup[2] # <<>> /\ vds[2] # <<>>
    /\ LET p   == Head(vds[2])
           new == Head(dup[2])
       IN  \/ /\ p.invalid /\ new.size > p.size
              /\ Len(cache_update) < UpdateDepth
              /\ cache_update' = Append(cache_update, UpdatePkg(p, new))
           \/ /\ ~(p.invalid /\ new.size > p.size)
              /\ UNCHANGED cache_update
    /\ vds' = [vds EXCEPT ![2] = Tail(@)]
    /\ dup' = [dup EXCEPT ![2] = Tail(@)]
    /\ UNCHANGED <<feedVars, loaderVars, memVars, dupVars, answer, pending>>

-----------------------------------------------------------------------------
(* the host                                                                *)

RunOver == vl_pc = "done" /\ ~mem_run /\ pending = <<>>

\* the loader clears the cache when it is started
Restart ==
    /\ RunOver
    /\ vl_pc' = "lookup" /\ tag' = EmptyTag /\ cache' = EmptyCache
    /\ mem_run' = TRUE
    /\ UNCHANGED <<feedVars, vertex_cmd, dupVars, vds, dup, cache_update,
                   answer, pending>>

\* no lookup left to make
Idle == asked = MaxReq /\ pending = <<>> /\ vl_pc = "lookup" /\ UNCHANGED vars

Loader == LoaderLookup \/ LoaderUpdate \/ LoaderNoUpdate \/ LoaderDrain \/ LoaderReturn

Next ==
    \/ Request \/ Loader \/ VcacheMem \/ VcacheVd \/ VcacheUpdate
    \/ \E i \in 1..2 : DuplicateVds(i) \/ DuplicateData(i)
    \/ Restart \/ Idle

Spec == Init /\ [][Next]_vars

\* Every kernel does what it can do, and vd_scheduler reads what vcache_vd
\* writes; the host starts the next run.
Fairness ==
    /\ WF_vars(Loader) /\ WF_vars(VcacheMem) /\ WF_vars(VcacheVd)
    /\ WF_vars(VcacheUpdate) /\ WF_vars(Restart)
    /\ WF_vars(\E i \in 1..2 : DuplicateVds(i))
    /\ WF_vars(\E i \in 1..2 : DuplicateData(i))

FairSpec == Spec /\ Fairness

-----------------------------------------------------------------------------
(* Properties                                                              *)

VdsPkg    == [start: Nat \union {Dead}, size: Nat, invalid: BOOLEAN, last: BOOLEAN]
DescPkg   == [start: Nat, size: Nat]
UpdatePkgs == [v: Vertices, start: Nat, size: Nat]

\* The type of every variable.  A miss carries a vertex of the graph, so the
\* vertex that comes back with an update is one.
TypeOK ==
    /\ asked \in 0..MaxReq
    /\ vl_pc \in {"lookup", "update", "drain", "done"}
    /\ tag \in [Slots -> Vertices \union {NoTag}]
    /\ cache \in [Slots -> DescPkg]
    /\ mem_run \in BOOLEAN
    /\ input \in Seq([v: Vertices \union {Dead}, last: BOOLEAN])
    /\ vertex_cmd \in Seq([addr: Vertices \union {Dead}, last: BOOLEAN, dummy: BOOLEAN])
    /\ output \in Seq(VdsPkg)
    /\ data \in Seq(DescPkg)
    /\ half \in SUBSET {"vds", "data"}
    /\ vds \in [1..2 -> Seq(VdsPkg)]
    /\ dup \in [1..2 -> Seq(DescPkg)]
    /\ cache_update \in Seq(UpdatePkgs)

\* the descriptor a lookup has to be answered with
Answers(v) == {IF v = Dead THEN [start |-> Dead, size |-> 0] ELSE Desc[v]}

Service == INSTANCE OrderedService
           WITH Requests <- Vertices \union {Dead}, NoAnswer <- Nothing

\* Lookups are answered in order with the descriptor that is in memory,
\* whatever the cache did to its entries between the lookup and the moment the
\* packet meets the answer of the memory.
ImplementsLookup == Service!Spec

\* A valid entry holds the descriptor of the vertex in its tag, and updates on
\* their way are right too: an update that outlives its run in cache_update is
\* applied to the cache of the next one.
CacheCoherent ==
    /\ TypeOK
    /\ \A s \in Slots : tag[s] # NoTag => SlotOf(tag[s]) = s /\ cache[s] = Desc[tag[s]]
    /\ \A i \in 1..Len(cache_update) :
          LET u == cache_update[i] IN Desc[u.v] = [start |-> u.start, size |-> u.size]

\* Every lookup is answered: the cycle through cache_update never fills up,
\* because the loader takes an update for every packet it lets in.  And after
\* the last packet of a run the loader and vcache_mem return.
Progress == /\ (pending # <<>>) ~> (pending = <<>>)
            /\ (vl_pc = "drain") ~> RunOver
=============================================================================
