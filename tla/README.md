# A TLA+ model of LightRW

LightRW is a graph random walk accelerator: FPGA designs for MetaPath
(`app/metapath`), Node2Vec (`app/node2vec`) and uniform walks
(`app/uniform_random_walk`), each a network of up to thirty kernels connected by
bounded streams, and host programs that load a graph, launch the kernels and read
the walks back. The modules in this directory model the kernels, the part of the
hosts that starts and stops them and the graph they load; TLC checks them on small
instances, and TLAPS proves the central invariants of the query ring, the vertex cache,
the sampler, the Node2Vec burst engines and the Node2Vec loop for every size.

All paths below are relative to the repository. `PROJECT.json` gives, for every
definition, the source lines it stands for.

## 1. The system

### How the kernels work together

A walk is a *query*: a start vertex and a number of steps. The kernels form a
ring that every query travels once per step.

    step_loader -> ring_manager -> (metapath_sm) -> step_duplicator -> vertex loading
                        ^                                |                 |
                        |                                | origin          v
                        |                                |           burst engines
                        |                                v                 |
                        +------- old_query -------- fetch_next <------- sampler

Kernels never call each other. They write to and read from FIFO streams; a
write blocks when the stream is full, a read blocks (`read`) or polls
(`read_nb`). Streams carry no names: *what arrives k-th on one stream belongs to
what arrives k-th on another*, and most of the system's correctness is that this
stays true on every path and for every mix of dead walks, empty lists, cache
hits and runs. Some kernels are launched by the host for every run and return
when a packet with the `last` flag passes; the others are free-running
(`ap_ctrl_none`) and keep their registers from one run to the next.

### Inventory

| Component | State | Operations | Hard behaviour | What makes it correct |
|---|---|---|---|---|
| Query ring (`ring_manager`, `step_loader`, `metapath_sm`, `mrw`) | slot table, ring counter, pending slot update, streams of the loop | load, insert, replace, release, forward, stop | two polls of one stream in one iteration; a cycle of blocking streams; a run that ends on one flag | one walk per slot, the loop never fills up, nothing left when a run ends, every walk has its laps |
| Host run loop (`host/metapath_host`) | run number, result counter | `set_query`, `start`, `stop`, `get_res` | the same kernels are started again on whatever is in the streams | each run starts clean and is counted exactly |
| Dynamic burst engine (`sdyburst`) | three number generators, three merges, three engines, commands in flight | schedule, split, burst, merge, stop | answers overtake each other; numbers wrap; one descriptor stops two engines | answers in order, each a neighbour of the vertex asked about; every word of a list shown once |
| Degree-aware cache (`vdac_cache`) | tags and descriptors, updates in flight | lookup, load, update, drain | the decision hit or miss is older than its use; a cycle of streams through the cache itself | an answer is the descriptor of the vertex asked about |
| Weighted reservoir sampler (`wrs`, `msample`, `ssample`, `label_filter`) | running sum, selected index | partial sum, prefix sum, scale, mask, select | five streams rejoin by position; state carried from line to line | the probability of a neighbour is its share of the weights; lists never mix |
| Node2Vec burst engines (`staburst`, `siburst`, `vd_dispatch`, `assert_filter_woe`, `srw/step_duplicator`, `vndirect`) | parity counter, numbers, masks | dispatch, schedule, filter, split, burst, merge, stop | two engines and an assert path that know nothing of each other | the two lists and the previous vertex that meet are of one step |
| Node2Vec set intersection (`isne_x16`, `setintersetion`) | state machine per copy of `neighbor_mask` | read, compare, mark, merge | a merge that must not forget a match, whichever list ends first | weight 1 back, 2 common neighbour, 4 otherwise, for every word |
| Node2Vec loop (`srw`, `step_record`) | as the query ring, and the records | as the query ring, record a step | `step_record` on a queue of its own; a vertex 0 that looks like a mask | every step follows an edge; the paths read back are the walks |
| Uniform walk (`urw`, `vdirect`, `step_counter`, `host/urw`) | as the query ring | load descriptor, scale a random number, fetch the neighbour | an index at the end of a list | every step follows an edge; nothing is left behind |
| Step recorder (`step_record`, `get_path`) | group of records, write address | record, write a group, read back | the last group is written after the run is over for everybody else | paths come back complete and in order |
| Coalescing and source cache (`coalesce`, `src_cache`) | per PE a window of cached lines, a vertex in hand; blocks asked for so far | merge, filter, read a block, pass a line on, keep it, answer, merge the answers | lines and vertices come over two streams; a PE that stalls stops the PE behind it | every vertex answered with its own line, each block read once, no circle of waiting PEs |
| Graph of the hosts (`host/xgraph`) | CSR arrays, labels and weights, partitions, files | load and store edge lists and CSR files, partition, relabel, search | order that nobody sorts; arrays moved together in a certain order | it stays the same graph with sorted lists, and its data stay with their edges |
| Graph partitioning (`host/gp`) | CSR, compressed vertices, chunks | load, compress, cut | two renumberings and two roundings | no edge lost, sources ascend |
| Random numbers (`irsgu`, `rwsou`, `sou`) | generator state | next line | none | statistical quality |
| Helpers, test kernels, code generator, vendored code | files, arrays | sequential | none | section 6 |

The components and hazards of `PROJECT.json` are the long form of this table.

## 2. Modules

| Module | Models | Composed with |
|---|---|---|
| `QueryRing` | the MetaPath loop and the host's run loop; the sampling path is one action | assumes of the sampling path what `OrderedService` states |
| `QueryRingProofs` | proofs about `QueryRing`: the ring itself; what the host counts and reads back | extends `QueryRing` |
| `DacCacheProofs`, `DynBurstProofs`, `PairFetchProofs`, `WalkLoopProofs`, `WrsProofs` | proofs about these modules | extend `DacCache`, `DynBurst`, `PairFetch`, `WalkLoop`, `Wrs` |
| `StreamLemmas`, `ReservoirLemmas` | facts about streams, chains of them, what they hold of a history and numbers that wrap; about the arithmetic of a list, by induction | used by the proofs |
| `OrderedService` | abstract: requests are answered one by one and in order, each with an allowed answer, and the `last` flag goes with it | implemented by `DynBurst`, `DacCache`, `PairFetch` |
| `DynBurst` | `vd_scheduler` ... `update_merge` | its requests are the answers of `DacCache`; its sampler is `Wrs` |
| `DacCache` | `vertex_loader` with its cache, the memory reader and the update path | between the duplicator of `QueryRing` and `DynBurst` |
| `Reservoir` | the arithmetic of a line and of a list of weights | used by `Wrs` |
| `Wrs` | `label_filter`, the prefix sums, scaling, mask and sampler as kernels with streams | the sampler inside `DynBurst` |
| `PairFetch` | the Node2Vec path from `step_duplicator` to `sta_update_merge` | its requests come from the ring; its weight kernels are `SetIntersect` |
| `SetIntersect` | the weight kernels between the two Node2Vec engines and the sampler | gets the lists `PairFetch` pairs, feeds `Wrs` |
| `WalkLoop` | the loops of Node2Vec and of uniform walks with their hosts, on a graph, with the vertices and the records | extends `QueryRing` and uses its ring and loader; samples with the weights `SetIntersect` computes |
| `SrcCache` | `coalesce`, `src_cache_read_engine`, `src_cache_access` | its vertices are the sources of a chunk of `GpPartition` |
| `XGraph` | class `Graph` of `host/xgraph` | its lists, sorted and symmetric, are what `SetIntersect` and `WalkLoop` assume |
| `GpPartition` | CSR, compression and chunks of `host/gp`, as operators | establishes what `SrcCache` assumes |

`MC*` modules give small sets of vertices, lists or steps to TLC, and
`MCAlgorithms` also the reference definitions for the sequential code; the `.cfg` files give all other constants their values and replace no definition.

### Conventions

- One variable per stream and per register that survives an iteration. Names are
  those of the code where a stream has one.
- A blocking write is a guard on the room in the stream. When an iteration
  writes to several streams the model takes one step that waits for room in all
  of them. A real kernel may write the first and then wait. The kernels
  concerned are deterministic in their inputs (they poll at most one stream), so
  this only takes capacity away: behaviours stay the same up to timing, and a
  network that does not block with less room does not block with more. Kernels
  that poll more than one input (`ring_manager`, the merges) have a step per poll
  or a step per choice.
- A register that holds a packet while the kernel works on it is the head of the
  input stream; the stream depth counts that place.
- Pairs of streams that are written and read together are one stream of pairs.
- Data are abstract: a vertex is a number, a neighbour list a descriptor, a line
  of memory the set (or the tuple) of its unmasked words, a label the place in
  the metapath. Numbers that wrap in the code wrap in the model (`IdMod`,
  `StepMod`, `SumMod`, `RngMod`), at small moduli.
- Kernels poll for idle times (`flush_counter`) to leave an inner loop of an
  endless outer loop. That changes no state outside the kernel and is left out.
  `empty_stream` in the cache is the exception: it decides when a run is over.

### Actions and code

- **QueryRing.** `LoadQuery` is one packet of `step_loader`. An iteration of
  `ring_manager` is two steps, because it polls `new_query` in both halves:
  `RingIdle`, `RingStop`, `RingReplace`, `RingRelease` and `RingForward` are the
  outcomes of the poll of `old_query`; `RingInsert` and `RingCommit` are the
  second half, with the write of the slot table. `MetapathSm`,
  `StepDuplicator`, `FetchNext` (with `step_update`) are one iteration each.
  `SamplePath` is everything between `step_duplicator.query` and
  `fetch_next.input`. `HostNextRun` is `get_res`, `set_query` and `start` of the
  next run.
- **DynBurst.** `ScheduleEmpty`, `ScheduleSingle`, `ScheduleDynamic`,
  `StopSingle`, `StopDynamic` are `vd_scheduler`; `CmdGenerator` one command;
  `BurstOne`, `BurstLong`, `EngineStop` the engines of `dyburst_core`;
  `IntraMerge`, `InterMerge`, `UpdateMerge` the merges; `Sample` one line through
  the sampling kernels.
- **DacCache.** `LoaderLookup`, `LoaderUpdate`, `LoaderNoUpdate` are an iteration
  of `vertex_loader`, `LoaderDrain` and `LoaderReturn` its `empty_stream`;
  `VcacheMem`, the two `Duplicate` actions, `VcacheVd` and `VcacheUpdate` are the
  kernels with those jobs.
- **Wrs.** One action per kernel from `LabelFilter` to `Sample`; every list
  carries, as history, the random numbers that were drawn for it.
- **PairFetch.** Two actions for `step_duplicator` and for `vd_dispatch` (one per
  vertex of the pair), one for each other kernel, three for the kernels behind
  the engines.
- **SetIntersect.** One action per kernel, and one per state of the state machine
  of `neighbor_mask`.
- **WalkLoop.** `WalkLoad` and `WalkRing` are the actions of `QueryRing` with a vertex
  in the packet; `RecordStep` and `RecordGroup` an iteration and a write of
  `step_record`; `SampleStep` the Node2Vec path from `vertex_loader` to
  `sta_update_merge`, with its weights; `VertexLoader`, `CalSampleIndex`, `FetchVertex`,
  `UniformStep`, `CountStep` the kernels of the uniform walk. `SetQuery`, `Start`,
  `Stop` and `GetRes` are the host's calls: `Stop` waits for one of the two queues
  only, `GetRes` for the other.
- **SrcCache.** `SrcToAddress`, `Merge`, `Filter` are `coalesce`; `Command` and `ReadLine`
  the read engine; `SrcBuffer`, `SrcDispatch`, `SrcMerge` and one `PeStep` per PE and loop
  iteration `src_cache_access`. `StartRun` is the loop of `main` of
  `test/host_src_cache`, `Load` its loader, `test_mem_loader_end_token`, with
  `test_duplicate_512` behind it. The next run starts when the PEs have passed on their last line.
- **XGraph.** One action per member function that changes the graph or the files. A
  graph comes with the names its vertices had in the first edge list, so that a value
  in the wrong place is seen after any number of renumberings.

Two lines do not compile as they stand and are read as what their neighbours
say: `src/metapath/label_filter.cpp:25` calls `read_in` where both reads belong
together, and `src/metapath/metapath_sm.cpp:33` lacks a semicolon.

## 3. What is checked

Distinct states are those TLC reports.

| Run | Instance | Result |
|---|---|---|
| `ring` | 4 queries in bursts of 2, walks of 3 steps, 3 slots, 2 runs; 54 080 states | all eight properties hold |
| `ring_leak` | 3 queries, 2 slots | `WaitingQueryIsInserted` violated, see findings |
| `burst` | lines of 2 words, long bursts of 2 lines, numbers modulo 4 that wrap, 3 requests in flight, one place per stream; 379 470 states | order, exact lists and clean restart hold; every request answered, every run ends |
| `burst_mask` | long bursts that begin or end inside a line | `NeighboursShown` violated, see findings |
| `cache` | 3 vertices on 2 cache entries, 4 requests, one place per stream; 95 000 states | lookups are right, in order and answered |
| `walks` | 3 walks of 3 steps, 2 slots, groups of 3 records, 2 runs, Node2Vec and uniform on a path with vertex 0 and an isolated vertex, uniform on a triangle with a tail; 104 895 states | paths are walks, every step follows an edge, no walk dies early, clean end, every run ends |
| `srccache` | 2 PEs, caches of 4 lines, blocks of 2, 2 runs of 3 kinds of work, one place per stream (2 for `out_stream`); 934 476 states | answers right and in place, each block read once, clean restart, every run answered |
| `algorithms` | the pipeline: 3 lines in lists of any length, one place per stream; the arithmetic: lists of 1 or 2 lines of 2 words, weights 0 to 3, *all* draws of 6 values for each word; edge lists of up to 3 of 6 lines over 4 vertices and up to 6 operations; the same lists in chunks of 2; 603 641 states | every sample is the one of its own list, has its label, and comes; shares are exact; the graph stays the graph, searches are right, `get_pid` finds the one partition of a vertex; no edge is lost in a chunk |
| `partition_bound` | the same graphs, target of 2 edges | `PartitionsFit` violated, see findings |
| `weights` | every pair of lists over four vertices, and pairs of longer steps one behind the other; lines of 4 words for 2 copies, lists that end first on either side; 509 104 states | all weights exact, lists end together, no copy blocks another |
| `weights_long` | previous lists of 3 lines | `WeightsAreExact` violated, see findings |
| `pair` | 3 steps in flight, numbers modulo 3 that wrap, one place per stream; 139 033 states | lists, asserts and answers belong to one step; clean restart; every step answered, every run ends |

### What the properties say

- `SlotOwnership`, `LoopFits`, `NothingLeftBehind`, `LabelsArePaired`,
  `StepsCounted`, `PathsInOrder`, `LeakFreeRunsEnd` and the inductive `RingInv`
  (QueryRing): the ring is safe against the races of its two
  polls, cannot fill up, ends clean although nobody counts, keeps labels and
  steps together, and ends if no slot is leaked.
- `ImplementsService`, `ImplementsLookup`, `ImplementsSteps`: refinement of
  `OrderedService` with the requests of each part. These are what `fetch_next`,
  `vd_scheduler` and the weight kernels rely on when they pair packets by
  position.
- `NeighboursShown`: what the sampler is shown is the neighbour list, however it
  was split between engines.
- `CleanRestart`: the stop packets reach every engine, use up no number, and leave
  nothing. (Where a module has a type invariant, one of its other invariants, such as
  this one, includes it as its first conjunct.)
- `CacheCoherent`: a valid entry holds the descriptor of its vertex, also with
  updates in flight and after a restart.
- `Proportional`, `SampleHasWeight`, `SampleHasLabel`, `SampleIsOfItsList`: the
  distribution, the masks, and the pairing of lines that carry no name.
- `WeightsAreExact`, `ListsEndTogether`: the streaming merge computes what a
  search of the whole list computes.
- `Progress` (burst, cache, pair), `EveryListSampled`, `EveryStepWeighed`,
  `EveryRunAnswered`, `WalkRunsEnd`: no set of kernels waits on itself, and the kernels
  that return at the end of a run do return.
- `PathsAreWalks`, `PrevIsNeighbour`, `StepsFollowEdges`, `WalksEndClean`: what the user of the accelerator asked for. The paths cut out of the
  memory after `get_res` start at the vertices of the queries and follow edges, although
  a sample of 0 may be a vertex, a mask or a walk without weight, and although the last
  records are written after the host has seen the run end.
- `AnswersAreRight`, `EachBlockOnce`: the direct-mapped windows of the
  PEs, filled from a stream that cannot go back.
- `CsrIsGraph`, `DataFollowsEdges`, `LookupsAgree`, `OnePartitionEach`: any sequence of
  loads, stores, partitions and relabellings leaves the same graph, with its data at the
  right edges, and the searches find it; every vertex is in one partition, the one
  `get_pid` finds. How many edges a partition has is the finding `partition_bound`.
- `ChunksAreRight`: the cut of a graph loses nothing and is sorted as
  the source cache needs it.

Every property has a mutant: a variation of one mapped definition, of the kind a
bug in that code would be, under which TLC finds the property violated.

### Bounds, and why they are enough

- *Streams of one place* are the hardest case for deadlock and for overtaking.
  Where a kernel writes several words at once the depth is that number of words
  (`AdjDepth` and `MaskDepth` of `SetIntersect`; the real 512 and 16 against 4).
- *Ring*: more queries than slots, so that slots are replaced, released and
  inserted again; walks of three steps have a first, a middle and a final lap; two
  runs show the restart. The theorems of section 4 remove these bounds, here and for the
  safety properties of `cache`, `pair` and of `Wrs`.
- *Numbers* wrap within a run: the modulus is about the number of requests in
  flight, the least the design allows, and the number the earlier runs have left
  in the free-running kernels (`FirstId`) is chosen so that the three requests in
  flight lie on both sides of the wrap.
- *Lists*: no line, part of one, several, and a boundary at each end. A list is
  read by a loop without memory of its length, so more lines repeat these steps.
  In `SetIntersect` two lines of the previous list cover every state of the state
  machine; three lines are the finding.
- *Reservoir*: two lines of two words give every order of weighted words across a
  line boundary, and `RngMod = 6` divides by every total weight the lists that are
  compared have, so shares are exact.
- `ring` and `walks` have whole bursts, because other numbers of queries break
  `PathsInOrder` (section 5), and `burst` has lists whose long bursts are whole lines,
  because the other case is the finding `burst_mask`; `weights` leaves out previous lists
  of three lines for the same reason, and vertex 0, which `walks` has.
- *Walks*: both graphs have a vertex 0 with one neighbour; a list without any weight
  needs a step to a neighbour of 0 alone. The first `prev` (10 in the code) is a vertex
  other than 0, as it is there.
- *Source cache*: work that goes over twice the lines of a cache, shares blocks between
  packets and leaves a gap. `OutDepth` is the 2 of the code; with 1 the PEs lock up. `LoadBurst` is 1,
  which allows every number of packets; a larger one would only leave out some. Gaps
  after which a PE would be shown a line it has no room for are left out (section 5).
- *Graph*: three lines give doubled, turned and parallel edges, a loop, a triangle with a
  missing side and an isolated vertex, lists of up to three entries for a search that
  halves from two on; six operations are load, store, label, load, relabel, and one more.
- Lists in `SetIntersect` are sorted and free of duplicates, as
  `host/xgraph/graph.cpp` makes them: that is `CsrIsGraph` of `XGraph`.
- `Wrs` uses modulus 4 for the sum and 2 for the random numbers: it is about
  pairing, and any numbers do. `MCAlgorithms` has a second instance of `Reservoir`, `Exact`,
  for what is about the numbers.

`srccache` turns off the deadlock check: its kernels wait for the next run for ever, and
after `MaxRuns` there is none; that they do not wait before is `EveryRunAnswered`. Every
other run checks for deadlock; when no request is left an `Idle` step (or `HostDone`,
`HostEnds`) stands for the wait for more work. In `algorithms` a behaviour is of the
sampler or of the graph, which share no variable; `Rest` lets the graph and the inputs stop,
and is never enabled while lines are in the pipeline.

### Fairness

Weak fairness on the steps of each kernel and on the restart by the host, none on
new requests. A kernel is a circuit of its own that is never preempted: if it can
read, compute or write, it does so in a bounded number of cycles. The memory
answers every request, and the host's `finish` returns when the kernels have. No
strong fairness is needed: a stream has one writer and one reader, so a step that
has become possible stays possible until it is taken. `LeakFreeRunsEnd` adds to
this the condition that no slot is leaked, which is the finding `ring_leak`. `SrcCache`
has one weak fairness condition for all its kernels together and the start of a run,
which asks for less: some kernel that can move does.

## 4. What is proved

The theorems hold for every value of the constants that the named assumptions allow.

| Module | Theorem | Statement |
|---|---|---|
| `QueryRingProofs` | `TypeCorrect` | `Spec => []TypeOK` |
| | `RingInvariant` | `Spec => []RingInv`, given `Aligned` |
| | `SlotsAreOwned` | no two walks share a slot, and a slot in use is marked |
| | `LoopAlwaysFits` | the loop holds at most `RingSize` queries |
| | `LabelsMeetTheirSteps` | labels and steps stay paired |
| | `RunsEndClean` | when a run ends every query has finished and every stream is empty |
| | `FinalLapsAreDead` | a lap that carries the `last` flag never loads from the graph |
| | `EveryLapCounted` | `Spec => []CountInv` |
| | `StepCountIsExact` | `StepsCounted`: the result of a run is queries times steps |
| | `PathsAppearInOrder` | `PathsInOrder`, an action property: queries enter `ring_manager.out` in the order they were loaded |
| `DacCacheProofs` | `CacheInvariant` | `Spec => []CacheInv` |
| | `Coherence` | `CacheCoherent` |
| | `LookupRefinement` | `ImplementsLookup`: the loader and its cache implement `OrderedService` |
| `DynBurstProofs` | `BurstInvariant` | `Spec => []BurstInv` |
| | `BurstRestart` | `CleanRestart`: nothing is left in streams and registers when a run starts, and the numbers agree |
| | `BurstRefinement` | `ImplementsService`: the engines and the merges implement `OrderedService`, given `LongBurstsFit` |
| | `BurstShown` | `NeighboursShown`: the sampler sees every neighbour and no other word, given `LongBurstsWhole` |
| `WrsProofs` | `LinesStayTogether` | `Spec => []WrsInv` |
| | `SampleOfTheList` | `SampleIsOfItsList`: the pipeline computes `SampleOf` of each list |
| | `SampleWithLabel` | `SampleHasLabel` |
| `PairFetchProofs` | `PairInvariant` | `Spec => []PairInv` |
| | `PairRefinement` | `ImplementsSteps`: the two Node2Vec engines and the kernels around them implement `OrderedService` |
| | `PairRestart` | `CleanRestart`: nothing is left in streams and registers when a run starts |
| `WalkLoopProofs` | `WalksOnTrack` | `WalkSpec => []TrackInv` |
| | `PrevIsAlwaysNeighbour` | `PrevIsNeighbour` |

### Assumptions

`Aligned`, that the queries fill whole bursts of `step_loader`, is a hypothesis of every
theorem about `QueryRing` except `TypeCorrect`; section 5 shows that it is needed.
`LongBurstsFit` is a hypothesis of `BurstRefinement`: a list that ends with a long burst ends
with a memory line. `LongBurstsWhole`, the hypothesis of `BurstShown`, says also that a list
with a long burst begins with a line. Finding 2 is what happens otherwise: the run
`burst_mask` has a list of either kind and breaks `NeighboursShown`. The lists of the run
`burst` satisfy both. `BurstInvariant` and `BurstRestart` need neither. All else
is assumed of the constants, in the modules that declare them, and evaluated by TLC on
every run:

- `SizeAssumption`, `WalkAssumption` (a walk has at least two steps and fits the nine bits
  of `metapath_sm`), `DepthAssumption` (every stream has a place) of the ring;
- `CacheAssumption`: every vertex has a descriptor, and the cache an entry (the depths of
  the streams do not matter);
- `BurstAssumption` (every stream has a place, a line a word, a long burst two lines),
  `IdAssumption` (no more requests in flight than there are numbers) and
  `DynamicIdAssumption` (nor more commands than the streams hold) of `DynBurst`;
- `StepAssumption` (every vertex of a step has a descriptor, and a walk without a previous
  vertex is at no vertex), `PairDepthAssumption` (every stream has a place, a line a word)
  and `PairIdAssumption` (no more steps in flight than there are numbers) of `PairFetch`;
- `ReservoirAssumption` (a line has a word, and a sum more than one value: it has 32 bits)
  and `LabelAssumption` (0, the word of a masked neighbour, is no label);
- `JobAssumption`: the graphs are closed and symmetric, as `CsrIsGraph` of `XGraph` says, and
  queries start at vertices with a neighbour, as `accinit.h` selects them;
- `RecordAssumption`: the queries fill whole bursts and the records whole groups, and the
  first `prev` is not 0.

### The ring

That a run ends clean is not inductive by itself:
`ring_manager` stops on the return of one flagged query, so one has to know that
the query loaded last is also the last to finish. `Loop` is the sequence of all
queries on the ring in the order they will reach `ring_manager`, and `Laps` the laps
each has left. `RingInv` is the conjunction of

- `NewInv`: `new_query` holds the queries not yet issued, in order;
- `WalkInv`: laps are in range, and the flags of the last query are where they
  belong;
- `OrderInv`: of two queries on the loop, the one issued first has no more laps left,
  and strictly fewer if it is behind the other;
- `AccountInv`: an issued query is on the loop or finished, never both;
- `PathInv`: `origin`, `query` and `input` hold the same steps in the same order;
- `SlotOwnership`, `FinalLapIsDead`, `ReleaseInv`, `DoneInv`, `TypeOK`.

When the flagged query comes back with no lap left, `OrderInv` says that no query
can be left behind it on the loop: one issued earlier would have fewer laps than
none, and none was issued later. `AccountInv` then says that all have finished.
`LoopFits` follows from `SlotOwnership` by the pigeonhole principle
(`FiniteSetTheorems`). There is one lemma for each action; `StreamLemmas` has the
facts about popping from, pushing to and moving within a chain of streams.
`RingInv` is also an invariant of the run `ring`.

`CountInv` adds the set `Done` of pairs of a query and a lap it has made, and says that the
counter of `fetch_next` is the number of its elements. One lap of `fetch_next` adds one pair
that was not there, every other step leaves `Done` alone, and when the run is over `RingInv`
leaves no query on the loop, so that `Done` is the whole rectangle of queries and laps.

### The cache

`vcache_vd` and `vcache_update` each pop a packet and an answer of the memory, and compare
nothing. Coherence alone is therefore not inductive: it needs that a packet which missed is
popped together with the answer for *its* vertex, on two ways that move independently.
`CacheInv` says so for both ways (`Paired(ToVd, DataVd, vertex_cmd)` and
`Paired(ToUpdate, DataUpdate, vertex_cmd)`): first the answers and then the commands not yet
executed belong to the packets by position. A packet that a duplicator has written to one
output only (`half`) is on one of the two ways and no longer on the other. `Waiting` adds
that the packets to `vcache_vd` and the input are the lookups not answered, which gives the
refinement: `Request` asks, `VcacheVd` answers, all other steps stutter.

### The sampler

Ten streams carry parts of the same lines, none of them with a name. `WrsInv` says that
*there is* a sequence `F` of lines in flight such that each stream is the image of a part of
`F` (`Streams`), each line continues the list of the one before (`Linked`), the lists are
numbered in order and those not sampled are in `lists` (`Numbered`, `Listed`), and what
`perfix_sum` and `sample` carry from line to line is what the arithmetic gives for the lines
that have passed (`Carried`). `F` is a witness and no variable of the model: `LabelFilter`
appends a line to it, `Sample` removes one, the other kernels move the bounds of the
parts. With it, the sample of a list is `SampleOf` of the list by definition.

`SampleOf` and the prefix sums are recursive functions. `ReservoirLemmas` proves by
induction that a line is one step of them (`AfterExtends`) and that a list with a word of
weight has a selection, which is such a word (`LabelledExtends`): the first word of weight 1
is selected because its scaled sum is 0, and wrapping of the sum can change which word is
selected later and never whether one is. Induction uses the well-foundedness of the naturals
through a *set* of counterexamples (`SetInduction`), so that no operator has to be
instantiated.

### The dynamic burst engine

Three kernels count requests, lists and commands, three merges compare numbers that wrap, and
the lines of one list can be in two engines at once. `BurstInv` says that *there is* a
history that gives every number and every packet its meaning:

- `f`: the requests, the lists (requests that have a neighbour), how many lists there are
  before a request, and the first request not answered, not scheduled and not asked for
  (`Requests`, `Numbering`); `w`, the requests without a list that wait in `update`
  (`Empties`);
- `u`, `a` and `y`: the commands of the three engines, each with its list, its first line and
  its number, unwrapped (`Singles`, `Commands`); `y` also has the lines of the long bursts
  (`LongLines`); `v`, the lists of `cmd_generator` (`Vds`, `Generated`);
- `c`: for every number of a command the place in the lists it starts from. A command starts
  from the place behind the command before it (`CmdTagged`, `Ordered`), whichever engine
  either of them is for, and each number between the two ends is the number of one command
  (`Counted`);
- `g` and `o`: the lines behind `intra_merge` and behind `inter_merge`, in the order they pass,
  each from the place behind the line before (`Merged`, `Out`);
- `Linked` and `Joined`, which say how the places of two neighbouring kernels meet: the
  merge is at the place its next command or list starts from, or in the middle of it.

As in the sampler and the Node2Vec engines every stream holds what lies between the places of
its reader and its writer, and the history is existentially quantified, no variable of the
model. A merge that takes a packet compares the wrapped number only. That the packet is the
next one follows from `SameRemainder`: at most `IdMod` numbers lie between the two ends,
because of the places the streams have for commands (`DynamicIdAssumption`) and of the
requests in flight (`IdAssumption`). From `Sampled` then follows that `sample` has been shown
the lines of its list below the one it is at (`BurstShown`), and that the packets in
`next_vertex` are answers to the lists not answered, in order (`BurstRefinement`); the
packets of `update` have the other numbers. `Shows` has the two hypotheses on long bursts
inside the invariant, so that the order of the lines and the end of a run are proved
without them. `Stops` follows the stop packets: one for each engine, behind everything else
of the run, so that all places have met when the engines have stopped (`BurstRestart`).

### The Node2Vec burst engines

A step leaves `step_duplicator` on two streams, is split into a current and a previous
vertex, and goes on three ways (`sta_*`, `si_*`, `assert_*`) that do not know of each other.
Only the packets of the current list carry a number, and it wraps; the weight kernels pair
everything else by position. So the invariant cannot compare names. `PairInv` says that
*there is* a history `g` of what was asked so far:

- `H`, the steps by number, `S`, the lists (the steps that have a current neighbour) by
  number, and `B`, how many lists there are before a step (`Numbering`);
- the places every kernel has come to in it, in steps, lists or vertices (`Bounds`);
- `F` and `U`, the lines either engine was told to read, each the one behind the line
  before (`StaLines`, `SiLines`);
- how many stop packets are on the streams that can carry one (`StaStops`, `SiStops`): one
  at a time on each of the two ways, behind everything else of the run.

Every stream then holds just what lies between the places of its reader and its writer
(`Holds`). `SeenCurr` and `SeenPrev` say what the weight kernels know in the middle of a
list, and from `Sampled` and `Updated` follows what `sta_update_merge` needs: the packet
that has the number it waits for is of the oldest step, because the steps in flight are
fewer than the numbers. `g` is existentially quantified and no variable of the model:
`DuplicateCurr` extends `H`, `B` and `S` by a step, the command generators extend `F` and
`U` by a line, and the other steps move a place. `PairRefinement` has one case for
`DuplicateCurr`, which asks, one for `StaUpdateMerge`, which answers, and one for all other
steps, which leave both streams alone. At the end of a run the places of all kernels are the
same, so that all streams are empty, which is `PairRestart`.

### The Node2Vec loop

A walk carries its previous vertex, and the weights of the next step depend on it.
`TrackInv` says that every walk in every stream is `OnTrack`: it is at a vertex with a
neighbour, it is dead on its final lap and not before, and it carries a neighbour from the
second lap on; and that answers and questions belong to the walks in `origin` by position
(`Answered`). Symmetry of the graph keeps a walk alive: the vertex it came from is a
neighbour. The theorem is about Node2Vec jobs, as `PrevIsNeighbour` is.

TLC checked `CountInv` (54 080 states), `CacheInv` (95 399), `TrackInv` (104 895) and,
with their histories as variables, `WrsInv` (1 003 569), `PairInv` (155 816) and `BurstInv`
(453 712) on the instances of the runs before they were proved.

### Only model-checked

- Liveness: `LeakFreeRunsEnd`, `Progress`, `EveryListSampled`, `EveryStepWeighed`,
  `EveryRunAnswered`, `WalkRunsEnd`. Fairness and `ENABLED` are outside what the provers do.
- `PathsAreWalks`, `StepsFollowEdges`, `WalksEndClean` of `WalkLoop`, which join the argument
  of `RingInv` with the count of the records and the uniform walk, and are defined
  with folds and cuts of sequences.
- `Proportional`, `SampleHasWeight`, `ChunksAreRight` and the invariants of `XGraph`: what
  folds and sums over whole lists compute, compared with a second definition.
- `WeightsAreExact` does not hold for every value of the constants; the finding
  `weights_long` is its counterexample.
- The other properties of `SetIntersect` and `SrcCache`, which are what section 7 leaves to do.

## 5. Findings

1. **A slot is lost** (`ring_leak`, `src/ring_manager/ring_manager.cpp:168`). A query
   finishes while `new_query` is empty, so the reset of its slot is noted in
   `slot_update_*`; if a query arrives before the second poll of the same iteration
   and the slot under the ring counter is free, its insertion overwrites the note.
   The slot stays marked for the rest of the run, and when the counter reaches it no
   waiting query is inserted any more.
2. **The mask of long bursts** (`burst_mask`, `src/sdyburst/dynamic_burst_32.h:47`). The
   bounds are compared with the address of the first line for all 32 lines.
3. **A forgotten match** (`weights_long`, `src/isne_x16/neighbor_mask.cpp:237`). Once the
   current list has ended, each further line of the previous list overwrites the
   result for the last neighbour.
4. **A partition over the target** (`partition_bound`, `host/xgraph/graph.cpp:628`).
   `sequential_partition` starts a partition with the vertex that goes over the target,
   whatever its own degree, so a vertex with more edges than the target makes a partition
   with more: the vertex 1 of the edges 0-1, 2-1, 3-1 with a target of 2. The comment at
   `host/xgraph/graph.h:293` says that the degree sum of a partition is no more.

Limits of the code that the models take as assumptions, with what happens outside them:

- *Whole bursts of queries* (`src/step_loader/step_loader.cpp:46`, `Aligned`). With a number
  of queries that is not a multiple of the burst, packets made from the memory behind the
  array follow the flagged one and are the first of the next run: `QueryRing` with three
  queries and bursts of two breaks `PathsInOrder`.
- *Work without large gaps for the source cache* (`src/src_cache/src_cache_access.cpp:244`).
  With caches of four lines and blocks of two, a packet for the lines 0, 1, 4, 5 is
  answered with 4, 1, 4, 5.
- *One place behind the degrees* (`host/kernel/load_graph.h:81`, `host/kernel/accinit.h:113`).
  `query_array` is filled up to and including `degree(num_vertices)`; the models take
  that word for 0. Any other value adds a start vertex that is not in the graph.
- *Whole bursts of packets for the source cache* (`test/test_common/test_common.h:216`,
  `SourceAssumption`). The loader reads 64 packets at a time; the host asks for 128. With
  another number it would send the memory behind the vertices as vertices, for which no
  store waits.
- *A fresh Graph for every load, a fresh directory for every store* (`XGraph`). `store_csr`
  leaves an older partition file in place; after `relabel` the members `offset_pair_`,
  `node_with_max_degree_`, prefix sums and alias tables are still those of the old
  numbers, and the partitions may be wrong, as the comment of `relabel` says.
- *A chunk without edges* (`host/gp/graph_partition.cpp:240`), possible with several
  sub-partitions, is filled with the word in front of its array.

## 6. Not modelled

- *Random number generators*: correctness is statistical; the models allow any
  number.
- *OpenCL and XRT set-up, command line, logs, text formats*: input and output without
  state of its own.
- *Prefix sums, alias tables and maximum weights* of `xgraph`: read and written as blocks,
  used by no kernel. *Other graph loaders* (`host/graph`, `graph_sort`, `graph_reorder`):
  variants of `gp/graph.cpp` in conversion tools; the loop of `CSR::CSR` in `host/graph`
  runs one vertex too far.
- *Test and benchmark kernels* (`mem`, `step_cycle`, `step_recorder`, `vcache`,
  `coalesce_ood.h`, `coalesce_test.h`): in neither accelerator, or in no design at all.
- *The code generator* in `automation`: a build-time text tool, in which a model would
  repeat the code.
- *Timing*: clock cycles, pipelines, latency counters. `empty_stream` of the cache
  gives up after 4095 empty polls; in the model it may give up whenever the stream is
  empty, also with an update still on its way.

The definitions stand for about an eighth of the implementation's lines. Half of those
lines are the vendored `sparsepp` and two copies of a table of 4 096 constants; most of
the rest are hosts and kernels of the test designs, several copies of the same file with
other widths, and second halves of kernel files behind `#if 0`. The kernels of the three
walk designs are modelled completely.

## 7. Plan

Done: all models; the proofs of section 4 about the ring, the cache, the sampler, the
dynamic burst engine, the Node2Vec burst engines and the Node2Vec loop. To come, in this order:

1. **Proofs**: `ListsEndTogether` of `SetIntersect`; the windows of `SrcCache`.
2. **Composition**: `QueryRing` with `SamplePath` replaced by `DacCache` and `DynBurst`
   through `OrderedService`, to discharge the assumption of `SamplePath` inside one
   specification.
