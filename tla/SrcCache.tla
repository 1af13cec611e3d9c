------------------------------ MODULE SrcCache ------------------------------
(***************************************************************************)
(* The source-cache prototype: property values of a sorted stream of       *)
(* source vertices, each read from memory once.                            *)
(*                                                                         *)
(*   loader --+-- coalesce -- src_cache_read_engine                        *)
(*            |                     | cache lines, in order                *)
(*            |                     v                                      *)
(*            +-- src_buffer     PE 0 --> PE 1 --> ... --> sink            *)
(*                    |           ^ |      ^ |                             *)
(*                 src_dispatch --+-|------+ |                             *)
(*                                  +--------+----> src_merge -- store     *)
(*                                                                         *)
(* coalesce turns the vertices into commands, one per block of Burst       *)
(* memory lines; the read engine reads the blocks; every line goes past    *)
(* every PE, and a PE keeps a direct-mapped window of them.  What a PE is  *)
(* asked and which lines it is shown come over two streams that know       *)
(* nothing of each other: a PE must not take a line that overwrites one it *)
(* still needs, nor refuse one that the PE behind it is waiting for.       *)
(*                                                                         *)
(* A vertex is represented by the number of its memory line, the contents  *)
(* of a line by that number too: where in the line a value stands plays no *)
(* part.  A PE's loop iteration is one action; its two reads find what is  *)
(* in the streams at that moment (read_nb).  The valid registers of        *)
(* merge_same_item are the heads of its input streams.                     *)
(***************************************************************************)
EXTENDS Integers, Sequences, SequencesExt

CONSTANTS
    NumPE,      \* NUM_OF_PE (8)
    Burst,      \* CACHE_UPDATE_BURST (8): lines in a block
    CacheLines, \* lines of a PE's cache (4096)
    Token,      \* line of the vertex 0xFFFFFFFF
    LoadBurst,  \* BURST_BUFFER_SIZE (64): packets the loader reads at a time
    Workloads,  \* what the host may ask in a run: sequences of packets
    OutDepth,   \* depth of out_stream (2)
    Depth,      \* depth of the other streams
    MaxRuns     \* bound on the number of runs

Width == 2 * NumPE                \* vertices in a packet (16)
PEs == 0 .. NumPE - 1
Lines == 0 .. Token - 1
Packets == [1 .. Width -> Lines]
BlockOf(l) == l \div Burst
EndBlock == BlockOf(Token)

\* the vertices of a run in one sequence
Flat(w) == FlattenSeq(w)

\* the edges of a partition are sorted by source; the vertex 0xFFFFFFFF, and
\* those of its block, are not in the graph; no run is empty; the host asks for whole
\* bursts of the loader (num_of_data is 16 * 128), so that nothing is read from the
\* memory behind the vertices
ASSUME SourceAssumption ==
    /\ NumPE \in Nat \ {0} /\ Burst \in Nat \ {0} /\ Token \in Nat
    /\ CacheLines \in Nat \ {0} /\ Depth \in Nat \ {0} /\ MaxRuns \in Nat
    /\ LoadBurst \in Nat \ {0}
    /\ \A w \in Workloads :
         /\ w \in Seq(Packets) /\ w # <<>> /\ Len(w) % LoadBurst = 0
         /\ \A i \in 1 .. Len(Flat(w)) :
              /\ BlockOf(Flat(w)[i]) # EndBlock
              /\ i > 1 => Flat(w)[i - 1] <= Flat(w)[i]

\* a PE has room for its two answers to a packet: with less, a PE waits for the
\* answers of the PE in front, and that one for room to pass its lines on
ASSUME OutAssumption == OutDepth \in Nat /\ OutDepth >= 2

VARIABLES
    runs,       \* runs the host has started
    work,       \* packets of this run
    fed,        \* packets the loader has sent, the end token included
    src_in,     \* loader -> coalesce
    single,     \* src_to_address -> merge_same_item, one stream per vertex
    inner,      \* merge_same_item -> the next one, the last one -> filter
    mstate,     \* merge_same_item: curr_state
    last_item,  \* filter_same_item: last_item, -1 in ST_INIT
    asked,      \* origin: commands of this run so far
    cmd,        \* coalesce -> src_cache_read_engine
    engine,     \* read_with_request: [run, todo: lines to write, last_addr]
    sv_in,      \* loader -> src_buffer
    last_pkg,   \* src_buffer: last_pkg, <<>> when there is none
    sv_frp,     \* src_buffer -> src_dispatch
    half,       \* src_dispatch: the packet whose second half is to be written
    sv,         \* src_dispatch -> PE
    cl,         \* cache lines: cl[i] into PE i, cl[NumPE] into the sink
    pe,         \* registers of the PEs
    prop,       \* caches of the PEs
    out,        \* PE -> src_merge
    got,        \* src_merge: the first half of its packet
    stored      \* packets stored in this run

coalesceVars == <<src_in, single, inner, mstate, last_item, asked, cmd>>
bufferVars   == <<sv_in, last_pkg, sv_frp, half>>
peVars       == <<pe, prop>>
vars == <<runs, work, fed, coalesceVars, engine, bufferVars, sv, cl, peVars, out,
          got, stored>>

-----------------------------------------------------------------------------
\* contents of a line the read engine makes up, and of a slot never written
Zero == -1
Unwritten == -2

\* src_cache_pe_frp at the top of free_run
PeStart ==
    [sv |-> 0, last |-> FALSE, sv_ready |-> FALSE, required |-> 0, min |-> 0, max |-> 0,
     tb_valid |-> FALSE, tb |-> 0, data |-> Zero, need |-> FALSE,
     end_of_sv |-> FALSE, end_of_ca |-> FALSE]

Init ==
    /\ runs = 0 /\ work = <<>> /\ fed = 0
    /\ src_in = <<>> /\ cmd = <<>> /\ asked = <<>> /\ last_item = -1
    /\ single = [j \in 1 .. Width |-> <<>>]
    /\ inner = [k \in 1 .. Width - 1 |-> <<>>]
    /\ mstate = [k \in 1 .. Width - 1 |-> "SRC1"]
    /\ engine = [run |-> FALSE, todo |-> <<>>, last_addr |-> 0]
    /\ sv_in = <<>> /\ last_pkg = <<>> /\ sv_frp = <<>> /\ half = <<>>
    /\ sv = [i \in PEs |-> <<>>] /\ out = [i \in PEs |-> <<>>]
    /\ cl = [i \in 0 .. NumPE |-> <<>>]
    /\ pe = [i \in PEs |-> PeStart]
    /\ prop = [i \in PEs |-> [s \in 0 .. CacheLines - 1 |-> Unwritten]]
    /\ got = <<>> /\ stored = <<>>

Room(s) == Len(s) < Depth

-----------------------------------------------------------------------------
(* The host and the loader                                                 *)

\* mutant: the window is one line too long
PeNeedsOneMore(p) == [p EXCEPT !.need = @ \/ p.required + CacheLines >= p.max]

\* the cache may move on: the oldest line is not required any more
PeNeeds(p) == [p EXCEPT !.need = @ \/ p.required + CacheLines > p.max]

\* every PE has left its loop and no line is on the way
Drained ==
    /\ \A i \in PEs : PeNeeds(pe[i]) = PeNeeds(PeStart)
    /\ \A i \in 0 .. NumPE : cl[i] = <<>>

RunOver == ~engine.run /\ Len(stored) = Len(work)

\* The host starts the loader, the engine and the store and waits for the three.
\* They return while the last line may still be on its way through the PEs: that
\* takes cycles, and the next run the microseconds of the host.
StartRun ==
    /\ runs < MaxRuns /\ RunOver /\ Drained
    /\ \E w \in Workloads : work' = w
    /\ runs' = runs + 1 /\ fed' = 0 /\ asked' = <<>> /\ stored' = <<>>
    /\ engine' = [run |-> TRUE, todo |-> <<>>, last_addr |-> 0]
    /\ UNCHANGED <<src_in, single, inner, mstate, last_item, cmd, bufferVars, sv, cl,
                   peVars, out, got>>

\* packets test_mem_loader_end_token sends before the end token: its loop goes by bursts
Loaded == LoadBurst * ((Len(work) + LoadBurst - 1) \div LoadBurst)

\* test_mem_loader_end_token, and test_duplicate_512 behind it
Load ==
    /\ fed < Loaded + (IF runs > 0 THEN 1 ELSE 0)
    /\ Room(src_in) /\ Room(sv_in)
    /\ LET p == IF fed < Loaded THEN [data |-> work[fed + 1], last |-> FALSE]
                ELSE [data |-> [j \in 1 .. Width |-> Token], last |-> TRUE]
       IN  src_in' = Append(src_in, p) /\ sv_in' = Append(sv_in, p)
    /\ fed' = fed + 1
    /\ UNCHANGED <<runs, work, single, inner, mstate, last_item, asked, cmd, engine,
                   last_pkg, sv_frp, half, sv, cl, peVars, out, got, stored>>

-----------------------------------------------------------------------------
(* coalesce                                                                *)

SrcToAddress ==
    /\ src_in # <<>> /\ \A j \in 1 .. Width : Room(single[j])
    /\ single' = [j \in 1 .. Width |->
                    Append(single[j], [block |-> BlockOf(Head(src_in).data[j]), last |-> TRUE])]
    /\ src_in' = Tail(src_in)
    /\ UNCHANGED <<runs, work, fed, inner, mstate, last_item, asked, cmd, engine, bufferVars,
                   sv, cl, peVars, out, got, stored>>

\* merge_same_item number k joins what its predecessor made of the vertices before
\* with the next vertex; the last item of a packet is marked
Merge(k) ==
    LET first == IF k = 1 THEN single[1] ELSE inner[k - 1]
        second == single[k + 1]
        same == Head(first).last /\ Head(first).block = Head(second).block
        write(b, l) == inner' = [x \in DOMAIN inner |->
                                   CASE x = k -> Append(inner[x], [block |-> b, last |-> l])
                                     [] x = k - 1 /\ mstate[k] = "SRC1" -> Tail(inner[x])
                                     [] OTHER -> inner[x]]
    IN  /\ second # <<>> /\ Room(inner[k])
        /\ \/ /\ mstate[k] = "SRC1" /\ first # <<>>
              /\ write(Head(first).block, same)
              /\ single' = [single EXCEPT ![1] = IF k = 1 THEN Tail(@) ELSE @,
                                          ![k + 1] = IF same THEN Tail(@) ELSE @]
              /\ mstate' = [mstate EXCEPT ![k] =
                              IF Head(first).last /\ ~same THEN "SRC2" ELSE "SRC1"]
           \/ /\ mstate[k] = "SRC2"
              /\ write(Head(second).block, TRUE)
              /\ single' = [single EXCEPT ![k + 1] = Tail(@)]
              /\ mstate' = [mstate EXCEPT ![k] = "SRC1"]
        /\ UNCHANGED <<runs, work, fed, src_in, last_item, asked, cmd, engine, bufferVars, sv,
                       cl, peVars, out, got, stored>>

\* mutant: the filter compares with the first item for ever
FilterKeepsFirst ==
    LET last == Width - 1
        b == Head(inner[last]).block
    IN  /\ inner[last] # <<>> /\ Room(cmd)
        /\ inner' = [inner EXCEPT ![last] = Tail(@)]
        /\ last_item' = IF last_item = -1 THEN b ELSE last_item
        /\ IF b = last_item THEN UNCHANGED <<cmd, asked>>
           ELSE cmd' = Append(cmd, b) /\ asked' = Append(asked, b)
        /\ UNCHANGED <<runs, work, fed, src_in, single, mstate, engine, bufferVars, sv, cl,
                       peVars, out, got, stored>>

\* filter_same_item and single_to_cmd
Filter ==
    LET last == Width - 1
        b == Head(inner[last]).block
    IN  /\ inner[last] # <<>> /\ Room(cmd)
        /\ inner' = [inner EXCEPT ![last] = Tail(@)]
        /\ last_item' = b
        /\ IF b = last_item THEN UNCHANGED <<cmd, asked>>
           ELSE cmd' = Append(cmd, b) /\ asked' = Append(asked, b)
        /\ UNCHANGED <<runs, work, fed, src_in, single, mstate, engine, bufferVars, sv, cl,
                       peVars, out, got, stored>>

-----------------------------------------------------------------------------
(* src_cache_read_engine                                                   *)

Line(addr, data, last) == [addr |-> addr, data |-> data, last |-> last]

BlockLines(b) == [n \in 1 .. Burst |-> Line(b * Burst + n - 1, b * Burst + n - 1, FALSE)]

\* two more lines end the stream, the second one marked
EndLines(last_addr) == <<Line(last_addr + 1, Zero, FALSE), Line(last_addr + 2, Zero, TRUE)>>

\* command_convert and the command read_with_request takes
Command ==
    /\ engine.run /\ engine.todo = <<>> /\ cmd # <<>>
    /\ engine' = IF Head(cmd) = EndBlock
                 THEN [engine EXCEPT !.todo = EndLines(engine.last_addr)]
                 ELSE [engine EXCEPT !.todo = BlockLines(Head(cmd)),
                                     !.last_addr = Head(cmd) * Burst + Burst - 1]
    /\ cmd' = Tail(cmd)
    /\ UNCHANGED <<runs, work, fed, src_in, single, inner, mstate, last_item, asked,
                   bufferVars, sv, cl, peVars, out, got, stored>>

\* a line is read and written out; the kernel returns after the marked one
ReadLine ==
    /\ engine.todo # <<>> /\ Room(cl[0])
    /\ cl' = [cl EXCEPT ![0] = Append(@, Head(engine.todo))]
    /\ engine' = [engine EXCEPT !.todo = Tail(@), !.run = ~Head(engine.todo).last]
    /\ UNCHANGED <<runs, work, fed, coalesceVars, bufferVars, sv, peVars, out, got, stored>>

-----------------------------------------------------------------------------
(* src_buffer and src_dispatch                                             *)

\* mutant: the end token stays in last_pkg
SrcBufferKeepsToken ==
    /\ sv_in # <<>>
    /\ IF last_pkg = <<>> THEN UNCHANGED sv_frp
       ELSE /\ Room(sv_frp)
            /\ sv_frp' = Append(sv_frp, [data |-> Reverse(last_pkg), last |-> Head(sv_in).last])
    /\ last_pkg' = Head(sv_in).data
    /\ sv_in' = Tail(sv_in)
    /\ UNCHANGED <<runs, work, fed, coalesceVars, engine, half, sv, cl, peVars, out, got, stored>>

\* a packet is held until the next one tells whether it is the last; packets
\* leave in reverse order of vertices
SrcBuffer ==
    /\ sv_in # <<>>
    /\ IF last_pkg = <<>> THEN last_pkg' = Head(sv_in).data /\ UNCHANGED sv_frp
       ELSE /\ Room(sv_frp)
            /\ sv_frp' = Append(sv_frp, [data |-> Reverse(last_pkg), last |-> Head(sv_in).last])
            /\ last_pkg' = IF Head(sv_in).last THEN <<>> ELSE Head(sv_in).data
    /\ sv_in' = Tail(sv_in)
    /\ UNCHANGED <<runs, work, fed, coalesceVars, engine, half, sv, cl, peVars, out, got, stored>>

\* PE i gets vertices 2i+1 and then 2i of the reversed packet
SrcDispatch ==
    /\ \A i \in PEs : Room(sv[i])
    /\ IF half = <<>>
       THEN /\ sv_frp # <<>>
            /\ half' = <<Head(sv_frp)>> /\ sv_frp' = Tail(sv_frp)
            /\ sv' = [i \in PEs |-> Append(sv[i], [v |-> Head(sv_frp).data[2 * i + 2],
                                                   last |-> FALSE])]
       ELSE /\ half' = <<>> /\ UNCHANGED sv_frp
            /\ sv' = [i \in PEs |-> Append(sv[i], [v |-> half[1].data[2 * i + 1],
                                                   last |-> half[1].last])]
    /\ UNCHANGED <<runs, work, fed, coalesceVars, engine, sv_in, last_pkg, cl, peVars, out,
                   got, stored>>

-----------------------------------------------------------------------------
(* src_cache_pe_frp                                                        *)

Slot(l) == l % CacheLines

\* a vertex is taken when there is none
PeTakesVertex(p, s) ==
    IF p.sv_ready \/ s = <<>> THEN p
    ELSE [p EXCEPT !.sv = Head(s).v, !.last = Head(s).last, !.required = Head(s).v,
                   !.sv_ready = TRUE]

InWindow(p) == p.sv_ready /\ p.min <= p.sv /\ p.sv < p.max

\* mutant: a PE that has answered its last vertex takes no more lines than it can hold
WantsLineOnce(p) == ~p.tb_valid

\* a line is taken into temp_buffer when it is free, and all are once the PE has
\* answered the last vertex
WantsLine(p) == ~p.tb_valid \/ p.end_of_sv

PeTakesLine(p, l) ==
    [p EXCEPT !.tb = l.addr, !.data = l.data, !.tb_valid = TRUE,
              !.end_of_ca = @ \/ l.last]

\* the line of temp_buffer has been written into the cache
PeUpdated(p) ==
    [p EXCEPT !.tb_valid = FALSE, !.need = FALSE,
              !.max = IF @ < p.tb + 1 THEN p.tb + 1 ELSE @,
              !.min = IF p.tb = p.required THEN p.tb ELSE @]

PeAnswered(p) == [p EXCEPT !.sv_ready = FALSE, !.end_of_sv = @ \/ p.last]

PeLeaves(p) == IF p.end_of_ca /\ p.end_of_sv THEN PeStart ELSE p

\* an iteration: the vertex, the line or the update, the answer, the flags
PeStep(i) ==
    LET p == PeTakesVertex(pe[i], sv[i])
        hit == InWindow(p)
        takes == WantsLine(p) /\ cl[i] # <<>>
        updates == ~WantsLine(p) /\ p.need
        p1 == CASE takes -> PeTakesLine(p, Head(cl[i]))
                [] updates -> PeUpdated(p)
                [] OTHER -> p
        p2 == IF hit THEN PeAnswered(p1) ELSE p1
    IN  /\ hit => Len(out[i]) < OutDepth
        /\ takes => Room(cl[i + 1])
        /\ pe' = [pe EXCEPT ![i] = PeLeaves(PeNeeds(p2))]
        /\ sv' = [sv EXCEPT ![i] = IF pe[i].sv_ready \/ @ = <<>> THEN @ ELSE Tail(@)]
        /\ out' = [out EXCEPT ![i] = IF hit THEN Append(@, [v |-> prop[i][Slot(p.sv)],
                                                            last |-> p.last])
                                     ELSE @]
        /\ cl' = IF takes THEN [cl EXCEPT ![i] = Tail(@), ![i + 1] = Append(@, Head(cl[i]))]
                 ELSE cl
        /\ prop' = IF updates THEN [prop EXCEPT ![i][Slot(p.tb)] = p.data] ELSE prop
        /\ UNCHANGED <<runs, work, fed, coalesceVars, engine, bufferVars, got, stored>>

\* free_run_frp_sink_stream
Sink ==
    /\ cl[NumPE] # <<>>
    /\ cl' = [cl EXCEPT ![NumPE] = Tail(@)]
    /\ UNCHANGED <<runs, work, fed, coalesceVars, engine, bufferVars, sv, peVars, out, got,
                   stored>>

\* src_merge undoes the split, and the store kernel writes the packet
SrcMerge ==
    LET word(j) == IF j % 2 = 0 THEN Head(out[(Width - j) \div 2]).v
                   ELSE got[(Width - 1 - j) \div 2]
    IN  /\ \A i \in PEs : out[i] # <<>>
        /\ IF got = <<>>
           THEN got' = [i \in PEs |-> Head(out[i]).v] /\ UNCHANGED stored
           ELSE /\ stored' = Append(stored, [j \in 1 .. Width |-> word(j)])
                /\ got' = <<>>
        /\ out' = [i \in PEs |-> Tail(out[i])]
        /\ UNCHANGED <<runs, work, fed, coalesceVars, engine, bufferVars, sv, cl, peVars>>

-----------------------------------------------------------------------------
Kernels ==
    \/ Load \/ SrcToAddress \/ (\E k \in 1 .. Width - 1 : Merge(k)) \/ Filter
    \/ Command \/ ReadLine \/ SrcBuffer \/ SrcDispatch
    \/ (\E i \in PEs : PeStep(i)) \/ Sink \/ SrcMerge

Next == StartRun \/ Kernels

Spec == Init /\ [][Next]_vars

\* some kernel that can move does, and the host starts the next run: less than the
\* hardware gives, where every kernel is clocked, and enough, because no kernel can
\* move for ever by itself
FairSpec == Spec /\ WF_vars(StartRun \/ Kernels)

-----------------------------------------------------------------------------
TypeOK ==
    /\ runs \in 0 .. MaxRuns /\ work \in Workloads \union {<<>>} /\ fed \in 0 .. Len(work) + 1
    /\ \A j \in 1 .. Width : Len(single[j]) <= Depth
    /\ \A k \in 1 .. Width - 1 : Len(inner[k]) <= Depth /\ mstate[k] \in {"SRC1", "SRC2"}
    /\ last_item \in -1 .. EndBlock /\ cmd \in Seq(0 .. EndBlock) /\ Len(cmd) <= Depth
    /\ engine.run \in BOOLEAN /\ engine.last_addr \in Lines
    /\ \A i \in 0 .. NumPE : Len(cl[i]) <= Depth
    /\ \A i \in PEs : Len(sv[i]) <= Depth /\ Len(out[i]) <= OutDepth
    /\ \A i \in PEs : pe[i].min <= pe[i].max /\ pe[i].max \in 0 .. Token + 2
    /\ \A i \in PEs : \A s \in DOMAIN prop[i] : prop[i][s] \in Lines \union {Zero, Unwritten}

\* the blocks of a run follow one another
Dense(w) ==
    \A i \in 2 .. Len(Flat(w)) : BlockOf(Flat(w)[i]) <= BlockOf(Flat(w)[i - 1]) + 1

\* AnswersAreRight: every vertex of a packet is answered with the contents of its
\* own line and at its own place, though the PEs' windows move on by themselves
\* and the vertices are dealt to the PEs in reverse.  It is claimed for runs whose
\* blocks follow one another: the window is checked against the lines seen so far
\* and not against the one that is written, so a line behind a gap can overwrite
\* one that is still to be read.
AnswersAreRight == Dense(work) => IsPrefix(stored, work)

\* the commands of a run: a block for every change of block, and the end
Commands(w) ==
    LET b == [i \in 1 .. Len(Flat(w)) |-> BlockOf(Flat(w)[i])]
        changes == SelectSeq([i \in 1 .. Len(b) |-> i], LAMBDA i : i = 1 \/ b[i] # b[i - 1])
    IN  Append([n \in 1 .. Len(changes) |-> b[changes[n]]], EndBlock)

\* EachBlockOnce: the chain of merges and the filter send one command per block,
\* in order and across packets and runs, and lose none.
EachBlockOnce == work # <<>> => IsPrefix(asked, Commands(work))

\* CleanRestart: when the host may start a run nothing of the last one is left in
\* a stream or a register that the next one would find; all along, everything
\* has its type.
CleanRestart ==
    TypeOK /\ (RunOver /\ Drained =>
      /\ src_in = <<>> /\ cmd = <<>> /\ sv_in = <<>> /\ sv_frp = <<>>
      /\ last_pkg = <<>> /\ half = <<>> /\ got = <<>> /\ engine.todo = <<>>
      /\ \A j \in 1 .. Width : single[j] = <<>>
      /\ \A k \in 1 .. Width - 1 : inner[k] = <<>> /\ mstate[k] = "SRC1"
      /\ \A i \in PEs : sv[i] = <<>> /\ out[i] = <<>>)

\* EveryRunAnswered: every run ends with all packets stored and every PE back at
\* the start of its loop, gaps or not: no PE waits for a line that a PE in front of
\* it refuses to pass on.
EveryRunAnswered == <>(runs = MaxRuns /\ RunOver /\ Drained)
=============================================================================
