------------------------------ MODULE PairFetch ------------------------------
(***************************************************************************)
(* How a Node2Vec step gets its two neighbour lists: the one of the        *)
(* current vertex, from which the next one is sampled, and the one of the  *)
(* previous vertex, which the weights are computed from.  They are read by *)
(* two burst engines that know nothing of each other:                      *)
(*                                                                         *)
(*  step_duplicator -- query -- vertex_loader -- vd_dispatch               *)
(*      | assert                                  |       | last           *)
(*      v                  mask                   v       v                *)
(*  assert_filter_woe <--------- sta_vd_scheduler      si_vd_scheduler     *)
(*      |                        |      | update          |                *)
(*      +-> sta_cmd_generator <--+      |            si_cmd_generator      *)
(*      assert |        |               |                 |                *)
(*             |   staburst_core        |            siburst_core          *)
(*             v        v               v                 |                *)
(*            the kernels that weigh  sta_update          |                *)
(*            and sample -----------> _merge              |                *)
(*                      ^---------------------------------+                *)
(*                                                                         *)
(* Nothing that leaves the engines says which step it belongs to: the      *)
(* weight kernels merge the list in front of one stream with the list in   *)
(* front of the other and with the previous vertex in front of a third     *)
(* one.  So a step for which one side reads no list must send none on any  *)
(* side, and the packets that stop the engines must leave nothing behind.  *)
(*                                                                         *)
(* The kernels that weigh and sample (SetIntersect, Wrs) are three actions *)
(* here that read both lists and keep one of the current neighbours; the   *)
(* set of previous vertices and of previous neighbours they met on the way *)
(* goes into the answer.  burst_sync and weight_output of staburst_core    *)
(* are written and read in pairs and are one stream.  A kernel's register  *)
(* is the head of its input stream, as in DynBurst.                        *)
(***************************************************************************)
EXTENDS Integers, Sequences

CONSTANTS
    Steps,        \* the steps of walks, [curr, prev]
    Desc,         \* descriptor [start, size] of a vertex
    LineWords,    \* words in a memory line (16)
    IdMod,        \* numbers wrap at this (2^15)
    FirstId,      \* number the earlier runs have left the generator and the merge
                  \* at: 0 when the device has just been programmed
    MaxInFlight,  \* steps the query ring lets be unanswered (256)
    AssertDepth,  \* depth of the two assert streams (256)
    VdDepth,      \* depth of sta_vd_scheduler.dynamic_burst_vd (16)
    UpdateDepth,  \* depth of sta_vd_scheduler.update (8192)
    LinkDepth,    \* depth of the other streams
    MaxReq        \* bound on the number of steps

\* 0x80000000, the mark of a dead walk, and 0x8000, the number of stop packets
Dead == -1
StopId == -1

Vertices == DOMAIN Desc

\* only the first step of a walk has a previous vertex it did not come from,
\* and a walk that has died stays dead
ASSUME StepAssumption ==
    /\ Vertices \subseteq Nat
    /\ \A v \in Vertices : Desc[v] \in [start: Nat, size: Nat]
    /\ Steps \subseteq [curr: Vertices \union {Dead}, prev: Vertices \union {Dead}]
    /\ \A s \in Steps : s.prev = Dead => s.curr = Dead

ASSUME PairDepthAssumption ==
    /\ AssertDepth \in Nat \ {0} /\ VdDepth \in Nat \ {0}
    /\ UpdateDepth \in Nat \ {0} /\ LinkDepth \in Nat \ {0}
    /\ LineWords \in Nat \ {0} /\ MaxReq \in Nat

\* no two steps in flight have the same number
ASSUME PairIdAssumption ==
    /\ MaxInFlight \in Nat \ {0} /\ IdMod \in Nat /\ IdMod >= MaxInFlight
    /\ FirstId \in 0 .. IdMod - 1

VARIABLES
    asked,       \* steps so far
    half,        \* step_duplicator: the packet of query it has still to write
    query,       \* step_duplicator -> vertex_loader
    assert_in,   \* step_duplicator -> assert_filter_woe
    vl_run,      \* vertex_loader has not returned in this run
    vds,         \* vertex_loader -> vd_dispatch
    last_pkg,    \* vd_dispatch: the descriptor it holds when counter is odd
    current,     \* vd_dispatch -> sta_vd_scheduler
    last,        \* vd_dispatch -> si_vd_scheduler
    sta_stop,    \* sta_vd_scheduler has left dispatch_main
    sync_id,     \* next number of sync_id_gen_instance
    update,      \* sta_vd_scheduler -> sta_update_merge.in1
    assert_mask, \* sta_vd_scheduler -> assert_filter_woe
    sta_vd,      \* sta_vd_scheduler -> sta_cmd_generator
    filtered,    \* assert_filter_woe -> sta_cmd_generator
    sta_line,    \* sta_cmd_generator: lines of its descriptor it has sent
    sta_cmd,     \* sta_cmd_generator -> staburst_core
    assert_out,  \* sta_cmd_generator -> current_mask
    sta_run,     \* staburst_core has not returned in this run
    sta_out,     \* staburst_core -> bs_duplicator and weight_duplicate
    si_vd,       \* si_vd_scheduler -> si_cmd_generator
    si_line,     \* si_cmd_generator: lines of its descriptor it has sent
    si_cmd,      \* si_cmd_generator -> siburst_core
    si_run,      \* siburst_core has not returned in this run
    si_out,      \* siburst_core -> weight_duplicate_4
    seen,        \* the weight kernels and sample: what they have of a step
    next_vertex, \* sample -> sta_update_merge.in2
    update_id,   \* sta_update_merge: current_id
    answer,      \* the packet sta_update_merge wrote last
    pending      \* origin: steps not answered, oldest first

dupVars    == <<asked, half, query, assert_in>>
loaderVars == <<vl_run, vds, last_pkg, current, last>>
staVars    == <<sta_stop, sync_id, update, assert_mask, sta_vd, filtered>>
staCmdVars == <<sta_line, sta_cmd, assert_out, sta_run, sta_out>>
siVars     == <<si_vd, si_line, si_cmd, si_run, si_out>>
outVars    == <<seen, next_vertex, update_id, answer, pending>>
vars == <<dupVars, loaderVars, staVars, staCmdVars, siVars, outVars>>

-----------------------------------------------------------------------------

LineOf(w) == w - (w % LineWords)

Words(d) == d.start .. d.start + d.size - 1

\* nothing seen of a step yet
NothingSeen == [selected |-> Dead, id |-> 0, flag |-> FALSE, previous |-> {},
                against |-> {}, curr_end |-> FALSE, prev_end |-> FALSE]

\* the answer of a vertex without neighbours
NoVertex == [word |-> Dead, previous |-> {}, against |-> {}]

Init ==
    /\ asked = 0 /\ half = <<>> /\ query = <<>> /\ assert_in = <<>>
    /\ vl_run = TRUE /\ vds = <<>> /\ last_pkg = <<>>
    /\ current = <<>> /\ last = <<>>
    /\ sta_stop = FALSE /\ sync_id = FirstId /\ update = <<>>
    /\ assert_mask = <<>> /\ sta_vd = <<>> /\ filtered = <<>>
    /\ sta_line = 0 /\ sta_cmd = <<>> /\ assert_out = <<>>
    /\ sta_run = TRUE /\ sta_out = <<>>
    /\ si_vd = <<>> /\ si_line = 0 /\ si_cmd = <<>> /\ si_run = TRUE /\ si_out = <<>>
    /\ seen = NothingSeen /\ next_vertex = <<>> /\ update_id = FirstId
    /\ answer = [to |-> NoVertex, last |-> FALSE] /\ pending = <<>>

-----------------------------------------------------------------------------
(* step_duplicator: both vertices of a step, one after the other           *)

\* ring_manager lets MaxInFlight walks on the loop, sets the last flag only on
\* a lap that step_update has marked as dead, and nothing follows that lap
\* before the host starts the next run
DuplicateCurr ==
    /\ asked < MaxReq
    /\ half = <<>>
    /\ Len(pending) < MaxInFlight
    /\ \A i \in 1..Len(pending) : ~pending[i].last
    /\ vl_run
    /\ Len(query) < LinkDepth /\ Len(assert_in) < AssertDepth
    /\ \E s \in Steps, l \in BOOLEAN :
         /\ l => s.curr = Dead
         /\ pending' = Append(pending, [vertex |-> s, last |-> l])
         /\ query' = Append(query, [v |-> s.curr, last |-> FALSE])
         /\ assert_in' = Append(assert_in, s.prev)
         /\ half' = <<[v |-> s.prev, last |-> l]>>
    /\ asked' = asked + 1
    /\ UNCHANGED <<loaderVars, staVars, staCmdVars, siVars, seen, next_vertex,
                   update_id, answer>>

DuplicatePrev ==
    /\ half # <<>>
    /\ Len(query) < LinkDepth
    /\ query' = query \o half
    /\ half' = <<>>
    /\ UNCHANGED <<asked, assert_in, loaderVars, staVars, staCmdVars, siVars, outVars>>

-----------------------------------------------------------------------------
(* vertex_loader and vd_dispatch                                           *)

DescOf(v) == IF v = Dead THEN [start |-> 0, size |-> 0] ELSE Desc[v]

VertexLoader ==
    /\ vl_run
    /\ query # <<>>
    /\ Len(vds) < LinkDepth
    /\ query' = Tail(query)
    /\ vds' = Append(vds, [d |-> DescOf(Head(query).v), last |-> Head(query).last])
    /\ vl_run' = ~Head(query).last
    /\ UNCHANGED <<asked, half, assert_in, last_pkg, current, last, staVars,
                   staCmdVars, siVars, outVars>>

\* the first packet of a pair
DispatchCurr ==
    /\ last_pkg = <<>>
    /\ vds # <<>>
    /\ last_pkg' = <<Head(vds).d>>
    /\ vds' = Tail(vds)
    /\ UNCHANGED <<dupVars, vl_run, current, last, staVars, staCmdVars, siVars, outVars>>

\* Mutant of NeedsPrevious: the previous list is always asked for.
NeedsPreviousAlways(d, l) == TRUE

\* a step without current neighbours needs no previous ones; the last one
\* stops si_vd_scheduler
NeedsPrevious(d, l) == d.size # 0 \/ l

\* the second one
DispatchPrev ==
    /\ last_pkg # <<>>
    /\ vds # <<>>
    /\ Len(current) < LinkDepth
    /\ LET in == Head(vds)
           needed == NeedsPrevious(Head(last_pkg), in.last)
       IN  /\ needed => Len(last) < LinkDepth
           /\ current' = Append(current, [d |-> Head(last_pkg), last |-> in.last])
           /\ last' = IF needed THEN Append(last, in) ELSE last
    /\ vds' = Tail(vds)
    /\ last_pkg' = <<>>
    /\ UNCHANGED <<dupVars, vl_run, staVars, staCmdVars, siVars, outVars>>

-----------------------------------------------------------------------------
(* sta_vd_scheduler and assert_filter_woe                                  *)

Succ(i) == (i + 1) % IdMod

\* a descriptor of one line, so that it makes one command
StopVd == [d |-> [start |-> 0, size |-> LineWords], id |-> StopId, last |-> TRUE]

\* a step is given its number, and its assert a mask that says whether there
\* will be a list to go with it
StaSchedule ==
    /\ ~sta_stop
    /\ current # <<>>
    /\ Len(assert_mask) < LinkDepth
    /\ LET p == Head(current)
       IN  /\ \/ /\ p.d.size = 0
                 /\ Len(update) < UpdateDepth
                 /\ update' = Append(update, [id |-> sync_id, to |-> NoVertex, last |-> p.last])
                 /\ UNCHANGED sta_vd
              \/ /\ p.d.size # 0
                 /\ Len(sta_vd) < VdDepth
                 /\ sta_vd' = Append(sta_vd, [d |-> p.d, id |-> sync_id, last |-> p.last])
                 /\ UNCHANGED update
           /\ assert_mask' = Append(assert_mask, [data |-> p.d.size # 0, last |-> FALSE])
           /\ sta_stop' = p.last
    /\ current' = Tail(current)
    /\ sync_id' = Succ(sync_id)
    /\ UNCHANGED <<dupVars, vl_run, vds, last_pkg, last, filtered, staCmdVars,
                   siVars, outVars>>

\* the packets that stop staburst_core, and back to dispatch_main
StaScheduleStop ==
    /\ sta_stop
    /\ Len(sta_vd) < VdDepth /\ Len(assert_mask) < LinkDepth
    /\ sta_vd' = Append(sta_vd, StopVd)
    /\ assert_mask' = Append(assert_mask, [data |-> FALSE, last |-> TRUE])
    /\ sta_stop' = FALSE
    /\ UNCHANGED <<dupVars, loaderVars, sync_id, update, filtered, staCmdVars,
                   siVars, outVars>>

\* the stop mask is passed on; of the asserts only those that have a list
AssertFilter ==
    /\ assert_mask # <<>>
    /\ LET m == Head(assert_mask)
       IN  /\ m.last \/ m.data => Len(filtered) < LinkDepth
           /\ ~m.last => assert_in # <<>>
           /\ assert_in' = IF m.last THEN assert_in ELSE Tail(assert_in)
           /\ filtered' = CASE m.last -> Append(filtered, [prev |-> Dead, last |-> TRUE])
                          [] ~m.last /\ m.data ->
                               Append(filtered, [prev |-> Head(assert_in), last |-> FALSE])
                          [] OTHER -> filtered
    /\ assert_mask' = Tail(assert_mask)
    /\ UNCHANGED <<asked, half, query, loaderVars, sta_stop, sync_id, update, sta_vd,
                   staCmdVars, siVars, outVars>>

-----------------------------------------------------------------------------
(* the command generators                                                  *)

\* the line behind the last neighbour
EndAddr(d) == LET end == d.start + d.size
              IN  IF LineOf(end) = end THEN end ELSE LineOf(end) + LineWords

\* SEND_DYNAMIC_CMD with bursts of one line: line n of a descriptor
BurstCmd(vd, n) ==
    LET addr == LineOf(vd.d.start) + n * LineWords
        next == addr + LineWords
        end  == vd.d.start + vd.d.size
    IN  [addr |-> addr, size |-> 1,
         start |-> IF addr < vd.d.start THEN vd.d.start ELSE addr,
         end |-> IF next > end THEN end ELSE next, id |-> vd.id,
         end_of_burst |-> next >= EndAddr(vd.d),
         last |-> next >= EndAddr(vd.d) /\ vd.last]

\* Mutant of SendsAssert: the packet behind the last assert is sent on.
SendsAssertAlways(a) == TRUE

\* the assert that comes with the stop packets goes no further
SendsAssert(a) == ~a.last

\* one command and one assert for every line of the current list
StaCmdGenerator ==
    /\ sta_vd # <<>> /\ filtered # <<>>
    /\ Len(sta_cmd) < LinkDepth
    /\ LET c == BurstCmd(Head(sta_vd), sta_line)
           a == Head(filtered)
       IN  /\ SendsAssert(a) => Len(assert_out) < AssertDepth
           /\ sta_cmd' = Append(sta_cmd, c)
           /\ assert_out' = IF SendsAssert(a) THEN Append(assert_out, a.prev) ELSE assert_out
           /\ IF c.end_of_burst
              THEN sta_vd' = Tail(sta_vd) /\ filtered' = Tail(filtered) /\ sta_line' = 0
              ELSE sta_line' = sta_line + 1 /\ UNCHANGED <<sta_vd, filtered>>
    /\ UNCHANGED <<dupVars, loaderVars, sta_stop, sync_id, update, assert_mask,
                   sta_run, sta_out, siVars, outVars>>

\* the request of the last step is dropped: its current vertex is dead
SiRequest(p) == IF p.last THEN StopVd ELSE [d |-> p.d, id |-> 0, last |-> FALSE]

\* the numbers si_sync_id_gen gives are read by nobody behind si_cmd_generator
SiSchedule ==
    /\ last # <<>>
    /\ Len(si_vd) < LinkDepth
    /\ si_vd' = Append(si_vd, SiRequest(Head(last)))
    /\ last' = Tail(last)
    /\ UNCHANGED <<dupVars, vl_run, vds, last_pkg, current, staVars, staCmdVars,
                   si_line, si_cmd, si_run, si_out, outVars>>

\* command for invalid data
FillerCmd(vd) == [addr |-> 0, size |-> 0, start |-> 0, end |-> 0, id |-> vd.id,
                  end_of_burst |-> TRUE, last |-> FALSE]

\* Mutant of SiCommands: a previous vertex without neighbours makes no command.
SiCommandsOfList(vd, n) == IF vd.d.size = 0 THEN <<>> ELSE <<BurstCmd(vd, n)>>

SiCommands(vd, n) == IF vd.d.size = 0 THEN <<FillerCmd(vd)>> ELSE <<BurstCmd(vd, n)>>

SiCmdGenerator ==
    /\ si_vd # <<>>
    /\ Len(si_cmd) < LinkDepth
    /\ LET vd == Head(si_vd)
       IN  /\ si_cmd' = si_cmd \o SiCommands(vd, si_line)
           /\ IF vd.d.size = 0 \/ BurstCmd(vd, si_line).end_of_burst
              THEN si_vd' = Tail(si_vd) /\ si_line' = 0
              ELSE si_line' = si_line + 1 /\ UNCHANGED si_vd
    /\ UNCHANGED <<dupVars, loaderVars, staVars, staCmdVars, si_run, si_out, outVars>>

-----------------------------------------------------------------------------
(* the burst engines                                                       *)

\* the words of the line of a command that are not masked
Unmasked(c) == {w \in c.addr .. c.addr + LineWords - 1 : w >= c.start /\ w < c.end}

\* BURST_INIT: a stop packet ends the engine; else a line is read
StaBurst ==
    /\ sta_run
    /\ sta_cmd # <<>>
    /\ LET c == Head(sta_cmd)
       IN  \/ /\ c.id = StopId
              /\ sta_run' = FALSE
              /\ UNCHANGED sta_out
           \/ /\ c.id # StopId
              /\ Len(sta_out) < LinkDepth
              /\ sta_out' = Append(sta_out, [words |-> Unmasked(c), id |-> c.id,
                                   end_of_burst |-> c.end_of_burst, last |-> c.last])
              /\ UNCHANGED sta_run
    /\ sta_cmd' = Tail(sta_cmd)
    /\ UNCHANGED <<dupVars, loaderVars, staVars, sta_line, assert_out, siVars, outVars>>

SiBurst ==
    /\ si_run
    /\ si_cmd # <<>>
    /\ LET c == Head(si_cmd)
       IN  \/ /\ c.id = StopId
              /\ si_run' = FALSE
              /\ UNCHANGED si_out
           \/ /\ c.id # StopId
              /\ Len(si_out) < LinkDepth
              /\ si_out' = Append(si_out, [words |-> IF c.size = 0 THEN {} ELSE Unmasked(c),
                                           last |-> c.size = 0 \/ c.end_of_burst])
              /\ UNCHANGED si_run
    /\ si_cmd' = Tail(si_cmd)
    /\ UNCHANGED <<dupVars, loaderVars, staVars, staCmdVars, si_vd, si_line, outVars>>

-----------------------------------------------------------------------------
(* the weight kernels, sample and sta_update_merge                         *)

\* a line of the current list; every neighbour has a weight, so sample has one
\* selected after the first line (see Wrs and SetIntersect)
WeighCurr ==
    /\ ~seen.curr_end
    /\ sta_out # <<>> /\ assert_out # <<>>
    /\ LET p == Head(sta_out)
       IN  \E w \in p.words \union ({seen.selected} \ {Dead}) :
             seen' = [seen EXCEPT !.selected = w, !.id = p.id, !.flag = p.last,
                                  !.previous = @ \union {Head(assert_out)},
                                  !.curr_end = p.end_of_burst]
    /\ sta_out' = Tail(sta_out)
    /\ assert_out' = Tail(assert_out)
    /\ UNCHANGED <<dupVars, loaderVars, staVars, sta_line, sta_cmd, sta_run, siVars,
                   next_vertex, update_id, answer, pending>>

\* a line of the previous list
WeighPrev ==
    /\ ~seen.prev_end
    /\ si_out # <<>>
    /\ seen' = [seen EXCEPT !.against = @ \union Head(si_out).words,
                            !.prev_end = Head(si_out).last]
    /\ si_out' = Tail(si_out)
    /\ UNCHANGED <<dupVars, loaderVars, staVars, staCmdVars, si_vd, si_line, si_cmd,
                   si_run, next_vertex, update_id, answer, pending>>

Sample ==
    /\ seen.curr_end /\ seen.prev_end
    /\ Len(next_vertex) < LinkDepth
    /\ next_vertex' = Append(next_vertex,
         [id |-> seen.id, last |-> seen.flag,
          to |-> [word |-> seen.selected, previous |-> seen.previous,
                  against |-> seen.against]])
    /\ seen' = NothingSeen
    /\ UNCHANGED <<dupVars, loaderVars, staVars, staCmdVars, siVars, update_id,
                   answer, pending>>

UpdateTurn(s) == s # <<>> /\ Head(s).id = update_id

\* the packet in front of s is the answer to the oldest step
Give(s) ==
    /\ UpdateTurn(s)
    /\ answer' = [to |-> Head(s).to, last |-> Head(s).last]
    /\ update_id' = Succ(update_id)
    /\ pending' = Tail(pending)
    /\ UNCHANGED <<dupVars, loaderVars, sta_stop, sync_id, assert_mask, sta_vd,
                   filtered, staCmdVars, siVars, seen>>

StaUpdateMerge ==
    \/ /\ Give(update)
       /\ update' = Tail(update)
       /\ UNCHANGED next_vertex
    \/ /\ ~UpdateTurn(update)
       /\ Give(next_vertex)
       /\ next_vertex' = Tail(next_vertex)
       /\ UNCHANGED update

-----------------------------------------------------------------------------
(* the host                                                                *)

\* vertex_loader and both engines have returned, and ring_manager has had the
\* last answer
RunOver == ~vl_run /\ ~sta_run /\ ~si_run /\ pending = <<>>

Restart ==
    /\ RunOver
    /\ vl_run' = TRUE /\ sta_run' = TRUE /\ si_run' = TRUE
    /\ UNCHANGED <<dupVars, vds, last_pkg, current, last, staVars, sta_line, sta_cmd,
                   assert_out, sta_out, si_vd, si_line, si_cmd, si_out, outVars>>

\* no step left to make
Idle == asked = MaxReq /\ pending = <<>> /\ vl_run /\ UNCHANGED vars

StepDuplicator == DuplicateCurr \/ DuplicatePrev
VdDispatch     == DispatchCurr \/ DispatchPrev
StaVdScheduler == StaSchedule \/ StaScheduleStop
Weigh          == WeighCurr \/ WeighPrev \/ Sample

Next == StepDuplicator \/ VertexLoader \/ VdDispatch \/ StaVdScheduler \/ AssertFilter
        \/ StaCmdGenerator \/ SiSchedule \/ SiCmdGenerator \/ StaBurst \/ SiBurst
        \/ Weigh \/ StaUpdateMerge \/ Restart \/ Idle

Spec == Init /\ [][Next]_vars

\* Every kernel is a piece of hardware that is never preempted: what it can do
\* it does.  Only new steps are up to the walks.
Fairness ==
    /\ WF_vars(DuplicatePrev) /\ WF_vars(VertexLoader) /\ WF_vars(VdDispatch)
    /\ WF_vars(StaVdScheduler) /\ WF_vars(AssertFilter) /\ WF_vars(StaCmdGenerator)
    /\ WF_vars(SiSchedule) /\ WF_vars(SiCmdGenerator)
    /\ WF_vars(StaBurst) /\ WF_vars(SiBurst)
    /\ WF_vars(WeighCurr) /\ WF_vars(WeighPrev) /\ WF_vars(Sample)
    /\ WF_vars(StaUpdateMerge) /\ WF_vars(Restart)

FairSpec == Spec /\ Fairness

-----------------------------------------------------------------------------
(* Properties                                                              *)

Ids == 0 .. IdMod - 1

Packets(s) == {s[i] : i \in 1..Len(s)}

\* The numbers of steps stay in the range sta_update_merge counts in, and no
\* stop packet of sta_vd_scheduler gets behind staburst_core.
TypeOK ==
    /\ asked \in 0..MaxReq
    /\ Len(half) <= 1 /\ Len(last_pkg) <= 1
    /\ vl_run \in BOOLEAN /\ sta_run \in BOOLEAN /\ si_run \in BOOLEAN
    /\ sta_stop \in BOOLEAN
    /\ sync_id \in Ids /\ update_id \in Ids /\ seen.id \in Ids
    /\ \A p \in Packets(update) \union Packets(sta_out) \union Packets(next_vertex) :
          p.id \in Ids

\* a neighbour of the current vertex, weighed with the list and the name of the
\* previous vertex of the same step
Answers(s) ==
    IF DescOf(s.curr).size = 0 THEN {NoVertex}
    ELSE {[word |-> w, previous |-> {s.prev}, against |-> Words(DescOf(s.prev))] :
             w \in Words(DescOf(s.curr))}

Service == INSTANCE OrderedService WITH Requests <- Steps, NoAnswer <- NoVertex

\* Whatever mix of steps with and without neighbours is in flight, also across
\* runs, every step is answered in its turn with one of its own neighbours, and
\* the two lists and the previous vertex that met in the weight kernels belong
\* to one step.
ImplementsSteps == Service!Spec

\* When the host starts the kernels for the next run, no list, assert, mask or
\* command of the old one is left in a stream, vd_dispatch expects the first
\* packet of a pair, and the number of the next step is the one
\* sta_update_merge waits for; all along, everything has its type.
CleanRestart ==
    TypeOK /\ (RunOver =>
        /\ half = <<>> /\ query = <<>> /\ assert_in = <<>>
        /\ vds = <<>> /\ last_pkg = <<>> /\ current = <<>> /\ last = <<>>
        /\ ~sta_stop /\ update = <<>> /\ assert_mask = <<>> /\ sta_vd = <<>>
        /\ filtered = <<>> /\ sta_line = 0 /\ sta_cmd = <<>> /\ assert_out = <<>>
        /\ sta_out = <<>> /\ si_vd = <<>> /\ si_line = 0 /\ si_cmd = <<>>
        /\ si_out = <<>> /\ seen = NothingSeen /\ next_vertex = <<>>
        /\ update_id = sync_id)

\* Every step is answered: the engines never wait for each other through the
\* weight kernels, which hold one list back until the other one is there.  And
\* after the last step of a run vertex_loader and both engines return.
Progress == /\ (pending # <<>>) ~> (pending = <<>>)
            /\ (~vl_run) ~> RunOver
=============================================================================
