------------------------------ MODULE DynBurst ------------------------------
(***************************************************************************)
(* The dynamic burst engine (src/sdyburst): the neighbour list of a vertex *)
(* is read from memory by one of three engines, chosen and fed by          *)
(* vd_scheduler and cmd_generator, and put back in order by three merge    *)
(* kernels:                                                                *)
(*                                                                         *)
(*  vd_scheduler -- size 0 ------------------------------+                 *)
(*    | one line       single_burst --------+            |                 *)
(*    | more   cmd_generator                v            v                 *)
(*    |          | long  dynamic_burst_32   inter -- sample -- update      *)
(*    |          | rest  dynamic_burst_1    merge               merge      *)
(*    |                      | intra merge -^                              *)
(*                                                                         *)
(* Every request carries the number sync_id gave it; those that read       *)
(* memory also a number from sync_burst_id, and every command of           *)
(* cmd_generator one of its own.  The numbers wrap.  The merges look at    *)
(* the next packet of each input and wait for the number they expect.      *)
(*                                                                         *)
(* sync and weight streams are always written and read in pairs and are    *)
(* one stream of pairs here; the words of a line that are not masked stand *)
(* for the weights.  A kernel that holds a packet in a register while it   *)
(* works on it (pkg_1 and pkg_2 of the merges, vd of cmd_generator, the    *)
(* command of dynamic_burst_32) holds the head of its input stream here;   *)
(* the depths count that place.  The sampling kernels behind inter_merge   *)
(* are one action that keeps one of the words it was shown, or none.       *)
(*                                                                         *)
(* vd_scheduler and the engines are started by the host for every run; the *)
(* other kernels are free-running and keep their numbers between runs.     *)
(***************************************************************************)
EXTENDS Integers, Sequences, FiniteSets

CONSTANTS
    Descs,        \* vertex descriptors [start, size]
    LineWords,    \* words in a memory line (16)
    MaxBurst,     \* DYNAMIC_BURST_MAX_LENGTH, in lines (32)
    IdMod,        \* numbers wrap at this (2^15)
    FirstId,      \* number the earlier runs have left the generators and merges
                  \* at: 0 when the device has just been programmed
    MaxInFlight,  \* requests the query ring lets be unanswered (256)
    CmdDepth,     \* depth of the command streams (16)
    SyncDepth,    \* depth of the streams out of the engines (512)
    UpdateDepth,  \* depth of vd_scheduler.update (512)
    LinkDepth,    \* depth of the other streams
    MaxReq        \* bound on the number of requests

ASSUME BurstAssumption ==
    /\ Descs \subseteq [start: Nat, size: Nat]
    /\ LineWords \in Nat \ {0}
    /\ MaxBurst \in Nat \ {0, 1}
    /\ CmdDepth \in Nat \ {0} /\ SyncDepth \in Nat \ {0}
    /\ UpdateDepth \in Nat \ {0} /\ LinkDepth \in Nat \ {0}
    /\ MaxReq \in Nat

\* no two requests in flight have the same number
ASSUME IdAssumption ==
    /\ MaxInFlight \in Nat \ {0} /\ IdMod \in Nat /\ IdMod >= MaxInFlight
    /\ FirstId \in 0 .. IdMod - 1

\* no two commands between cmd_generator and intra_merge have the same number:
\* they fill two command streams and two streams of packets at most
ASSUME DynamicIdAssumption == IdMod >= 2 * (CmdDepth + SyncDepth)

VARIABLES
    asked,       \* requests so far
    input,       \* vcache_vd -> vd_scheduler
    vs_pc,       \* vd_scheduler: "run", "stop_single", "stop_dynamic", "done"
    sync_id,     \* next number of sync_id_gen_instance
    sync_burst_id, \* next number of sync_burst_gen
    update,      \* vd_scheduler -> update_merge.in1
    burst_vd,    \* vd_scheduler -> cmd_generator
    curr,        \* cmd_generator: lines of its descriptor it has sent
    dynamic_burst_id, \* cmd_generator
    cmd,         \* the three command streams, by engine
    running,     \* the engine has not been stopped in this run
    j,           \* dynamic_burst_32: lines of its command it has read
    sync,        \* the streams into intra_merge and inter_merge, by source
    intra_id,    \* intra_merge: current_id
    inter_id,    \* inter_merge: current_id
    inter_out,   \* inter_merge -> the sampling kernels
    selected,    \* sample: selected_index
    next_vertex, \* sample -> update_merge.in2
    update_id,   \* update_merge: current_id
    answer,      \* the packet update_merge wrote last
    pending,     \* history: requests not answered, oldest first
    shown        \* history: the words sample was shown for the current request

feedVars   == <<asked, input>>
schedVars  == <<vs_pc, sync_id, sync_burst_id>>
cgVars     == <<burst_vd, curr, dynamic_burst_id>>
engineVars == <<running, j>>
mergeVars  == <<intra_id, inter_id, inter_out>>
outVars    == <<selected, next_vertex, update_id, answer>>
history    == <<pending, shown>>
vars == <<feedVars, schedVars, update, cgVars, cmd, engineVars, sync,
          mergeVars, outVars, history>>

-----------------------------------------------------------------------------

Engines == {"one", "long", "single"}

\* "dynamic" is the stream from intra_merge to inter_merge
Sources == Engines \union {"dynamic"}

\* 0x80000000, no vertex selected, and 0x8000, the number of the stop packets
Dead == -1
StopId == -1

LineOf(w) == w - (w % LineWords)

Words(d) == d.start .. d.start + d.size - 1

Init ==
    /\ asked = 0
    /\ input = <<>>
    /\ vs_pc = "run" /\ sync_id = FirstId /\ sync_burst_id = FirstId
    /\ update = <<>>
    /\ burst_vd = <<>> /\ curr = 0 /\ dynamic_burst_id = FirstId
    /\ cmd = [e \in Engines |-> <<>>]
    /\ running = [e \in Engines |-> TRUE]
    /\ j = 0
    /\ sync = [s \in Sources |-> <<>>]
    /\ intra_id = FirstId /\ inter_id = FirstId
    /\ inter_out = <<>>
    /\ selected = Dead
    /\ next_vertex = <<>>
    /\ update_id = FirstId
    /\ answer = [to |-> Dead, last |-> FALSE]
    /\ pending = <<>>
    /\ shown = {}

-----------------------------------------------------------------------------
(* vd_scheduler                                                            *)

\* a step of a walk: the ring never has more than MaxInFlight of them, and
\* nothing follows the last one of a run before the next run is started
Request ==
    /\ asked < MaxReq
    /\ Len(pending) < MaxInFlight
    /\ Len(input) < LinkDepth
    /\ vs_pc = "run"
    /\ \A i \in 1..Len(pending) : ~pending[i].last
    /\ \E d \in Descs, last \in BOOLEAN :
         /\ input' = Append(input, [vertex |-> d, last |-> last])
         /\ pending' = Append(pending, [vertex |-> d, last |-> last])
    /\ asked' = asked + 1
    /\ UNCHANGED <<schedVars, update, cgVars, cmd, engineVars, sync, mergeVars,
                   outVars, shown>>

Succ(i) == (i + 1) % IdMod

\* the next packet of the input is taken and gets the next number
Dispatch ==
    /\ vs_pc = "run"
    /\ input # <<>>
    /\ input' = Tail(input)
    /\ sync_id' = Succ(sync_id)
    /\ vs_pc' = IF Head(input).last THEN "stop_single" ELSE "run"

\* a vertex without neighbours is answered without a look at the memory
ScheduleEmpty ==
    /\ Dispatch
    /\ Head(input).vertex.size = 0
    /\ Len(update) < UpdateDepth
    /\ update' = Append(update, [to |-> Dead, id |-> sync_id, last |-> Head(input).last])
    /\ UNCHANGED <<asked, sync_burst_id, cgVars, cmd, engineVars, sync,
                   mergeVars, outVars, history>>

\* the neighbours are all in one line
ScheduleSingle ==
    /\ Dispatch
    /\ Len(cmd["single"]) < CmdDepth
    /\ LET d == Head(input).vertex
       IN  /\ d.size # 0
           /\ LineOf(d.start) = LineOf(d.start + d.size - 1)
           /\ cmd' = [cmd EXCEPT !["single"] =
                        Append(@, [addr |-> LineOf(d.start), start |-> d.start,
                                   end |-> d.start + d.size, id |-> sync_id,
                                   burst_id |-> sync_burst_id, end_of_burst |-> FALSE,
                                   dynamic_id |-> 0, last |-> Head(input).last])]
    /\ sync_burst_id' = Succ(sync_burst_id)
    /\ UNCHANGED <<asked, update, cgVars, engineVars, sync, mergeVars, outVars,
                   history>>

ScheduleDynamic ==
    /\ Dispatch
    /\ Len(burst_vd) < LinkDepth
    /\ LET d == Head(input).vertex
       IN  /\ d.size # 0
           /\ LineOf(d.start) # LineOf(d.start + d.size - 1)
           /\ burst_vd' = Append(burst_vd, [start |-> d.start, size |-> d.size,
                            id |-> sync_id, burst_id |-> sync_burst_id,
                            last |-> Head(input).last])
    /\ sync_burst_id' = Succ(sync_burst_id)
    /\ UNCHANGED <<asked, update, curr, dynamic_burst_id, cmd, engineVars, sync,
                   mergeVars, outVars, history>>

\* the packet that stops the single burst engine
StopSingle ==
    /\ vs_pc = "stop_single"
    /\ Len(cmd["single"]) < CmdDepth
    /\ cmd' = [cmd EXCEPT !["single"] =
                 Append(@, [addr |-> 0, start |-> 0, end |-> 0, id |-> StopId,
                            burst_id |-> 0, end_of_burst |-> TRUE,
                            dynamic_id |-> 0, last |-> TRUE])]
    /\ vs_pc' = "stop_dynamic"
    /\ UNCHANGED <<feedVars, sync_id, sync_burst_id, update, cgVars, engineVars,
                   sync, mergeVars, outVars, history>>

\* Mutant of StopLines: the stop descriptor makes one command, not two.
StopLinesOfOneBurst == MaxBurst

\* the descriptor that stops the other two engines is just long enough to make
\* cmd_generator write one command for each of them
StopLines == MaxBurst + 1

StopDynamic ==
    /\ vs_pc = "stop_dynamic"
    /\ Len(burst_vd) < LinkDepth
    /\ burst_vd' = Append(burst_vd, [start |-> 0, size |-> StopLines * LineWords,
                            id |-> StopId, burst_id |-> 0, last |-> TRUE])
    /\ vs_pc' = "done"
    /\ UNCHANGED <<feedVars, sync_id, sync_burst_id, update, curr,
                   dynamic_burst_id, cmd, engineVars, sync, mergeVars, outVars,
                   history>>

-----------------------------------------------------------------------------
(* cmd_generator                                                           *)

\* the line behind the last neighbour
EndAddr(vd) == LET end == vd.start + vd.size
               IN  IF LineOf(end) = end THEN end ELSE LineOf(end) + LineWords

\* Mutant of DynamicCmd: the mask is left to the whole lines.
DynamicCmdWholeLines(vd, addr, n) ==
    [addr |-> addr, start |-> addr, end |-> addr + n * LineWords,
     id |-> vd.id, burst_id |-> vd.burst_id,
     end_of_burst |-> addr + n * LineWords = EndAddr(vd),
     dynamic_id |-> dynamic_burst_id,
     last |-> addr + n * LineWords = EndAddr(vd) /\ vd.last]

\* SEND_DYNAMIC_CMD: a burst of n lines from addr on
DynamicCmd(vd, addr, n) ==
    LET next == addr + n * LineWords
        end  == vd.start + vd.size
    IN  [addr |-> addr,
         start |-> IF addr < vd.start THEN vd.start ELSE addr,
         end |-> IF next > end THEN end ELSE next,
         id |-> vd.id, burst_id |-> vd.burst_id,
         end_of_burst |-> next = EndAddr(vd),
         dynamic_id |-> dynamic_burst_id,
         last |-> next = EndAddr(vd) /\ vd.last]

\* Mutant of NumberAfter: the commands that stop the engines use up a number.
NumberAfterAny(vd) == Succ(dynamic_burst_id)

\* the stop packets never reach intra_merge and use no number
NumberAfter(vd) == IF vd.id = StopId THEN dynamic_burst_id ELSE Succ(dynamic_burst_id)

\* cmd_decomposition: the longest burst that fits, else one line
CmdGenerator ==
    /\ burst_vd # <<>>
    /\ LET vd   == Head(burst_vd)
           addr == LineOf(vd.start) + curr * LineWords
           long == EndAddr(vd) >= addr + MaxBurst * LineWords
           n    == IF long THEN MaxBurst ELSE 1
           e    == IF long THEN "long" ELSE "one"
           done == addr + n * LineWords = EndAddr(vd)
       IN  /\ Len(cmd[e]) < CmdDepth
           /\ cmd' = [cmd EXCEPT ![e] = Append(@, DynamicCmd(vd, addr, n))]
           /\ burst_vd' = IF done THEN Tail(burst_vd) ELSE burst_vd
           /\ curr' = IF done THEN 0 ELSE curr + n
           /\ dynamic_burst_id' = NumberAfter(vd)
    /\ UNCHANGED <<feedVars, schedVars, update, engineVars, sync, mergeVars,
                   outVars, history>>

-----------------------------------------------------------------------------
(* single_burst, dynamic_burst_1 and dynamic_burst_32                      *)

\* BURST_INIT: the stop packet ends the engine
EngineStop(e) ==
    /\ running[e]
    /\ cmd[e] # <<>>
    /\ Head(cmd[e]).id = StopId
    /\ cmd' = [cmd EXCEPT ![e] = Tail(@)]
    /\ running' = [running EXCEPT ![e] = FALSE]
    /\ UNCHANGED <<feedVars, schedVars, update, cgVars, j, sync, mergeVars,
                   outVars, history>>

\* a command with a line to read and room for it
CanBurst(e) ==
    /\ running[e]
    /\ cmd[e] # <<>>
    /\ Head(cmd[e]).id # StopId
    /\ Len(sync[e]) < SyncDepth

\* the words of line l of a command that are not masked: the mask is
\* computed from the address of the command, whatever the line
Unmasked(c, l) ==
    {c.addr + l * LineWords + k :
       k \in {k \in 0..LineWords - 1 : c.addr + k >= c.start /\ c.addr + k < c.end}}

\* the packet for line l of command c
SyncPkg(c, l, end_of_burst, end_of_dynamic) ==
    [words |-> Unmasked(c, l), id |-> c.id, burst_id |-> c.burst_id,
     end_of_burst |-> end_of_burst, dynamic_id |-> c.dynamic_id,
     end_of_dynamic |-> end_of_dynamic, last |-> c.last]

\* single_burst and dynamic_burst_1: one line
BurstOne(e) ==
    /\ CanBurst(e)
    /\ LET c == Head(cmd[e])
       IN  sync' = [sync EXCEPT ![e] =
                      Append(@, SyncPkg(c, 0, e = "single" \/ c.end_of_burst, TRUE))]
    /\ cmd' = [cmd EXCEPT ![e] = Tail(@)]
    /\ UNCHANGED <<feedVars, schedVars, update, cgVars, engineVars, mergeVars,
                   outVars, history>>

\* Mutant of BurstLong: every line of the burst carries the end marks.
BurstLongMarksAll ==
    /\ CanBurst("long")
    /\ LET c == Head(cmd["long"])
           final == j = MaxBurst - 1
       IN  /\ sync' = [sync EXCEPT !["long"] =
                         Append(@, SyncPkg(c, j, c.end_of_burst, TRUE))]
           /\ cmd' = IF final THEN [cmd EXCEPT !["long"] = Tail(@)] ELSE cmd
           /\ j' = IF final THEN 0 ELSE j + 1
    /\ UNCHANGED <<feedVars, schedVars, update, cgVars, running, mergeVars,
                   outVars, history>>

\* dynamic_burst_32: only the last line of the burst carries the end marks
BurstLong ==
    /\ CanBurst("long")
    /\ LET c == Head(cmd["long"])
           final == j = MaxBurst - 1
       IN  /\ sync' = [sync EXCEPT !["long"] =
                         Append(@, SyncPkg(c, j, final /\ c.end_of_burst, final))]
           /\ cmd' = IF final THEN [cmd EXCEPT !["long"] = Tail(@)] ELSE cmd
           /\ j' = IF final THEN 0 ELSE j + 1
    /\ UNCHANGED <<feedVars, schedVars, update, cgVars, running, mergeVars,
                   outVars, history>>

-----------------------------------------------------------------------------
(* intra_merge, inter_merge                                                *)

IntraTurn(e) == sync[e] # <<>> /\ Head(sync[e]).dynamic_id = intra_id

\* dynamic_burst_1 is in1 and is looked at first
IntraMerge ==
    \E e \in {"one", "long"} :
      /\ IntraTurn(e)
      /\ e = "long" => ~IntraTurn("one")
      /\ Len(sync["dynamic"]) < LinkDepth
      /\ LET p == Head(sync[e])
         IN  /\ sync' = [sync EXCEPT ![e] = Tail(@), !["dynamic"] = Append(@, p)]
             /\ intra_id' = IF p.end_of_dynamic THEN Succ(intra_id) ELSE intra_id
      /\ UNCHANGED <<feedVars, schedVars, update, cgVars, cmd, engineVars,
                     inter_id, inter_out, outVars, history>>

InterTurn(s) == sync[s] # <<>> /\ Head(sync[s]).burst_id = inter_id

InterMerge ==
    \E s \in {"single", "dynamic"} :
      /\ InterTurn(s)
      /\ s = "dynamic" => ~InterTurn("single")
      /\ Len(inter_out) < LinkDepth
      /\ LET p == Head(sync[s])
         IN  /\ inter_out' = Append(inter_out, p)
             /\ sync' = [sync EXCEPT ![s] = Tail(@)]
             /\ inter_id' = IF p.end_of_burst THEN Succ(inter_id) ELSE inter_id
      /\ UNCHANGED <<feedVars, schedVars, update, cgVars, cmd, engineVars,
                     intra_id, outVars, history>>

-----------------------------------------------------------------------------
(* label_filter ... sample, update_merge                                   *)

\* one line goes through the sampling kernels
Sample ==
    /\ inter_out # <<>>
    /\ LET p == Head(inter_out)
       IN  \E s \in p.words \union {selected} :
             \/ /\ p.end_of_burst
                /\ Len(next_vertex) < LinkDepth
                /\ next_vertex' = Append(next_vertex,
                                         [to |-> s, id |-> p.id, last |-> p.last])
                /\ selected' = Dead
                /\ shown' = {}
             \/ /\ ~p.end_of_burst
                /\ selected' = s
                /\ shown' = shown \union p.words
                /\ UNCHANGED next_vertex
    /\ inter_out' = Tail(inter_out)
    /\ UNCHANGED <<feedVars, schedVars, update, cgVars, cmd, engineVars, sync,
                   intra_id, inter_id, update_id, answer, pending>>

\* Mutant of UpdateTurn: the packets leave in the order they arrive.
UpdateTurnAny(s) == s # <<>>

UpdateTurn(s) == s # <<>> /\ Head(s).id = update_id

\* the packet in front of s is the answer to the oldest request
Give(s) ==
    /\ UpdateTurn(s)
    /\ answer' = [to |-> Head(s).to, last |-> Head(s).last]
    /\ update_id' = Succ(update_id)
    /\ pending' = Tail(pending)
    /\ UNCHANGED <<feedVars, schedVars, cgVars, cmd, engineVars, sync, mergeVars,
                   selected, shown>>

UpdateMerge ==
    \/ /\ Give(update)
       /\ update' = Tail(update)
       /\ UNCHANGED next_vertex
    \/ /\ ~UpdateTurn(update)
       /\ Give(next_vertex)
       /\ next_vertex' = Tail(next_vertex)
       /\ UNCHANGED update

-----------------------------------------------------------------------------
(* the host                                                                *)

\* vd_scheduler and dyburst_core have returned and the last answer is there
RunOver == vs_pc = "done" /\ (\A e \in Engines : ~running[e]) /\ pending = <<>>

Restart ==
    /\ RunOver
    /\ vs_pc' = "run"
    /\ running' = [e \in Engines |-> TRUE]
    /\ UNCHANGED <<feedVars, sync_id, sync_burst_id, update, cgVars, cmd, j,
                   sync, mergeVars, outVars, history>>

\* no request left to make
Idle == asked = MaxReq /\ pending = <<>> /\ vs_pc = "run" /\ UNCHANGED vars

Schedule == ScheduleEmpty \/ ScheduleSingle \/ ScheduleDynamic \/ StopSingle \/ StopDynamic
Burst1   == EngineStop("one") \/ BurstOne("one")
Burst32  == EngineStop("long") \/ BurstLong
Single   == EngineStop("single") \/ BurstOne("single")

Next == Request \/ Schedule \/ CmdGenerator \/ Burst1 \/ Burst32 \/ Single
        \/ IntraMerge \/ InterMerge \/ Sample \/ UpdateMerge \/ Restart \/ Idle

Spec == Init /\ [][Next]_vars

\* Every kernel is a piece of hardware that is never preempted: what it can do
\* it does.  The host waits for the run to be over and starts the next one.
Fairness ==
    /\ WF_vars(Schedule) /\ WF_vars(CmdGenerator)
    /\ WF_vars(Burst1) /\ WF_vars(Burst32) /\ WF_vars(Single)
    /\ WF_vars(IntraMerge) /\ WF_vars(InterMerge) /\ WF_vars(Sample)
    /\ WF_vars(UpdateMerge) /\ WF_vars(Restart)

FairSpec == Spec /\ Fairness

-----------------------------------------------------------------------------
(* Properties                                                              *)

Ids == 0 .. IdMod - 1

Packets(s) == {s[i] : i \in 1..Len(s)}

\* The numbers in the packets stay in the range the merges count in, the stop
\* packets never leave the engines, and the counters stay in theirs.
TypeOK ==
    /\ asked \in 0..MaxReq
    /\ vs_pc \in {"run", "stop_single", "stop_dynamic", "done"}
    /\ sync_id \in Ids /\ sync_burst_id \in Ids /\ dynamic_burst_id \in Ids
    /\ intra_id \in Ids /\ inter_id \in Ids /\ update_id \in Ids
    /\ running \in [Engines -> BOOLEAN]
    /\ j \in 0..MaxBurst - 1
    /\ \A s \in {inter_out, sync["one"], sync["long"], sync["single"], sync["dynamic"]} :
          \A p \in Packets(s) :
             p.id \in Ids /\ p.burst_id \in Ids /\ p.dynamic_id \in Ids
    /\ \A p \in Packets(update) \union Packets(next_vertex) : p.id \in Ids

\* a neighbour of the vertex, or none
Answers(v) == Words(v) \union {Dead}

Service == INSTANCE OrderedService WITH Requests <- Descs, NoAnswer <- Dead

\* The numbers and the merges put the answers back in order, each a neighbour
\* of the vertex that was asked about: the engine implements the service
\* fetch_next relies on.
ImplementsService == Service!Spec

\* the vertex the request with number id asked about: update_merge waits for
\* the oldest request not answered
AskedBy(id) == pending[((id - update_id) % IdMod) + 1].vertex

\* However cmd_generator splits a neighbour list between the engines, when its
\* last line reaches the sampler the sampler has been shown every word of the
\* list, and no other word.
NeighboursShown ==
    inter_out # <<>> /\ Head(inter_out).end_of_burst =>
        shown \union Head(inter_out).words = Words(AskedBy(Head(inter_out).id))

\* The engines are stopped by packets that follow the last request through the
\* command streams and not by the answer to it.  When the host starts the next
\* run nothing of the old one is left, and the numbers that free-running
\* kernels kept are the ones their readers wait for; all along, everything
\* has its type, the numbers within their bits included.
CleanRestart ==
    TypeOK /\ (RunOver =>
        /\ input = <<>> /\ update = <<>> /\ burst_vd = <<>>
        /\ \A e \in Engines : cmd[e] = <<>>
        /\ \A s \in Sources : sync[s] = <<>>
        /\ inter_out = <<>> /\ next_vertex = <<>>
        /\ curr = 0 /\ j = 0 /\ selected = Dead
        /\ intra_id = dynamic_burst_id
        /\ inter_id = sync_burst_id
        /\ update_id = sync_id)

\* Every request is answered, the last of the MaxReq included: no two kernels
\* wait for each other, although a merge refuses the packets of one input while
\* it waits for the other.  And after the last request of a run vd_scheduler
\* and the three engines return.
Progress == /\ (pending # <<>>) ~> (pending = <<>>)
            /\ (vs_pc = "stop_single") ~> RunOver
=============================================================================
