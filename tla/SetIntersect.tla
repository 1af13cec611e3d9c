---------------------------- MODULE SetIntersect ----------------------------
(***************************************************************************)
(* The weights of a Node2Vec step (src/setintersetion and src/isne_x16).   *)
(* Every neighbour of the current vertex is weighed by how it lies to the  *)
(* previous one: SC_BACK when it is the previous vertex, SC_LOOP when it   *)
(* is a neighbour of it, SC_CHAIN otherwise, and 0 for a word of the line  *)
(* that is not of the list.  The two lists arrive line by line from two    *)
(* burst engines, sorted, and are merged word by word:                     *)
(*                                                                         *)
(*  staburst -- weight_duplicate --------------------------- sample        *)
(*                 |    |                                      |           *)
(*                 |    weight_dispatch  current_mask          |           *)
(*                 |      | NumOs          | weight_dispatch   |           *)
(*  siburst -- weight_duplicate_4          | NumOs             |           *)
(*                 | neighbor_mask --- merge_mask -- merge_weight          *)
(*                                                                         *)
(* NumOs copies of neighbor_mask take every NumOs-th word of the current   *)
(* list, and each takes every line of the previous one.  All kernels here  *)
(* are free-running and all streams block.  A kernel holds the packet it   *)
(* works on as the head of its input stream; a kernel that writes several  *)
(* packets in one iteration waits until there is room for all of them.     *)
(*                                                                         *)
(* The commands of the two engines and the packets that stop them are not  *)
(* part of this module: a step puts the lines it will read into sta_todo   *)
(* and si_todo.  Steps without neighbours never come here: vd_dispatch and *)
(* sta_vd_scheduler drop both of their lists.                              *)
(***************************************************************************)
EXTENDS Integers, Sequences

CONSTANTS
    Lanes,       \* words in a line (16)
    NumOs,       \* NUM_OF_OS, copies of neighbor_mask (4)
    Invalid,     \* INVALID_VERTEX, above every vertex (2^32 - 1)
    Workloads,   \* sequences of steps of walks: the two lists, their offsets in
                 \* their first lines, and the previous vertex
    AssertDepth, \* depth of the stream of previous vertices (256)
    SampleDepth, \* depth of the stream of lines to sample (512)
    AdjDepth,    \* depth of curr_adj_in, in words (512)
    LastDepth,   \* depth of last_adj_in, in lines (512)
    MaskDepth,   \* depth of the streams into merge_mask and merge_weight (16)
    LinkDepth    \* depth of the other streams

Vertices == 0 .. Invalid - 1

\* a list as graph.cpp lays it out: sorted, each neighbour once
IsAdjacency(s) == /\ s \in Seq(Vertices)
                  /\ \A i, k \in 1..Len(s) : i < k => s[i] < s[k]

ASSUME SizeAssumption ==
    /\ Invalid \in Nat \ {0, 1}
    /\ NumOs \in Nat \ {0} /\ Lanes \in Nat \ {0} /\ Lanes % NumOs = 0

ASSUME StepAssumption ==
    \A w \in Workloads : \A i \in 1..Len(w) : LET s == w[i] IN
      /\ IsAdjacency(s.curr) /\ s.curr # <<>> /\ IsAdjacency(s.prev)
      /\ s.coff \in 0 .. Lanes - 1 /\ s.poff \in 0 .. Lanes - 1
      /\ s.last_vertex \in Vertices

\* weight_dispatch writes a whole line to each of its outputs
ASSUME DepthAssumption ==
    /\ AssertDepth \in Nat \ {0} /\ SampleDepth \in Nat \ {0}
    /\ LastDepth \in Nat \ {0} /\ LinkDepth \in Nat \ {0}
    /\ AdjDepth \in Nat /\ AdjDepth >= Lanes \div NumOs
    /\ MaskDepth \in Nat /\ MaskDepth >= Lanes \div NumOs

VARIABLES
    steps,        \* steps the walks have still to ask for
    sta_todo,     \* lines staburst_core has still to read, with the previous vertex
    si_todo,      \* lines siburst_core has still to read
    assert_out,   \* sta_cmd_generator -> current_mask
    sta_out,      \* staburst_core -> weight_duplicate
    si_out,       \* siburst_core -> weight_duplicate_4
    sample_in,    \* weight_duplicate -> sample
    mask_in,      \* weight_duplicate -> current_mask
    disp_in,      \* weight_duplicate -> weight_dispatch_1
    mask_out,     \* current_mask -> weight_dispatch_2
    curr_adj,     \* weight_dispatch_1 -> neighbor_mask, by copy
    last_adj,     \* weight_duplicate_4 -> neighbor_mask, by copy
    curr_mask,    \* weight_dispatch_2 -> merge_mask, by copy
    nm,           \* neighbor_mask: update_state, curr_adj_v, the words
                  \* last_adj_v_* and final_current, by copy
    last_mask,    \* neighbor_mask -> merge_mask, by copy
    merged,       \* merge_mask -> merge_weight, by copy
    counter,      \* merge_weight: words of out_data that are set
    out_data,     \* merge_weight
    weight_out,   \* merge_weight -> partial_sum
    due           \* history: lines on their way, with the weights they should get

inVars   == <<steps, sta_todo, si_todo>>
lineVars == <<assert_out, sta_out, si_out, sample_in, mask_in, disp_in, mask_out>>
wordVars == <<curr_adj, last_adj, curr_mask>>
nmVars   == <<nm, last_mask>>
outVars  == <<merged, counter, out_data, weight_out>>
vars == <<inVars, lineVars, wordVars, nmVars, outVars, due>>

-----------------------------------------------------------------------------

Os == 1 .. NumOs
Words == 1 .. Lanes

\* sc_weight_factor.h
SC_BACK == 1
SC_LOOP == 2
SC_CHAIN == 4

\* the lines of a list that begins off words into its first line; words that
\* are not of the list are filled
Lines(off, list, filler) ==
    LET n == (off + Len(list) + Lanes - 1) \div Lanes
        pos(i, k) == (i - 1) * Lanes + k - off
    IN  [i \in 1..n |->
           [words |-> [k \in Words |-> IF pos(i, k) \in 1..Len(list)
                                       THEN list[pos(i, k)] ELSE filler],
            last  |-> i = n]]

\* staburst_core fills with 0
CurrLines(s) == Lines(s.coff, s.curr, 0)

\* siburst_core fills with INVALID_VERTEX and makes one line of an empty list
PrevLines(s) ==
    IF s.prev = <<>>
    THEN <<[words |-> [k \in Words |-> Invalid], last |-> TRUE]>>
    ELSE Lines(s.poff, s.prev, Invalid)

\* what the weight of a word should be
ExactWeight(s, w) ==
    IF w = 0 THEN 0
    ELSE IF w = s.last_vertex THEN SC_BACK
    ELSE IF \E i \in 1..Len(s.prev) : s.prev[i] = w THEN SC_LOOP
    ELSE SC_CHAIN

Due(s) == [i \in 1..Len(CurrLines(s)) |->
             [words   |-> CurrLines(s)[i].words,
              weights |-> [k \in Words |-> ExactWeight(s, CurrLines(s)[i].words[k])]]]

\* the words of a line that go to copy o
Share(line, o) == [i \in 1 .. Lanes \div NumOs |-> line[(i - 1) * NumOs + o]]

Init ==
    /\ steps \in Workloads
    /\ sta_todo = <<>> /\ si_todo = <<>>
    /\ assert_out = <<>> /\ sta_out = <<>> /\ si_out = <<>>
    /\ sample_in = <<>> /\ mask_in = <<>> /\ disp_in = <<>> /\ mask_out = <<>>
    /\ curr_adj = [o \in Os |-> <<>>]
    /\ last_adj = [o \in Os |-> <<>>]
    /\ curr_mask = [o \in Os |-> <<>>]
    /\ nm = [o \in Os |-> [state |-> "READ_CURR", curr |-> 0,
                           line |-> [k \in Words |-> 0], final |-> FALSE]]
    /\ last_mask = [o \in Os |-> <<>>]
    /\ merged = [o \in Os |-> <<>>]
    /\ counter = 0 /\ out_data = [k \in Words |-> 0] /\ weight_out = <<>>
    /\ due = <<>>

-----------------------------------------------------------------------------
(* The lists                                                               *)

Request ==
    /\ steps # <<>>
    /\ LET s == Head(steps)
       IN  /\ sta_todo' = sta_todo \o [i \in 1..Len(CurrLines(s)) |->
                             [line |-> CurrLines(s)[i], assert |-> s.last_vertex]]
           /\ si_todo' = si_todo \o PrevLines(s)
           /\ due' = due \o Due(s)
    /\ steps' = Tail(steps)
    /\ UNCHANGED <<lineVars, wordVars, nmVars, outVars>>

\* sta_cmd_generator writes the previous vertex once for every line
StaBurst ==
    /\ sta_todo # <<>>
    /\ Len(sta_out) < LinkDepth /\ Len(assert_out) < AssertDepth
    /\ sta_todo' = Tail(sta_todo)
    /\ sta_out' = Append(sta_out, Head(sta_todo).line)
    /\ assert_out' = Append(assert_out, Head(sta_todo).assert)
    /\ UNCHANGED <<steps, si_todo, si_out, sample_in, mask_in, disp_in, mask_out,
                   wordVars, nmVars, outVars, due>>

SiBurst ==
    /\ si_todo # <<>>
    /\ Len(si_out) < LinkDepth
    /\ si_todo' = Tail(si_todo)
    /\ si_out' = Append(si_out, Head(si_todo))
    /\ UNCHANGED <<steps, sta_todo, assert_out, sta_out, sample_in, mask_in, disp_in,
                   mask_out, wordVars, nmVars, outVars, due>>

WeightDuplicate ==
    /\ sta_out # <<>>
    /\ Len(sample_in) < SampleDepth /\ Len(mask_in) < LinkDepth /\ Len(disp_in) < LinkDepth
    /\ sta_out' = Tail(sta_out)
    /\ sample_in' = Append(sample_in, Head(sta_out).words)
    /\ mask_in' = Append(mask_in, Head(sta_out).words)
    /\ disp_in' = Append(disp_in, Head(sta_out))
    /\ UNCHANGED <<inVars, assert_out, si_out, mask_out, wordVars, nmVars, outVars, due>>

WeightDuplicate4 ==
    /\ si_out # <<>>
    /\ \A o \in Os : Len(last_adj[o]) < LastDepth
    /\ si_out' = Tail(si_out)
    /\ last_adj' = [o \in Os |-> Append(last_adj[o], Head(si_out))]
    /\ UNCHANGED <<inVars, assert_out, sta_out, sample_in, mask_in, disp_in, mask_out,
                   curr_adj, curr_mask, nmVars, outVars, due>>

\* the last flag of a line goes with its last word to every copy
DispatchWords ==
    /\ disp_in # <<>>
    /\ \A o \in Os : Len(curr_adj[o]) + Lanes \div NumOs <= AdjDepth
    /\ disp_in' = Tail(disp_in)
    /\ LET share(o) == Share(Head(disp_in).words, o)
       IN  curr_adj' = [o \in Os |-> curr_adj[o] \o
             [i \in 1..Len(share(o)) |->
                [v |-> share(o)[i], last |-> Head(disp_in).last /\ i = Len(share(o))]]]
    /\ UNCHANGED <<inVars, assert_out, sta_out, si_out, sample_in, mask_in, mask_out,
                   last_adj, curr_mask, nmVars, outVars, due>>

CurrentMask ==
    /\ mask_in # <<>> /\ assert_out # <<>>
    /\ Len(mask_out) < LinkDepth
    /\ mask_in' = Tail(mask_in)
    /\ assert_out' = Tail(assert_out)
    /\ mask_out' = Append(mask_out, [k \in Words |->
                     IF Head(mask_in)[k] = Head(assert_out) THEN SC_BACK ELSE 0])
    /\ UNCHANGED <<inVars, sta_out, si_out, sample_in, disp_in, wordVars, nmVars, outVars, due>>

DispatchMask ==
    /\ mask_out # <<>>
    /\ \A o \in Os : Len(curr_mask[o]) + Lanes \div NumOs <= MaskDepth
    /\ mask_out' = Tail(mask_out)
    /\ curr_mask' = [o \in Os |-> curr_mask[o] \o Share(Head(mask_out), o)]
    /\ UNCHANGED <<inVars, assert_out, sta_out, si_out, sample_in, mask_in, disp_in,
                   curr_adj, last_adj, nmVars, outVars, due>>

-----------------------------------------------------------------------------
(* neighbor_mask, one action for each state of its loop.  The last flag it  *)
(* writes is dropped by merge_mask and left out.                            *)

InLine(v, line) == \E k \in Words : line[k] = v

\* NEIGHBOR_SET and NEIGHBOR_UNSET
Mark(v, set) == IF v = 0 THEN 0 ELSE IF set THEN SC_LOOP ELSE SC_CHAIN

\* mutant: a line is given up after any match
ComparisonDropsLine(v, line) ==
    IF InLine(v, line) THEN [state |-> "READ_CURR", write |-> TRUE, set |-> TRUE]
    ELSE IF v < line[Lanes]
    THEN [state |-> "READ_CURR_WITH_LAST", write |-> TRUE, set |-> FALSE]
    ELSE [state |-> "READ_LAST_WITH_CURR", write |-> FALSE, set |-> FALSE]

\* COMPARISON, with the last word of a line that is not the last one
Comparison(v, line) ==
    IF InLine(v, line)
    THEN [state |-> IF v = line[Lanes] THEN "READ_CURR" ELSE "READ_CURR_WITH_LAST",
          write |-> TRUE, set |-> TRUE]
    ELSE IF v < line[Lanes]
    THEN [state |-> "READ_CURR_WITH_LAST", write |-> TRUE, set |-> FALSE]
    ELSE [state |-> "READ_LAST_WITH_CURR", write |-> FALSE, set |-> FALSE]

\* out.write
Write(o, v, set) ==
    /\ Len(last_mask[o]) < MaskDepth
    /\ last_mask' = [last_mask EXCEPT ![o] = Append(@, Mark(v, set))]

NoWrite == UNCHANGED last_mask

TakeCurr(o) ==
    /\ curr_adj[o] # <<>>
    /\ curr_adj' = [curr_adj EXCEPT ![o] = Tail(@)]
    /\ UNCHANGED <<inVars, lineVars, last_adj, curr_mask, outVars, due>>

TakeLast(o) ==
    /\ last_adj[o] # <<>>
    /\ last_adj' = [last_adj EXCEPT ![o] = Tail(@)]
    /\ UNCHANGED <<inVars, lineVars, curr_adj, curr_mask, outVars, due>>

\* mutant: the end of the current list is not seen
ReadCurrIgnoresLast(o) ==
    /\ nm[o].state = "READ_CURR"
    /\ TakeCurr(o)
    /\ nm' = [nm EXCEPT ![o].curr = Head(curr_adj[o]).v, ![o].state = "READ_LAST_WITH_CURR"]
    /\ NoWrite

ReadCurr(o) ==
    /\ nm[o].state = "READ_CURR"
    /\ TakeCurr(o)
    /\ LET in == Head(curr_adj[o])
       IN  nm' = [nm EXCEPT ![o] =
             IF in.last THEN [@ EXCEPT !.curr = in.v, !.final = FALSE, !.state = "END_CURR"]
                        ELSE [@ EXCEPT !.curr = in.v, !.state = "READ_LAST_WITH_CURR"]]
    /\ NoWrite

ReadLastWithCurr(o) ==
    /\ nm[o].state = "READ_LAST_WITH_CURR"
    /\ TakeLast(o)
    /\ LET in == Head(last_adj[o])
           v  == nm[o].curr
           c  == Comparison(v, in.words)
       IN  IF in.last
           THEN /\ nm' = [nm EXCEPT ![o].line = in.words, ![o].state = "END_LAST"]
                /\ Write(o, v, InLine(v, in.words))
           ELSE /\ nm' = [nm EXCEPT ![o].line = in.words, ![o].state = c.state]
                /\ IF c.write THEN Write(o, v, c.set) ELSE NoWrite

ReadCurrWithLast(o) ==
    /\ nm[o].state = "READ_CURR_WITH_LAST"
    /\ TakeCurr(o)
    /\ LET in == Head(curr_adj[o])
           c  == Comparison(in.v, nm[o].line)
       IN  IF in.last
           THEN /\ nm' = [nm EXCEPT ![o].curr = in.v, ![o].state = "END_CURR",
                                    ![o].final = InLine(in.v, nm[o].line)]
                /\ NoWrite
           ELSE /\ nm' = [nm EXCEPT ![o].curr = in.v, ![o].state = c.state]
                /\ IF c.write THEN Write(o, in.v, c.set) ELSE NoWrite

\* the previous list has ended: the line held is its last one
EndLast(o) ==
    /\ nm[o].state = "END_LAST"
    /\ TakeCurr(o)
    /\ LET in == Head(curr_adj[o])
       IN  /\ Write(o, in.v, InLine(in.v, nm[o].line))
           /\ nm' = [nm EXCEPT ![o].curr = in.v,
                               ![o].state = IF in.last THEN "READ_CURR" ELSE @]

\* the current list has ended: its last word is looked for in the lines left
EndCurr(o) ==
    /\ nm[o].state = "END_CURR"
    /\ TakeLast(o)
    /\ LET in == Head(last_adj[o])
           found == InLine(nm[o].curr, in.words)
       IN  IF in.last
           THEN /\ Write(o, nm[o].curr, nm[o].final \/ found)
                /\ nm' = [nm EXCEPT ![o].line = in.words, ![o].final = FALSE,
                                    ![o].state = "READ_CURR"]
           ELSE /\ NoWrite
                /\ nm' = [nm EXCEPT ![o].line = in.words, ![o].final = found]

NeighborMask(o) == ReadCurr(o) \/ ReadLastWithCurr(o) \/ ReadCurrWithLast(o)
                   \/ EndLast(o) \/ EndCurr(o)

-----------------------------------------------------------------------------
(* The weights                                                             *)

MergeMask(o) ==
    /\ last_mask[o] # <<>> /\ curr_mask[o] # <<>>
    /\ Len(merged[o]) < MaskDepth
    /\ merged' = [merged EXCEPT ![o] =
                    Append(@, IF Head(curr_mask[o]) = 0 THEN Head(last_mask[o])
                                                        ELSE Head(curr_mask[o]))]
    /\ last_mask' = [last_mask EXCEPT ![o] = Tail(@)]
    /\ curr_mask' = [curr_mask EXCEPT ![o] = Tail(@)]
    /\ UNCHANGED <<inVars, lineVars, curr_adj, last_adj, nm, counter, out_data, weight_out, due>>

\* mutant: the counter runs on into the next line
MergeWeightNoWrap ==
    /\ \A o \in Os : merged[o] # <<>>
    /\ merged' = [o \in Os |-> Tail(merged[o])]
    /\ out_data' = [k \in Words |-> IF k - counter \in Os THEN Head(merged[k - counter])
                                                          ELSE out_data[k]]
    /\ IF counter = Lanes - NumOs
       THEN Len(weight_out) < LinkDepth /\ weight_out' = Append(weight_out, out_data')
       ELSE UNCHANGED weight_out
    /\ counter' = counter + NumOs
    /\ UNCHANGED <<inVars, lineVars, wordVars, nmVars, due>>

MergeWeight ==
    /\ \A o \in Os : merged[o] # <<>>
    /\ merged' = [o \in Os |-> Tail(merged[o])]
    /\ out_data' = [k \in Words |-> IF k - counter \in Os THEN Head(merged[k - counter])
                                                          ELSE out_data[k]]
    /\ IF counter = Lanes - NumOs
       THEN Len(weight_out) < LinkDepth /\ weight_out' = Append(weight_out, out_data')
       ELSE UNCHANGED weight_out
    /\ counter' = (counter + NumOs) % Lanes
    /\ UNCHANGED <<inVars, lineVars, wordVars, nmVars, due>>

\* the sampling kernels read a line and its weights together (module Wrs)
Sample ==
    /\ weight_out # <<>> /\ sample_in # <<>>
    /\ weight_out' = Tail(weight_out)
    /\ sample_in' = Tail(sample_in)
    /\ due' = Tail(due)
    /\ UNCHANGED <<inVars, assert_out, sta_out, si_out, mask_in, disp_in, mask_out, wordVars,
                   nmVars, merged, counter, out_data>>

\* the walks ask for no further step; that the ones asked for are weighed is
\* EveryStepWeighed
Idle == steps = <<>> /\ UNCHANGED vars

Next == Request \/ StaBurst \/ SiBurst \/ WeightDuplicate \/ WeightDuplicate4
        \/ DispatchWords \/ CurrentMask \/ DispatchMask
        \/ (\E o \in Os : NeighborMask(o) \/ MergeMask(o))
        \/ MergeWeight \/ Sample \/ Idle

Spec == Init /\ [][Next]_vars

\* the kernels are free-running, and the memory answers
Fairness ==
    /\ WF_vars(StaBurst) /\ WF_vars(SiBurst)
    /\ WF_vars(WeightDuplicate) /\ WF_vars(WeightDuplicate4)
    /\ WF_vars(DispatchWords) /\ WF_vars(CurrentMask) /\ WF_vars(DispatchMask)
    /\ \A o \in Os : WF_vars(NeighborMask(o)) /\ WF_vars(MergeMask(o))
    /\ WF_vars(MergeWeight) /\ WF_vars(Sample)

FairSpec == Spec /\ Fairness

-----------------------------------------------------------------------------
(* Properties                                                              *)

Line == [Words -> 0..Invalid]

\* merge_weight fills its line in steps of a word per copy, and every stream
\* carries only the marks and weights its writer can produce.
TypeOK ==
    /\ counter \in {n * NumOs : n \in 0 .. Lanes \div NumOs - 1}
    /\ assert_out \in Seq(Vertices)
    /\ \A s \in {sta_out, si_out, disp_in} : s \in Seq([words: Line, last: BOOLEAN])
    /\ sample_in \in Seq(Line) /\ mask_in \in Seq(Line)
    /\ mask_out \in Seq([Words -> {0, SC_BACK}])
    /\ \A o \in Os :
         /\ curr_adj[o] \in Seq([v: Vertices, last: BOOLEAN])
         /\ last_adj[o] \in Seq([words: Line, last: BOOLEAN])
         /\ curr_mask[o] \in Seq({0, SC_BACK})
         /\ last_mask[o] \in Seq({0, SC_LOOP, SC_CHAIN})
         /\ merged[o] \in Seq({0, SC_BACK, SC_LOOP, SC_CHAIN})
         /\ nm[o] \in [state: {"READ_CURR", "READ_LAST_WITH_CURR", "READ_CURR_WITH_LAST",
                               "END_LAST", "END_CURR"},
                       curr: Vertices, line: Line, final: BOOLEAN]
    /\ weight_out \in Seq([Words -> {0, SC_BACK, SC_LOOP, SC_CHAIN}])

\* The weights that arrive at the sampler are those of the line it reads next,
\* and each is right: what neighbor_mask finds while it walks along two sorted
\* lists, and which list ends first, is what a search of the whole list finds.
WeightsAreExact ==
    weight_out # <<>> =>
        /\ weight_out[1] = due[1].weights
        /\ sample_in # <<>> /\ sample_in[1] = due[1].words

\* When every line of the steps so far is weighed, no line of a previous list
\* and no word of a current one is left anywhere, and every copy of
\* neighbor_mask waits for a new list: the next step starts on its own lists.
\* All along, everything has its type.
ListsEndTogether ==
    TypeOK /\ (due = <<>> =>
        /\ sta_todo = <<>> /\ si_todo = <<>> /\ sta_out = <<>> /\ si_out = <<>>
        /\ assert_out = <<>> /\ mask_in = <<>> /\ disp_in = <<>> /\ mask_out = <<>>
        /\ \A o \in Os : /\ curr_adj[o] = <<>> /\ last_adj[o] = <<>> /\ curr_mask[o] = <<>>
                         /\ nm[o].state = "READ_CURR" /\ ~nm[o].final)

\* Every step is weighed: copies that share the lines of the previous list and
\* split the words of the current one do not block each other.
EveryStepWeighed == (due # <<>>) ~> (due = <<>>)
=============================================================================
