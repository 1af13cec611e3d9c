-------------------------------- MODULE Wrs --------------------------------
(***************************************************************************)
(* The sampling kernels of the MetaPath accelerator (src/metapath/         *)
(* label_filter, src/wrs, src/msample), which turn the lines of a          *)
(* neighbour list into one sampled word.  A line is split into a sync      *)
(* packet and a line of weights that meet again in perfix_sum and, by      *)
(* another way, in sample:                                                 *)
(*                                                                         *)
(*   label_filter -- bs_duplicator ------------------------- sample        *)
(*        |                |                                    ^          *)
(*        |                v             rng                    |          *)
(*        +---- partial_sum - perfix_sum - scale_weight - reservoir_mask   *)
(*                   |                                          ^          *)
(*                   +------------------------------------------+          *)
(*                                                                         *)
(* No packet says which list or line it belongs to: the k-th packets of    *)
(* all streams belong together.  perfix_sum and sample carry state from    *)
(* line to line of a list and start afresh at its end.                     *)
(*                                                                         *)
(* The random numbers of a line are chosen when the line comes in and wait *)
(* in the stream from the generator.                                       *)
(***************************************************************************)
EXTENDS Reservoir

CONSTANTS
    Labels,     \* the labels of a metapath
    OtherWords, \* other words of memory lines: 0 for masked ones, other labels
    Depth,      \* depth of the streams between the kernels (16)
    WideDepth,  \* depth of the two streams that wait for the others (2048)
    MaxLines    \* bound on the number of lines

\* A label is never 0, the value of the words the burst engines mask.
ASSUME LabelAssumption ==
    /\ 0 \in OtherWords
    /\ Labels \intersect OtherWords = {}
    /\ Depth \in Nat \ {0} /\ WideDepth \in Nat \ {0} /\ MaxLines \in Nat

VARIABLES
    fed,        \* lines so far
    bs,         \* label_filter -> bs_duplicator
    weight_in,  \* label_filter -> partial_sum
    bs_perfix, bs_sample,  \* bs_duplicator -> perfix_sum, sample
    weight,     \* partial_sum -> reservoir_mask
    partial,    \* partial_sum -> perfix_sum
    base_sum,   \* perfix_sum: the sum of the lines before (all lanes agree)
    sums,       \* perfix_sum -> scale_weight, both streams
    rng,        \* the generator -> scale_weight
    scale,      \* scale_weight -> reservoir_mask
    mask,       \* reservoir_mask -> sample
    selected,   \* sample: selected_index
    result,     \* the sample written last, and history: its list
    lists       \* history: the lists not sampled, oldest first

feedVars   == <<fed, bs, weight_in, rng, lists>>
perfixVars == <<bs_perfix, partial, base_sum>>
sampleVars == <<bs_sample, mask, selected, result>>
vars == <<fed, bs, weight_in, bs_perfix, bs_sample, weight, partial, base_sum,
          sums, rng, scale, mask, selected, result, lists>>

-----------------------------------------------------------------------------

NewList == [words |-> <<>>, rngs |-> <<>>, label |-> 0, done |-> FALSE]

Init ==
    /\ fed = 0
    /\ bs = <<>> /\ weight_in = <<>> /\ rng = <<>>
    /\ bs_perfix = <<>> /\ bs_sample = <<>>
    /\ weight = <<>> /\ partial = <<>> /\ base_sum = 0 /\ sums = <<>>
    /\ scale = <<>> /\ mask = <<>>
    /\ selected = Dead
    /\ result = [to |-> Dead, list |-> NewList]
    /\ lists = <<>>

\* the list a line is added to: the open one, or a new one
Open == lists # <<>> /\ ~lists[Len(lists)].done

OpenList == IF Open THEN lists[Len(lists)] ELSE NewList

Closed == IF Open THEN SubSeq(lists, 1, Len(lists) - 1) ELSE lists

\* label_filter: the eligible words of a line, as weights 0 and 1
Eligible(words, label) == [i \in Lane |-> IF words[i] = label THEN 1 ELSE 0]

\* a line of the current list, or the first one of a new list, comes in
LabelFilter ==
    /\ fed < MaxLines
    /\ Len(bs) < Depth /\ Len(weight_in) < Depth
    /\ \E label \in IF Open THEN {OpenList.label} ELSE Labels,
          words \in [Lane -> Labels \union OtherWords],
          r \in [Lane -> 0..RngMod - 1],
          end \in BOOLEAN :
         /\ bs' = Append(bs, [addr |-> Len(OpenList.words) * Lanes, end_of_burst |-> end])
         /\ weight_in' = Append(weight_in, Eligible(words, label))
         /\ rng' = Append(rng, r)
         /\ lists' = Append(Closed, [words |-> Append(OpenList.words, words),
                                     rngs |-> Append(OpenList.rngs, r),
                                     label |-> label, done |-> end])
    /\ fed' = fed + 1
    /\ UNCHANGED <<perfixVars, weight, sums, scale, sampleVars>>

\* Mutant of DoPartialSum: the sums are not written for a line without weights.
DoPartialSumSkipsZero ==
    /\ weight_in # <<>>
    /\ Len(weight) < WideDepth /\ Len(partial) < Depth
    /\ weight' = Append(weight, Head(weight_in))
    /\ partial' = IF PartialSum(Head(weight_in))[Lanes] = 0 THEN partial
                  ELSE Append(partial, PartialSum(Head(weight_in)))
    /\ weight_in' = Tail(weight_in)
    /\ UNCHANGED <<fed, bs, rng, lists, bs_perfix, base_sum, sums, scale, sampleVars>>

BsDuplicator ==
    /\ bs # <<>>
    /\ Len(bs_perfix) < Depth /\ Len(bs_sample) < WideDepth
    /\ bs_perfix' = Append(bs_perfix, Head(bs))
    /\ bs_sample' = Append(bs_sample, Head(bs))
    /\ bs' = Tail(bs)
    /\ UNCHANGED <<fed, weight_in, rng, lists, partial, base_sum, weight, sums,
                   scale, mask, selected, result>>

DoPartialSum ==
    /\ weight_in # <<>>
    /\ Len(weight) < WideDepth /\ Len(partial) < Depth
    /\ weight' = Append(weight, Head(weight_in))
    /\ partial' = Append(partial, PartialSum(Head(weight_in)))
    /\ weight_in' = Tail(weight_in)
    /\ UNCHANGED <<fed, bs, rng, lists, bs_perfix, base_sum, sums, scale, sampleVars>>

PerfixSum ==
    /\ bs_perfix # <<>> /\ partial # <<>>
    /\ Len(sums) < Depth
    /\ sums' = Append(sums, [base |-> base_sum, partial |-> Head(partial)])
    /\ base_sum' = IF Head(bs_perfix).end_of_burst THEN 0
                                                   ELSE NextBase(base_sum, Head(partial))
    /\ bs_perfix' = Tail(bs_perfix)
    /\ partial' = Tail(partial)
    /\ UNCHANGED <<feedVars, weight, scale, sampleVars>>

ScaleWeight ==
    /\ sums # <<>> /\ rng # <<>>
    /\ Len(scale) < Depth
    /\ LET s == Head(sums)
       IN  scale' = Append(scale, [i \in Lane |-> Scale(Head(rng)[i], s.base, s.partial[i])])
    /\ sums' = Tail(sums)
    /\ rng' = Tail(rng)
    /\ UNCHANGED <<fed, bs, weight_in, lists, perfixVars, weight, sampleVars>>

ReservoirMask ==
    /\ weight # <<>> /\ scale # <<>>
    /\ Len(mask) < Depth
    /\ mask' = Append(mask, Mask(Head(weight), Head(scale)))
    /\ weight' = Tail(weight)
    /\ scale' = Tail(scale)
    /\ UNCHANGED <<feedVars, perfixVars, sums, bs_sample, selected, result>>

\* Mutant of SampleEnd: the selection is kept for the next list.
SampleEndNoReset ==
    /\ bs_sample # <<>> /\ mask # <<>>
    /\ Head(bs_sample).end_of_burst
    /\ selected' = Keep(selected, Head(bs_sample).addr, Head(mask))
    /\ result' = [to |-> Keep(selected, Head(bs_sample).addr, Head(mask)),
                  list |-> Head(lists)]
    /\ lists' = Tail(lists)
    /\ bs_sample' = Tail(bs_sample)
    /\ mask' = Tail(mask)
    /\ UNCHANGED <<fed, bs, weight_in, rng, perfixVars, weight, sums, scale>>

\* the last line of a list: its sample is written
SampleEnd ==
    /\ bs_sample # <<>> /\ mask # <<>>
    /\ Head(bs_sample).end_of_burst
    /\ result' = [to |-> Keep(selected, Head(bs_sample).addr, Head(mask)),
                  list |-> Head(lists)]
    /\ selected' = Dead
    /\ lists' = Tail(lists)
    /\ bs_sample' = Tail(bs_sample)
    /\ mask' = Tail(mask)
    /\ UNCHANGED <<fed, bs, weight_in, rng, perfixVars, weight, sums, scale>>

SampleLine ==
    /\ bs_sample # <<>> /\ mask # <<>>
    /\ ~Head(bs_sample).end_of_burst
    /\ selected' = Keep(selected, Head(bs_sample).addr, Head(mask))
    /\ bs_sample' = Tail(bs_sample)
    /\ mask' = Tail(mask)
    /\ UNCHANGED <<feedVars, perfixVars, weight, sums, scale, result>>

\* no line left to feed and the last one sampled
Idle == /\ fed = MaxLines
        /\ bs_sample = <<>> /\ mask = <<>> /\ weight = <<>> /\ bs = <<>> /\ weight_in = <<>>
        /\ UNCHANGED vars

Sample == SampleEnd \/ SampleLine

Next == LabelFilter \/ BsDuplicator \/ DoPartialSum \/ PerfixSum \/ ScaleWeight
        \/ ReservoirMask \/ Sample \/ Idle

Spec == Init /\ [][Next]_vars

\* the kernels are free-running; the generator never runs dry
Fairness ==
    /\ WF_vars(BsDuplicator) /\ WF_vars(DoPartialSum) /\ WF_vars(PerfixSum)
    /\ WF_vars(ScaleWeight) /\ WF_vars(ReservoirMask) /\ WF_vars(Sample)

FairSpec == Spec /\ Fairness

-----------------------------------------------------------------------------
(* Properties                                                              *)

\* Sums and scaled numbers stay in the width of their words, weights are 0 or 1
\* and the sample is a word of the lines that were fed.
TypeOK ==
    /\ fed \in 0..MaxLines
    /\ base_sum \in 0..SumMod - 1
    /\ selected \in {Dead} \union 1..MaxLines * Lanes
    /\ weight_in \in Seq([Lane -> {0, 1}]) /\ weight \in Seq([Lane -> {0, 1}])
    /\ partial \in Seq([Lane -> 0..SumMod - 1])
    /\ sums \in Seq([base: 0..SumMod - 1, partial: [Lane -> 0..SumMod - 1]])
    /\ rng \in Seq([Lane -> 0..RngMod - 1])
    /\ scale \in Seq([Lane -> 0..SumMod - 1])
    /\ mask \in Seq([Lane -> BOOLEAN])

\* The sample is the one the arithmetic of Reservoir gives for the whole list
\* and the random numbers drawn for it: lines of different lists, in flight at
\* the same time, never meet, and nothing of one list is left for the next.
\* All along, everything has its type.
SampleIsOfItsList ==
    LET l == result.list
    IN  TypeOK /\ result.to = SampleOf([k \in 1..Len(l.words) |-> Eligible(l.words[k], l.label)], l.rngs)

\* the word at a position of a list
WordAt(l, p) == l.words[((p - 1) \div Lanes) + 1][((p - 1) % Lanes) + 1]

\* The sample has the label the metapath asks for, and a walk ends only at a
\* vertex with no such neighbour; a masked word is never sampled.
SampleHasLabel ==
    LET l == result.list
        p == result.to
    IN  IF p = Dead THEN \A q \in 1..Len(l.words) * Lanes : WordAt(l, q) # l.label
                    ELSE WordAt(l, p) = l.label

\* Every list that is complete is sampled: the branches of the pipeline do not
\* wait for each other in a circle however short the streams are.
EveryListSampled ==
    (\E i \in 1..Len(lists) : lists[i].done) ~> (\A i \in 1..Len(lists) : ~lists[i].done)
=============================================================================
