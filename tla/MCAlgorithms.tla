---------------------------- MODULE MCAlgorithms ----------------------------
(***************************************************************************)
(* The sampler and the hosts' graph, which share no variable: a behaviour  *)
(* is of one of them.                                                      *)
(*                                                                         *)
(* The sampler: the pipeline of Wrs, with lines of two words and one       *)
(* label; and the arithmetic by itself, on every list of weights of at     *)
(* most MaxWeightLines lines, against what a weighted sample has to be.    *)
(*                                                                         *)
(* The graph: edge lists of at most MaxEdges lines over four vertices,     *)
(* with doubled and turned edges, a loop and a vertex without neighbours.  *)
(* Two renumberings, a reversal and a rotation, are enough to reach eight  *)
(* orders of four vertices by repetition.  The same edge lists, as         *)
(* directed and as undirected graphs, are cut into chunks.                 *)
(***************************************************************************)
EXTENDS Wrs, XGraph, GpPartition

CONSTANTS Weights,         \* the weights of a word
          MaxWeightLines,  \* lines of a list of weights
          DrawMod,         \* RngMod and SumMod of the arithmetic by itself: it
          WideMod          \* is about numbers, the pipeline about pairing

VARIABLE lines       \* the list of weights

\* the arithmetic with numbers that make the shares exact
Exact == INSTANCE Reservoir WITH RngMod <- DrawMod, SumMod <- WideMod

NoGraph == edge_list = <<>> /\ graph = <<>>

Sampling == NoGraph /\ lines = <<>> /\ Next /\ UNCHANGED <<lines, graphVars>>

AddLine == /\ Len(lines) < MaxWeightLines /\ NoGraph /\ fed = 0
           /\ \E w \in [Lane -> Weights] : lines' = Append(lines, w)
           /\ UNCHANGED <<vars, graphVars>>

UseGraph == lines = <<>> /\ fed = 0 /\ GraphNext /\ UNCHANGED <<vars, lines>>

\* nobody has to go on with an input or a graph
Rest == (lines # <<>> \/ ~NoGraph) /\ UNCHANGED <<vars, lines, graphVars>>

AllInit == Init /\ GraphInit /\ lines = <<>>

\* the kernels of the sampler are fair, as in Wrs
AllSpec == /\ AllInit
           /\ [][Sampling \/ AddLine \/ UseGraph \/ Rest]_<<vars, lines, graphVars>>
           /\ Fairness

MCEdges == {<<0, 1>>, <<1, 0>>, <<2, 0>>, <<2, 2>>, <<2, 1>>, <<3, 1>>}

MCNumberings(n) == {[i \in 0 .. n - 1 |-> n - 1 - i], [i \in 0 .. n - 1 |-> (i + 1) % n]}

-----------------------------------------------------------------------------

Positions == 1 .. Len(lines) * Lanes

WeightAt(p) == lines[((p - 1) \div Lanes) + 1][((p - 1) % Lanes) + 1]

\* the weights up to each word of the list
Sums == LET s[p \in Positions] == WeightAt(p) + (IF p = 1 THEN 0 ELSE s[p - 1])
        IN  s

Total == IF lines = <<>> THEN 0 ELSE Sums[Len(lines) * Lanes]

Draws == [1..Len(lines) -> [Lane -> 0..DrawMod - 1]]

\* no sum of weights makes the scaling round
Even == \A p \in Positions : Sums[p] = 0 \/ DrawMod % Sums[p] = 0

\* Each word is the sample in a share of all draws that is its share of the
\* total weight, wherever the list is cut into lines.  (The weight of a word
\* later in the list takes its share from the earlier ones draw by draw; no
\* test of a few thousand walks tells a small bias from chance.)
Proportional ==
    Even => \A p \in Positions :
              Total * Cardinality({r \in Draws : Exact!SampleOf(lines, r) = p})
                = WeightAt(p) * Cardinality(Draws)

\* Whatever the draw and however the scaling rounds, the sample has a weight,
\* and there is one if the list has any: a walk ends only at a vertex with no
\* eligible neighbour.
SampleHasWeight ==
    \A r \in Draws : LET p == Exact!SampleOf(lines, r)
                     IN  IF Total = 0 THEN p = Dead ELSE p # Dead /\ WeightAt(p) > 0

\* the chunks of a graph, and its edges in partition p by their old numbers
Info(isUgraph) == DataLoad(CSR(edge_list, isUgraph))

Wanted(isUgraph, p) ==
    LET kept == Info(isUgraph).vertexMapping
        here == {kept[j + 1] : j \in p * PartitionSize .. IndexEnd(Info(isUgraph), p) - 1}
    IN  SelectSeq(Arcs(edge_list, isUgraph), LAMBDA e : e[2] \in here)

\* The chunks of a graph are fit for the accelerator.  Every edge between vertices
\* that stay is in exactly one chunk of the partition of its destination, as often
\* as the graph has it, after two renumberings, a sort and two roundings; and a
\* chunk with an edge is a whole number of bursts whose sources ascend to the end,
\* the filling included: what SrcCache assumes of its input.
ChunksAreRight ==
    graph = <<>> /\ edge_list # <<>> =>
      \A isUgraph \in BOOLEAN :
        LET info == Info(isUgraph)
            old(e) == <<info.vertexMapping[e[1] + 1], info.vertexMapping[e[2] + 1]>>
        IN  \A p \in 0 .. info.partitionNum - 1 :
              LET chunks == [i \in 1 .. SubPartitions |-> Chunk(info, p, i - 1)]
                  real == SelectSeq(FlattenSeq(chunks), LAMBDA e : e[2] # Fill)
              IN  /\ SortSeq([k \in 1 .. Len(real) |-> old(real[k])], EdgeLess)
                       = SortSeq(Wanted(isUgraph, p), EdgeLess)
                  /\ \A i \in 1 .. SubPartitions :
                       LET c == chunks[i]
                       IN  /\ Len(c) % AlignSize = 0
                           /\ c # <<>> /\ c[1][2] # Fill =>
                                \A k \in 2 .. Len(c) : c[k - 1][1] <= c[k][1]
=============================================================================
