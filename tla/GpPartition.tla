---------------------------- MODULE GpPartition ----------------------------
(***************************************************************************)
(* host/gp: how the host of the source-cache design cuts a graph.          *)
(*                                                                         *)
(* Vertices without outgoing edges are dropped and the others renumbered;  *)
(* the edges go to the partition of their destination and there, in order  *)
(* of their sources, into SubPartitions chunks of equal size, filled up to *)
(* whole bursts.  The kernels of module SrcCache take a chunk for a stream *)
(* of ascending sources.                                                   *)
(*                                                                         *)
(* acceleratorDataLoad reads the offset behind the last vertex from        *)
(* outside its arrays; it is taken to be there, as CSR leaves it.          *)
(***************************************************************************)
EXTENDS Integers, Sequences, SequencesExt

CONSTANTS
    PartitionSize,   \* PARTITION_SIZE: vertices in a partition
    SubPartitions,   \* SUB_PARTITION_NUM
    AlignSize        \* ALIGN_SIZE: edges in a burst

ASSUME PartitionAssumption ==
    /\ PartitionSize \in Nat \ {0} /\ SubPartitions \in Nat \ {0} /\ AlignSize \in Nat \ {0}

CeilDiv(a, b) == (a + b - 1) \div b

-----------------------------------------------------------------------------
(* Graph and CSR                                                           *)

\* the edges of the vertices: an undirected graph gets each line both ways, a loop once
Arcs(list, isUgraph) ==
    LET back == SelectSeq(list, LAMBDA e : isUgraph /\ e[1] # e[2])
    IN  list \o [i \in 1 .. Len(back) |-> <<back[i][2], back[i][1]>>]

\* vertexNum: getMaxIdx + 1
VertexNum(list) ==
    LET ids == UNION {{list[i][1], list[i][2]} : i \in 1 .. Len(list)}
    IN  1 + CHOOSE m \in ids : \A v \in ids : v <= m

\* outVid and inVid of every vertex, sorted
OutVid(arcs, v) ==
    LET mine == SelectSeq(arcs, LAMBDA e : e[1] = v)
    IN  SortSeq([k \in 1 .. Len(mine) |-> mine[k][2]], <)

InVid(arcs, v) ==
    LET mine == SelectSeq(arcs, LAMBDA e : e[2] = v)
    IN  SortSeq([k \in 1 .. Len(mine) |-> mine[k][1]], <)

\* rpao and rpai from the sizes of the lists
Rpa(lists) ==
    LET f[i \in 0 .. Len(lists)] == IF i = 0 THEN 0 ELSE f[i - 1] + Len(lists[i]) IN f

CSR(list, isUgraph) ==
    LET arcs == Arcs(list, isUgraph)
        n == VertexNum(list)
        out == [i \in 1 .. n |-> OutVid(arcs, i - 1)]
        in == [i \in 1 .. n |-> InVid(arcs, i - 1)]
    IN  [vertexNum |-> n, rpao |-> Rpa(out), rpai |-> Rpa(in), ciai |-> FlattenSeq(in)]

-----------------------------------------------------------------------------
(* acceleratorDataLoad                                                     *)

\* vertexMapping: the vertices with outgoing edges
VertexMapping(c) ==
    SelectSeq([i \in 1 .. c.vertexNum |-> i - 1], LAMBDA v : c.rpao[v + 1] - c.rpao[v] > 0)

\* mapping_vertex_array
MappedTo(kept, v) == Len(SelectSeq(kept, LAMBDA u : u < v))

\* rpa, cia and destIndexList of the vertices that stay
DataLoad(c) ==
    LET kept == VertexMapping(c)
        in == [j \in 1 .. Len(kept) |->
                 LET l == SubSeq(c.ciai, c.rpai[kept[j]] + 1, c.rpai[kept[j] + 1])
                 IN  [k \in 1 .. Len(l) |-> <<MappedTo(kept, l[k]), j - 1>>]]
    IN  [compressedVertexNum |-> Len(kept), vertexMapping |-> kept, rpa |-> Rpa(in),
         partitionNum |-> CeilDiv(Len(kept), PartitionSize), edges |-> FlattenSeq(in)]

IndexEnd(info, p) ==
    IF (p + 1) * PartitionSize > info.compressedVertexNum
    THEN info.compressedVertexNum ELSE (p + 1) * PartitionSize

\* the edges of partition p
PartitionEdges(info, p) ==
    SubSeq(info.edges, info.rpa[p * PartitionSize] + 1, info.rpa[IndexEnd(info, p)])

\* Mutant of EdgeNumChunk: the rest of the division is forgotten.
EdgeNumChunkCut(info, p) ==
    CeilDiv(Len(PartitionEdges(info, p)) \div SubPartitions, AlignSize) * AlignSize

EdgeNumChunk(info, p) ==
    CeilDiv(CeilDiv(Len(PartitionEdges(info, p)), SubPartitions), AlignSize) * AlignSize

-----------------------------------------------------------------------------
(* partitionFunction                                                       *)

\* multimap: in order of the sources, equal ones in the order they came
BySource(s) ==
    LET order == SortSeq([i \in 1 .. Len(s) |-> i],
                         LAMBDA i, j : s[i][1] < s[j][1] \/ (s[i][1] = s[j][1] /\ i < j))
    IN  [i \in 1 .. Len(s) |-> s[order[i]]]

\* destination of an edge that only fills a burst (ENDFLAG - 1), and the source of one
\* in a chunk without any edge: the word before the chunk
Fill == -1
Anything == -2

\* chunkEdgeData[p][sp]: filled up with the source of the edge before
Chunk(info, p, sp) ==
    LET sorted == BySource(PartitionEdges(info, p))
        num == EdgeNumChunk(info, p)
        first == sp * num
        fill == IF first < Len(sorted) THEN sorted[Len(sorted)][1] ELSE Anything
    IN  [ii \in 1 .. num |-> IF first + ii <= Len(sorted) THEN sorted[first + ii] ELSE <<fill, Fill>>]
=============================================================================
