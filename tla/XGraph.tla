------------------------------- MODULE XGraph -------------------------------
(***************************************************************************)
(* class Graph of host/xgraph: the graph the hosts walk on.                *)
(*                                                                         *)
(* A graph comes from an edge list or from CSR files and goes back to      *)
(* either; it can be cut into partitions and its vertices can be given new *)
(* numbers.  All the rest of the system takes for granted what comes out:  *)
(* every neighbour list sorted (neighbor_mask and is_neighbor search it),  *)
(* symmetric, without loops and duplicates, and the labels and weights of  *)
(* the edges in the same places as the edges.                              *)
(*                                                                         *)
(* The label of a vertex is its name in the first edge list and the label  *)
(* of an edge the pair of names, so that one that ends up in the wrong     *)
(* place is seen; weights are moved by the same code as labels.  Label     *)
(* files come from outside, like the hosts' data sets.  A load is one into *)
(* a new Graph, as in the hosts, and a store one into a new directory.     *)
(***************************************************************************)
EXTENDS Integers, Sequences, SequencesExt, FiniteSets, TLC

CONSTANTS
    Edges,       \* the lines an edge list may have, pairs of vertices
    MaxEdges,    \* bound on the lines of an edge list
    MaxOps,      \* bound on the operations
    Numberings(_),  \* new_to_old of a relabelling of so many vertices
    Target,      \* target_num_edges_per_partition
    SearchSpan   \* below this many entries binary_search looks at all (16)

ASSUME GraphAssumption ==
    /\ Edges \subseteq Nat \X Nat /\ MaxEdges \in Nat /\ MaxOps \in Nat
    /\ Target \in Nat /\ SearchSpan \in Nat \ {0}

ASSUME NumberingAssumption ==
    \A e \in Edges : \A n \in {e[1] + 1, e[2] + 1} :
        Numberings(n) \subseteq Permutations(0 .. n - 1)

VARIABLES
    edge_list,   \* b_edge_list.bin
    csr_files,   \* the CSR files, a sequence of at most one set of them
    graph,       \* the Graph object, a sequence of at most one
    origin,      \* origin: the edges of the first edge list, sets of two names
    names,       \* origin: names of the vertices of graph, edge_list and csr_files
    moved,       \* origin: relabel was called after the partitions were made
    ops          \* operations so far

graphVars == <<edge_list, csr_files, graph, origin, names, moved, ops>>

-----------------------------------------------------------------------------
\* the vertices of a graph
V(g) == 0 .. g.n - 1

\* offset_ from degree_
Offsets(n, degree) ==
    LET f[i \in 0 .. n] == IF i = 0 THEN 0 ELSE f[i - 1] + degree[i - 1] IN f

\* neighbors(u), and the entries of edge arrays that belong to u
Slice(g, s, u) == SubSeq(s, g.offset[u] + 1, g.offset[u] + g.degree[u])
Neighbors(g, u) == Slice(g, g.adj, u)

\* collect_metadata: the first vertex of the highest degree
MaxNode(n, degree) ==
    CHOOSE u \in 0 .. n - 1 :
        \A v \in 0 .. n - 1 : degree[v] < degree[u] \/ (degree[v] = degree[u] /\ u <= v)

-----------------------------------------------------------------------------
(* Edge lists                                                              *)

\* load_edge_list turns every line to have the smaller vertex first
Turned(e) == IF e[1] > e[2] THEN <<e[2], e[1]>> ELSE e

EdgeLess(a, b) == a[1] < b[1] \/ (a[1] = b[1] /\ a[2] < b[2])

SortedEdges(list) == SortSeq([i \in 1 .. Len(list) |-> Turned(list[i])], EdgeLess)

\* mutant: parallel edges stay
KeptEdgesAll(s) == SelectSeq(s, LAMBDA e : e[1] # e[2])

\* parallel edges are next to each other now; the first stays, unless it is a loop
KeptEdges(s) ==
    LET kept == SelectSeq([i \in 1 .. Len(s) |-> i],
                          LAMBDA i : (i = 1 \/ s[i - 1] # s[i]) /\ s[i][1] # s[i][2])
    IN  [k \in 1 .. Len(kept) |-> s[kept[k]]]

\* adj_arr: every edge adds each end to the list of the other
AdjArr(s, v) ==
    LET mine == SelectSeq(s, LAMBDA e : v \in {e[1], e[2]})
    IN  [k \in 1 .. Len(mine) |-> IF mine[k][1] = v THEN mine[k][2] ELSE mine[k][1]]

MaxVertexId(list) ==
    CHOOSE m \in {0} \union {Turned(list[i])[2] : i \in 1 .. Len(list)} :
        \A i \in 1 .. Len(list) : Turned(list[i])[2] <= m

LoadedList(list) ==
    LET n == MaxVertexId(list) + 1
        kept == KeptEdges(SortedEdges(list))
        degree == [v \in 0 .. n - 1 |-> Len(AdjArr(kept, v))]
    IN  [n |-> n, degree |-> degree, offset |-> Offsets(n, degree),
         adj |-> FlattenSeq([i \in 1 .. n |-> AdjArr(kept, i - 1)]),
         vertex_label |-> <<>>, edge_label |-> <<>>, offset_pair |-> <<>>,
         node_with_max_degree |-> MaxNode(n, degree), partition |-> <<>>]

\* store_edge_list: every edge once, the smaller vertex first
StoredList(g) ==
    FlattenSeq([i \in 1 .. g.n |->
        LET up == SelectSeq(Neighbors(g, i - 1), LAMBDA v : i - 1 < v)
        IN  [k \in 1 .. Len(up) |-> <<i - 1, up[k]>>]])

-----------------------------------------------------------------------------
(* CSR files                                                               *)

\* store_csr and, for a graph with partitions, store_partition_csr
Stored(g) ==
    [n |-> g.n, degree |-> g.degree, adj |-> g.adj, vertex_label |-> g.vertex_label,
     edge_label |-> g.edge_label, partition |-> g.partition]

\* load_csr, with is_offset_pair_ as in the hosts, and load_partition_csr
LoadedCsr(f) ==
    LET offset == Offsets(f.n, f.degree)
    IN  [n |-> f.n, degree |-> f.degree, offset |-> offset, adj |-> f.adj,
         vertex_label |-> f.vertex_label, edge_label |-> f.edge_label,
         offset_pair |-> [u \in 0 .. f.n - 1 |-> <<offset[u], offset[u + 1]>>],
         node_with_max_degree |-> MaxNode(f.n, f.degree), partition |-> f.partition]

-----------------------------------------------------------------------------
(* Partitions                                                              *)

\* sequential_partition: partition_offset and local_sum after the first u vertices
Partitioning(g, target) ==
    LET f[u \in 0 .. g.n] ==
          IF u = 0 THEN [offset |-> <<0>>, sum |-> 0]
          ELSE LET d == g.degree[u - 1]
                   before == f[u - 1]
               IN  IF before.sum + d > target
                   THEN [offset |-> Append(before.offset, u - 1), sum |-> d]
                   ELSE [before EXCEPT !.sum = @ + d]
    IN  Append(f[g.n].offset, g.n)

NumPartitions(g) == Len(g.partition) - 1

\* mutant: lower_bound among the starts of the partitions
GetPidLower(g, u) ==
    Len(SelectSeq(SubSeq(g.partition, 1, NumPartitions(g)), LAMBDA s : s < u)) - 1

\* get_pid: upper_bound among the starts of the partitions
GetPid(g, u) ==
    Len(SelectSeq(SubSeq(g.partition, 1, NumPartitions(g)), LAMBDA s : s <= u)) - 1

IsMember(g, u, pid) == g.partition[pid + 1] <= u /\ u < g.partition[pid + 2]

-----------------------------------------------------------------------------
(* Searches                                                                *)

\* is_neighbor: a binary search of the shorter list
IsNeighbor(g, u, v) ==
    LET short == IF g.degree[u] < g.degree[v] THEN u ELSE v
        other == IF short = v THEN u ELSE v
        list == Neighbors(g, short)
        search[b \in 0 .. Len(list), e \in -1 .. Len(list) - 1] ==
          IF b > e THEN FALSE
          ELSE LET mid == b + (e - b) \div 2
               IN  CASE list[mid + 1] = other -> TRUE
                     [] list[mid + 1] > other -> search[b, mid - 1]
                     [] OTHER -> search[mid + 1, e]
    IN  search[0, Len(list) - 1]

\* Utility::binary_search
BinarySearch(list, target) ==
    LET scan(b, e) == LET at == {i \in b .. e - 1 : list[i + 1] >= target}
                      IN  IF at = {} THEN e ELSE CHOOSE i \in at : \A j \in at : i <= j
        search[b \in 0 .. Len(list), e \in 0 .. Len(list)] ==
          IF e - b < SearchSpan THEN scan(b, e)
          ELSE LET mid == (b + e) \div 2
               IN  CASE list[mid + 1] = target -> mid
                     [] list[mid + 1] < target -> search[mid + 1, e]
                     [] OTHER -> search[b, mid]
    IN  search[0, Len(list)]

\* mutant: the place in the shorter list, used in the other one
EdgeLabelOfFirst(g, u, v) ==
    LET from == IF g.degree[v] < g.degree[u] THEN v ELSE u
        to == IF from = u THEN v ELSE u
    IN  g.edge_label[g.offset[u] + BinarySearch(Neighbors(g, from), to) + 1]

\* edge_label(u, v) and edge_weight(u, v)
EdgeLabel(g, u, v) ==
    LET from == IF g.degree[v] < g.degree[u] THEN v ELSE u
        to == IF from = u THEN v ELSE u
    IN  g.edge_label[g.offset[from] + BinarySearch(Neighbors(g, from), to) + 1]

-----------------------------------------------------------------------------
(* relabel                                                                 *)

\* the entries of an edge array in the order of the new vertices
Moved(g, s, new_to_old) ==
    FlattenSeq([i \in 1 .. g.n |-> Slice(g, s, new_to_old[i - 1])])

\* the places of a list in the order of its entries
SortIndex(list) ==
    SortSeq([i \in 1 .. Len(list) |-> i], LAMBDA i, j : list[i] < list[j])

\* mutant: the labels of a list stay in the order of the old neighbours
RelabelledLabelsUnsorted(g, new_to_old) ==
    LET old_to_new == [o \in V(g) |-> CHOOSE i \in V(g) : new_to_old[i] = o]
        degree == [i \in V(g) |-> g.degree[new_to_old[i]]]
        adj == [i \in 1 .. g.n |-> LET l == Neighbors(g, new_to_old[i - 1])
                                   IN  SortSeq([k \in 1 .. Len(l) |-> old_to_new[l[k]]], <)]
    IN  [g EXCEPT !.degree = degree, !.offset = Offsets(g.n, degree), !.adj = FlattenSeq(adj),
                  !.vertex_label = IF @ = <<>> THEN @ ELSE [i \in V(g) |-> @[new_to_old[i]]],
                  !.edge_label = IF @ = <<>> THEN @ ELSE Moved(g, @, new_to_old)]

Relabelled(g, new_to_old) ==
    LET old_to_new == [o \in V(g) |-> CHOOSE i \in V(g) : new_to_old[i] = o]
        degree == [i \in V(g) |-> g.degree[new_to_old[i]]]
        old_adj == Moved(g, g.adj, new_to_old)
        adj == [k \in 1 .. Len(old_adj) |-> old_to_new[old_adj[k]]]
        new == [g EXCEPT !.degree = degree, !.offset = Offsets(g.n, degree)]
        index(u) == SortIndex(Slice(new, adj, u))
        ordered(s) == FlattenSeq([i \in 1 .. g.n |->
                        [k \in 1 .. degree[i - 1] |-> Slice(new, s, i - 1)[index(i - 1)[k]]]])
    IN  [new EXCEPT !.adj = ordered(adj),
                    !.vertex_label = IF @ = <<>> THEN @ ELSE [i \in V(g) |-> @[new_to_old[i]]],
                    !.edge_label = IF @ = <<>> THEN @ ELSE ordered(Moved(g, @, new_to_old))]

-----------------------------------------------------------------------------
(* What a program does with a graph                                        *)

GraphInit ==
    /\ edge_list = <<>> /\ csr_files = <<>> /\ graph = <<>> /\ origin = {}
    /\ names = [list |-> <<>>, graph |-> <<>>, files |-> <<>>]
    /\ moved = [graph |-> FALSE, files |-> FALSE] /\ ops = 0

\* the input: an edge list, line by line
AddEdge ==
    /\ graph = <<>> /\ Len(edge_list) < MaxEdges
    /\ \E e \in Edges : edge_list' = Append(edge_list, e)
    /\ UNCHANGED <<csr_files, graph, origin, names, moved, ops>>

\* load_edge_list into a new Graph
LoadEdgeList ==
    LET g == LoadedList(edge_list)
        first == names.list = <<>>
        e(i) == {edge_list[i][1], edge_list[i][2]}
    IN  /\ edge_list # <<>> \/ ~first
        /\ graph' = <<g>>
        /\ origin' = IF first THEN {p \in {e(i) : i \in 1 .. Len(edge_list)} : Cardinality(p) = 2}
                     ELSE origin
        /\ names' = [names EXCEPT !.graph = [u \in V(g) |-> IF first THEN u ELSE names.list[u]],
                                  !.list = IF first THEN [u \in V(g) |-> u] ELSE @]
        /\ moved' = [moved EXCEPT !.graph = FALSE]
        /\ UNCHANGED <<edge_list, csr_files>>

\* store_edge_list
StoreEdgeList ==
    /\ graph # <<>> /\ edge_list' = StoredList(graph[1])
    /\ names' = [names EXCEPT !.list = names.graph]
    /\ UNCHANGED <<csr_files, graph, origin, moved>>

\* store_csr, store_partition_csr
StoreCsr ==
    /\ graph # <<>> /\ csr_files' = <<Stored(graph[1])>>
    /\ names' = [names EXCEPT !.files = names.graph]
    /\ moved' = [moved EXCEPT !.files = moved.graph]
    /\ UNCHANGED <<edge_list, graph, origin>>

\* label files for the CSR files on disk
AddLabels ==
    /\ csr_files # <<>> /\ csr_files[1].vertex_label = <<>>
    /\ LET f == LoadedCsr(csr_files[1])
           labels(u) == [k \in 1 .. f.degree[u] |->
                            {names.files[u], names.files[Neighbors(f, u)[k]]}]
       IN  csr_files' = <<[csr_files[1] EXCEPT
                !.vertex_label = names.files,
                !.edge_label = FlattenSeq([i \in 1 .. f.n |-> labels(i - 1)])]>>
    /\ UNCHANGED <<edge_list, graph, origin, names, moved>>

\* load_csr, load_partition_csr into a new Graph
LoadCsr ==
    /\ csr_files # <<>> /\ graph' = <<LoadedCsr(csr_files[1])>>
    /\ names' = [names EXCEPT !.graph = names.files]
    /\ moved' = [moved EXCEPT !.graph = moved.files]
    /\ UNCHANGED <<edge_list, csr_files, origin>>

\* sequential_partition
SequentialPartition ==
    /\ graph # <<>>
    /\ graph' = <<[graph[1] EXCEPT !.partition = Partitioning(graph[1], Target)]>>
    /\ moved' = [moved EXCEPT !.graph = FALSE]
    /\ UNCHANGED <<edge_list, csr_files, origin, names>>

\* relabel
Relabel ==
    /\ graph # <<>>
    /\ \E p \in Numberings(graph[1].n) :
         /\ graph' = <<Relabelled(graph[1], p)>>
         /\ names' = [names EXCEPT !.graph = [u \in V(graph[1]) |-> names.graph[p[u]]]]
    /\ moved' = [moved EXCEPT !.graph = TRUE]
    /\ UNCHANGED <<edge_list, csr_files, origin>>

Operation ==
    \/ LoadEdgeList \/ StoreEdgeList \/ StoreCsr \/ AddLabels \/ LoadCsr
    \/ SequentialPartition \/ Relabel

GraphNext == AddEdge \/ (Operation /\ ops < MaxOps /\ ops' = ops + 1)

-----------------------------------------------------------------------------
G == graph[1]

\* CsrIsGraph: after any sequence of loads, stores and relabellings the neighbours
\* of every vertex are the other ends of its edges, each once and in order, and no
\* edge has been lost: is_sort never stops the program, and the kernels that merge
\* two lists may count on their order.
CsrIsGraph ==
    graph # <<>> =>
      /\ \A u \in V(G) :
           Neighbors(G, u) = SetToSortSeq({v \in V(G) : {names.graph[u], names.graph[v]} \in origin}, <)
      /\ UNION origin \subseteq {names.graph[u] : u \in V(G)}

\* DataFollowsEdges: the labels (and weights) of vertices and edges are still those of
\* the same vertices and edges after a relabelling has moved and sorted all arrays.
DataFollowsEdges ==
    graph # <<>> /\ G.vertex_label # <<>> =>
      /\ \A u \in V(G) : G.vertex_label[u] = names.graph[u]
      /\ \A u \in V(G) : \A k \in 1 .. G.degree[u] :
           Slice(G, G.edge_label, u)[k] = {names.graph[u], names.graph[Neighbors(G, u)[k]]}

\* LookupsAgree: both binary searches, each in the shorter of two lists, find exactly
\* the edges there are.
LookupsAgree ==
    graph # <<>> =>
      \A u, v \in V(G) :
        LET edge == {names.graph[u], names.graph[v]} \in origin
        IN  /\ IsNeighbor(G, u, v) = edge
            /\ edge /\ G.edge_label # <<>> =>
                 EdgeLabel(G, u, v) = {names.graph[u], names.graph[v]}

\* OnePartitionEach: get_pid finds the one partition a vertex is in, though vertex 0 can
\* leave an empty partition in front and the partitions come from a file or from before
\* a relabelling.
OnePartitionEach ==
    graph # <<>> /\ G.partition # <<>> =>
      \A u \in V(G) : {pid \in 0 .. NumPartitions(G) - 1 : IsMember(G, u, pid)} = {GetPid(G, u)}

\* PartitionsFit: what graph.h:293 says of sequential_partition, that the degree sum of a
\* partition is no more than the target.  (Not after relabel, which "can break the
\* partition", as graph.h says too.)  It does not hold: a vertex with more edges
\* than the target is in a partition of its own.
PartitionsFit ==
    graph # <<>> /\ G.partition # <<>> /\ ~moved.graph =>
      \A pid \in 0 .. NumPartitions(G) - 1 :
        G.offset[G.partition[pid + 2]] - G.offset[G.partition[pid + 1]] <= Target
=============================================================================
