---------------------------- MODULE MCWalkLoop ----------------------------
(* Walks on small graphs for the model checker.                            *)
EXTENDS WalkLoop

\* a path with vertex 0 at its end and a vertex that has no neighbours
Path4 == 0 :> {1} @@ 1 :> {0, 2} @@ 2 :> {1} @@ 3 :> {}

\* a triangle with a tail at vertex 0
Tailed == 0 :> {1} @@ 1 :> {0, 2, 3} @@ 2 :> {1, 3} @@ 3 :> {1, 2}

SmallJobs ==
    [app: {"node2vec", "uniform"}, graph: {Path4}, starts: {0 :> 1 @@ 1 :> 0 @@ 2 :> 2}]
    \union
    [app: {"uniform"}, graph: {Tailed}, starts: {0 :> 2 @@ 1 :> 0 @@ 2 :> 1}]
=============================================================================
