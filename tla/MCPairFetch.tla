---------------------------- MODULE MCPairFetch ----------------------------
(* Vertices for the model checker, with lines of two words: 0 has no         *)
(* neighbours, 1 has one, 2 a ragged list over two lines.  The steps mix     *)
(* long and short lists on either side, a first step whose previous vertex   *)
(* has no neighbours, a vertex without neighbours and a dead walk.           *)
EXTENDS PairFetch

MCDesc == [v \in 0..2 |-> CASE v = 0 -> [start |-> 0, size |-> 0]
                            [] v = 1 -> [start |-> 1, size |-> 1]
                            [] v = 2 -> [start |-> 3, size |-> 2]]

MCSteps == {[curr |-> 2, prev |-> 1], [curr |-> 1, prev |-> 2],
            [curr |-> 1, prev |-> 0], [curr |-> 0, prev |-> 2],
            [curr |-> Dead, prev |-> 1]}
=============================================================================
