---------------------------- MODULE MCDacCache ----------------------------
(* Three vertices in a cache of two entries: 0 and 2 fight for one entry,   *)
(* and 2 has more neighbours.                                               *)
EXTENDS DacCache

MCVertices == {0, 1, 2}

MCDesc == [v \in MCVertices |-> [start |-> 10 * (v + 1), size |-> v + 1]]
=============================================================================
