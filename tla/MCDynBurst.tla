---------------------------- MODULE MCDynBurst ----------------------------
(* Vertices for the model checker, with lines of two words and long bursts  *)
(* of two lines.                                                            *)
EXTENDS DynBurst

\* one vertex for each way out of vd_scheduler: no neighbour, a list inside a
\* line, and a list of two whole lines and half a line, which is a long burst
\* and a burst of one line
WholeDescs == {[start |-> 0, size |-> 0], [start |-> 3, size |-> 1],
               [start |-> 4, size |-> 5]}

\* lists that make a long burst, of three lines here, begin or end inside a line
RaggedDescs == {[start |-> 1, size |-> 7], [start |-> 8, size |-> 5]}
=============================================================================
