---------------------------- MODULE MCSrcCache ----------------------------
(* Runs for the model checker, with two PEs, blocks of two lines and caches   *)
(* of four.  The first run has one packet over twice the lines of a cache;    *)
(* the second has two packets that share a block, starts behind line 0 and    *)
(* ends with one vertex repeated; the third leaves gaps.                      *)
EXTENDS SrcCache

MCWorkloads == {<< <<0, 2, 5, 7>> >>,
                << <<3, 3, 4, 6>>, <<7, 7, 7, 7>> >>,
                << <<1, 4, 4, 9>> >>}
=============================================================================
