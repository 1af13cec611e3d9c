---------------------------- MODULE MCQueryRing ----------------------------
(* The query ring on small instances.                                      *)
EXTENDS QueryRing
=============================================================================
