--------------------------- MODULE OrderedService ---------------------------
(***************************************************************************)
(* What a part of the pipeline promises to the kernels around it: it       *)
(* answers the packets it is given one by one and in order, each with one  *)
(* of the answers its request allows, and passes the last flag on.  The    *)
(* reader relies on it: fetch_next pairs the k-th answer with the k-th     *)
(* packet of its origin stream and vd_scheduler the k-th descriptor with   *)
(* the k-th state, and neither compares anything.                          *)
(***************************************************************************)
EXTENDS Sequences

CONSTANTS Requests,    \* what can be asked
          Answers(_),  \* the answers a request allows
          NoAnswer     \* nothing has been answered yet

VARIABLES pending,     \* requests not yet answered, oldest first
          answer       \* the latest answer

vars == <<pending, answer>>

Init == pending = <<>> /\ answer = [to |-> NoAnswer, last |-> FALSE]

Ask == \E r \in Requests, last \in BOOLEAN :
         /\ pending' = Append(pending, [vertex |-> r, last |-> last])
         /\ UNCHANGED answer

Answer == /\ pending # <<>>
          /\ \E to \in Answers(Head(pending).vertex) :
               answer' = [to |-> to, last |-> Head(pending).last]
          /\ pending' = Tail(pending)

Next == Ask \/ Answer

Spec == Init /\ [][Next]_vars
=============================================================================
