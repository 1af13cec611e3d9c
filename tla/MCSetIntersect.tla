--------------------------- MODULE MCSetIntersect ---------------------------
(* Steps for the model checker.                                             *)
EXTENDS SetIntersect, SequencesExt

Sorted(set) == SetToSortSeq(set, <)

\* the previous list fills at most two lines
TwoLines(s) == s.poff + Len(s.prev) <= 2 * Lanes

\* every pair of lists of vertices 1 to 4, at the start of a line, inside it
\* and at its end
AllSteps ==
    {s \in [coff: {0, 3}, curr: {Sorted(u) : u \in SUBSET (1..4) \ {{}}},
            poff: {1, 3}, prev: {Sorted(u) : u \in SUBSET (1..4)},
            last_vertex: {3}] : TwoLines(s)}

S(coff, curr, poff, prev, v) ==
    [coff |-> coff, curr |-> curr, poff |-> poff, prev |-> prev, last_vertex |-> v]

\* lists that end in different ways, with lines of four words: no previous
\* list; the previous list ends first; the current one ends first, after a match
\* with the last word of a line and with its last words in the last line
MixedSteps == {
    S(3, <<2, 3>>, 0, <<>>, 2),
    S(1, <<3, 4, 7, 10, 11>>, 2, <<1, 2, 3, 5, 6, 7, 9>>, 4),
    S(1, <<7, 10, 11>>, 2, <<1, 2, 3, 5, 6, 7, 9, 10, 11>>, 5)}

\* one step of any kind, or two steps one behind the other
MixedWork == {<<s>> : s \in AllSteps} \union (MixedSteps \X MixedSteps)

\* the last word of the current list is found two lines before the end
LongWork == {<<S(0, <<1, 2>>, 0, <<1, 2, 3, 4, 5, 6>>, 7)>>}
=============================================================================
