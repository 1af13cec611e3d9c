----------------------------- MODULE Reservoir -----------------------------
(***************************************************************************)
(* The arithmetic of the weighted reservoir sampler (src/wrs, msample):    *)
(* a list of weights comes as lines of Lanes words.  A word is selected if *)
(* its random number, scaled with the sum of the weights up to it, is less *)
(* than its weight, and the sampler keeps the word selected last, so the   *)
(* k-th word ends up as the sample with probability w(k) / sum of all w.   *)
(* Sums are kept modulo SumMod, as the 32-bit words of the hardware are.   *)
(***************************************************************************)
EXTENDS Integers, Sequences, FiniteSets

CONSTANTS
    Lanes,     \* NUM_OF_WEIGHTS, the words of a line (16)
    RngMod,    \* random numbers are less than this (2^32)
    SumMod     \* sums wrap at this (2^32)

ASSUME ReservoirAssumption ==
    /\ Lanes \in Nat \ {0}
    /\ RngMod \in Nat \ {0}
    /\ SumMod \in Nat \ {0, 1}

Lane == 1..Lanes

\* 0x80000000: no word has been selected
Dead == -1

\* partial_sum: the sums of the weights of a line
PartialSum(w) ==
    LET sum[i \in Lane] == IF i = 1 THEN w[1] ELSE (sum[i - 1] + w[i]) % SumMod
    IN  sum

\* Mutant of NextBase: the sum of another lane.
NextBaseFirstLane(base, partial) == (base + partial[1]) % SumMod

\* perfix_sum: what the next line of the list adds to its own sums
NextBase(base, partial) == (base + partial[Lanes]) % SumMod

\* scale_weight: the upper word of a product cut to two words
Scale(r, base, partial) == ((r * (base + partial)) % (RngMod * SumMod)) \div RngMod

\* Mutant of Selects: a word of weight 0 can be selected.
SelectsZero(scale, w) == scale <= w

\* reservoir_mask
Selects(scale, w) == scale < w

Mask(w, s) == [i \in Lane |-> Selects(s[i], w[i])]

\* sample: the highest bit of a mask (msb_bit), 0 if there is none
TopLane(m) == IF \E i \in Lane : m[i]
              THEN CHOOSE i \in Lane : m[i] /\ \A k \in Lane : m[k] => k <= i
              ELSE 0

\* sample: the selection after a line of the list at addr
Keep(selected, addr, m) == IF TopLane(m) = 0 THEN selected ELSE addr + TopLane(m)

\* perfix_sum ... sample on a whole list: the base and the selection after the
\* first k lines, given the random numbers of each line
AfterLines(lines, rngs) ==
    LET st[k \in 0..Len(lines)] ==
          IF k = 0 THEN [base |-> 0, selected |-> Dead]
          ELSE LET p == PartialSum(lines[k])
                   s == [i \in Lane |-> Scale(rngs[k][i], st[k - 1].base, p[i])]
               IN  [base |-> NextBase(st[k - 1].base, p),
                    selected |-> Keep(st[k - 1].selected, (k - 1) * Lanes, Mask(lines[k], s))]
    IN  st[Len(lines)]

SampleOf(lines, rngs) == AfterLines(lines, rngs).selected
=============================================================================
