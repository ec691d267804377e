---------------------------- MODULE WaveletMatrix ---------------------------
(***************************************************************************)
(* The binary wavelet matrix of WaveletMatrix.h as functions of the        *)
(* sequence it is made from: one bit vector per level and its number of    *)
(* zeros.  The index uses WaveletMatrix4; the tests hold the two together. *)
(***************************************************************************)
EXTENDS Integers, FiniteSets, Sequences

Bit(c, l, levels) == (c \div 2^(levels - 1 - l)) % 2

\* What BitVector promises about the first i bits.
rank1(bits, i) == Cardinality({x \in 1..i : bits[x] = 1})
rank0(bits, i) == i - rank1(bits, i)

\* Mutant: the ones are not put behind the zeros.
Mut_Down(bits, z, bit, i) == IF bit = 1 THEN rank1(bits, i) ELSE rank0(bits, i)

\* Where position i of a level is one level down: the zeros, in order, and
\* behind them the ones.
Down(bits, z, bit, i) == IF bit = 1 THEN z + rank1(bits, i) ELSE rank0(bits, i)

\* A level of the constructor: its bits, its zeros, and what it leaves in cur.
Level(cur, l, levels) ==
    LET IsOne(c) == Bit(c, l, levels) = 1
        IsZero(c) == ~IsOne(c)
        zeros == SelectSeq(cur, IsZero)
    IN [bits |-> [x \in 1..Len(cur) |-> Bit(cur[x], l, levels)], z |-> Len(zeros),
        next |-> zeros \o SelectSeq(cur, IsOne)]

\* WaveletMatrix(seq, levels); level l is entry l + 1.
Construct(seq, levels) ==
    LET made[l \in 0..levels] ==
          IF l = 0 THEN <<>>
          ELSE LET above == made[l - 1]
               IN Append(above, Level(IF l = 1 THEN seq ELSE above[l - 1].next, l - 1, levels))
    IN made[levels]

\* map2 and map_batch descend any position, map_zero position 0.
map(wm, c, i) ==
    LET levels == Len(wm)
        pos[l \in 0..levels] ==
          IF l = 0 THEN i
          ELSE Down(wm[l].bits, wm[l].z, Bit(c, l - 1, levels), pos[l - 1])
    IN pos[levels]

\* rank descends the start of the group too, rank2 once for two positions.
rank(wm, c, i) == map(wm, c, i) - map(wm, c, 0)
rank2(wm, c, lo, hi) == <<rank(wm, c, lo), rank(wm, c, hi)>>

access(wm, i) ==
    LET levels == Len(wm)
        at[l \in 0..levels] ==
          IF l = 0 THEN [pos |-> i, sym |-> 0]
          ELSE LET above == at[l - 1]
                   lev == wm[l]
                   bit == lev.bits[above.pos + 1]
               IN [pos |-> Down(lev.bits, lev.z, bit, above.pos), sym |-> above.sym * 2 + bit]
    IN at[levels].sym
=============================================================================
