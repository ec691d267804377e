----------------------------- MODULE SymbolRank -----------------------------
(***************************************************************************)
(* What WaveletMatrix4 promises about the symbol sequence s it was built   *)
(* over (a function on 0..n-1): access, rank, and the descent that map2    *)
(* and map_zero make.  A descent through the levels sends position i, for  *)
(* symbol c, to the group of c in the fully partitioned sequence.  Groups  *)
(* are ordered by the digits of their symbol read backwards, because the   *)
(* last partition is by the last digit.                                    *)
(***************************************************************************)
EXTENDS Integers, FiniteSets

\* Number of two-bit levels for an alphabet of sigma symbols (Build).
IsQLevels(sigma, q) ==
    \E bits \in 1..(2 * q) : /\ 2^bits >= sigma
                             /\ bits > 1 => 2^(bits - 1) < sigma
                             /\ q = (bits + 1) \div 2
QLevels(sigma) == CHOOSE q \in 1..(sigma + 1) : IsQLevels(sigma, q)

\* Digit l of symbol c, the most significant one first: the shift drops the
\* digits behind it, two bits each.
Pow4[k \in Nat] == IF k = 0 THEN 1 ELSE 4 * Pow4[k - 1]
Digit(c, l, q) == (c \div Pow4[q - 1 - l]) % 4

\* What the first d partitions make of two symbols: the last of their first d
\* digits in which they differ decides which one comes first.
Before(a, c, d, q) ==
    \E l \in 0..(d - 1) : /\ Digit(a, l, q) < Digit(c, l, q)
                          /\ \A k \in (l + 1)..(d - 1) : Digit(a, k, q) = Digit(c, k, q)
Alike(a, c, d, q) == \A l \in 0..(d - 1) : Digit(a, l, q) = Digit(c, l, q)

\* Where position i is, for symbol c, after d partitions of s.
PlaceAt(s, c, i, d, q) == Cardinality({j \in DOMAIN s : Before(s[j], c, d, q)})
                            + Cardinality({j \in 0..(i - 1) : Alike(s[j], c, d, q)})

\* The digits of level l: s after l partitions.
LevelOf(s, l, q) ==
    [x \in DOMAIN s |-> Digit(s[CHOOSE j \in DOMAIN s : PlaceAt(s, s[j], j, l, q) = x], l, q)]

RankIn(s, c, i) == Cardinality({j \in 0..(i - 1) : s[j] = c})

\* map_zero(c): where the group of c starts.
GroupStart(s, c, q) == Cardinality({j \in DOMAIN s : Before(s[j], c, q, q)})

\* Both ends of map2(c, lo, hi).
MapPos(s, c, i, q) == GroupStart(s, c, q) + RankIn(s, c, i)
=============================================================================
