--------------------------- MODULE WaveletMatrix4 ---------------------------
(***************************************************************************)
(* The four-ary wavelet matrix of WaveletMatrix4.h: the construction, one  *)
(* level at a time, and the descents of rank, access, map2, map_zero and   *)
(* map_batch, one level of one lane at a time.  A level is the sequence of *)
(* its digits; its rank is what QuadVector promises.  SymbolRank says what *)
(* the results must be.                                                    *)
(***************************************************************************)
EXTENDS SymbolRank, Sequences

CONSTANTS
    Alphabets,   \* what is explored: [q |-> number of levels, syms |-> symbols]
    MaxLength    \* bound on the length of the sequence

ASSUME AlphabetAssumption ==
    /\ \A a \in Alphabets : a.q \in Nat \ {0} /\ a.syms \subseteq 0..(Pow4[a.q] - 1)
    /\ MaxLength \in Nat

VARIABLES
    seq,              \* the sequence the matrix was made from, kept for the properties
    syms,             \* the symbols the caller asks about
    n_, qlevels_,
    qv_, start_,      \* per level: the digits, and where each digit's group starts
    cur,              \* constructor: the sequence as partitioned so far
    l,                \* loop variable: the level
    op,               \* the query
    lanes,            \* its descents: symbol c, the positions p1, p2 asked for, lo and hi
    k,                \* loop variable: the lane
    sym,              \* access: the symbol so far
    pc

query == <<op, lanes, k, sym>>
matrix == <<seq, syms, n_, qlevels_, qv_, start_, cur>>
vars == <<matrix, l, query, pc>>

Init ==
    /\ seq = <<>> /\ syms = {} /\ n_ = 0 /\ qlevels_ = 0
    /\ qv_ = <<>> /\ start_ = <<>> /\ cur = <<>> /\ l = 0
    /\ op = "none" /\ lanes = <<>> /\ k = 1 /\ sym = 0
    /\ pc = "new"

\* WaveletMatrix4(seq, qlevels)
Construct(s, n, a) ==
    /\ pc = "new"
    /\ seq' = s /\ cur' = s /\ n_' = n /\ syms' = a.syms /\ qlevels_' = a.q
    /\ qv_' = [x \in 0..(a.q - 1) |-> <<>>]
    /\ start_' = [x \in 0..(a.q - 1) |-> [d \in 0..3 |-> 0]]
    /\ l' = 0
    /\ pc' = "build"
    /\ UNCHANGED query

\* The digits of cur at level l, and the start of each digit's group.
Digits == [x \in 0..(n_ - 1) |-> Digit(cur[x], l, qlevels_)]
Hist(d) == Cardinality({x \in 0..(n_ - 1) : Digits[x] = d})
Starts == [d \in 0..3 |-> CASE d = 0 -> 0
                            [] d = 1 -> Hist(0)
                            [] d = 2 -> Hist(0) + Hist(1)
                            [] d = 3 -> Hist(0) + Hist(1) + Hist(2)]

\* Mutant: the cursors run backwards, which reverses the equal digits.
Mut_Cursor(x) == Starts[Digits[x]] + ((Hist(Digits[x]) - 1) - RankIn(Digits, Digits[x], x))

\* The scatter puts x at the cursor of its digit, which the elements of the
\* same digit before x have advanced.
Cursor(x) == Starts[Digits[x]] + RankIn(Digits, Digits[x], x)

BuildLevel ==
    /\ pc = "build" /\ l < qlevels_
    /\ qv_' = [qv_ EXCEPT ![l] = Digits]
    /\ start_' = [start_ EXCEPT ![l] = Starts]
    /\ cur' = [y \in 0..(n_ - 1) |-> cur[CHOOSE x \in 0..(n_ - 1) : Cursor(x) = y]]
    /\ l' = l + 1
    /\ UNCHANGED <<seq, syms, n_, qlevels_, query, pc>>

BuildEnd ==
    /\ pc = "build" /\ l = qlevels_
    /\ pc' = "ready"
    /\ UNCHANGED <<matrix, l, query>>

Lane(x, a, b) == [c |-> x, p1 |-> a, p2 |-> b, lo |-> a, hi |-> b]

Call(o, ls) ==
    /\ pc = "ready"
    /\ op' = o /\ lanes' = ls /\ k' = 1 /\ sym' = 0 /\ l' = 0
    /\ pc' = "descend"
    /\ UNCHANGED matrix

\* Mutant: rank counts position b too.
Mut_Rank(x, b) == Call("rank", <<Lane(x, 0, b + 1)>>)

Rank(x, b) == Call("rank", <<Lane(x, 0, b)>>)
Map2(x, a, b) == Call("map2", <<Lane(x, a, b)>>)
MapZero(x) == Call("map_zero", <<Lane(x, 0, 0)>>)
Access(a) == Call("access", <<Lane(0, a, a)>>)
MapBatch(ls) == Call("map_batch", ls)

\* Mutant: the start of the digit's group is left out.
Mut_Down(d, p) == RankIn(qv_[l], d, p)

\* Where position p of level l is one level down, for digit d.
Down(d, p) == start_[l][d] + RankIn(qv_[l], d, p)

\* Mutant: the digits of access are not shifted.
Mut_WithDigit(d) == sym + d
WithDigit(d) == sym * 4 + d

\* Lane k goes one level down; access follows the digit it finds, the others
\* that of their symbol.  All lanes finish a level before the next one.
Descend ==
    LET x == lanes[k]
        d == IF op = "access" THEN qv_[l][x.lo] ELSE Digit(x.c, l, qlevels_) IN
    /\ pc = "descend" /\ l < qlevels_
    /\ lanes' = [lanes EXCEPT ![k].lo = Down(d, x.lo), ![k].hi = Down(d, x.hi)]
    /\ sym' = IF op = "access" THEN WithDigit(d) ELSE sym
    /\ IF k < Len(lanes) THEN k' = k + 1 /\ l' = l ELSE k' = 1 /\ l' = l + 1
    /\ UNCHANGED <<matrix, op, pc>>

DescendEnd ==
    /\ pc = "descend" /\ l = qlevels_
    /\ pc' = "done"
    /\ UNCHANGED <<matrix, l, query>>

Return == /\ pc = "done"
          /\ op' = "none" /\ lanes' = <<>> /\ k' = 1 /\ sym' = 0
          /\ pc' = "ready"
          /\ UNCHANGED <<matrix, l>>

Next ==
    \/ \E a \in Alphabets, n \in 0..MaxLength :
         \E s \in [0..(n - 1) -> a.syms] : Construct(s, n, a)
    \/ BuildLevel \/ BuildEnd
    \/ \E x \in syms : \/ \E b \in 0..n_ : Rank(x, b) \/ \E a \in 0..b : Map2(x, a, b)
                       \/ MapZero(x)
    \/ \E a \in 0..(n_ - 1) : Access(a)
    \/ \E x, y \in syms, b \in 0..n_ : MapBatch(<<Lane(x, 0, b), Lane(y, b, n_)>>)
    \/ Descend \/ DescendEnd \/ Return

Spec == Init /\ [][Next]_vars

-----------------------------------------------------------------------------
(***************************************************************************)
(* Properties.                                                             *)
(***************************************************************************)

\* Types of the members and of the locals.
TypeOK ==
    /\ cur \in [0..(n_ - 1) -> syms] /\ l \in 0..qlevels_
    /\ k \in 1..(Len(lanes) + 1)
    /\ \A j \in 1..Len(lanes) : lanes[j].lo \in 0..n_ /\ lanes[j].hi \in 0..n_
    /\ sym \in 0..Pow4[qlevels_]
    /\ \A x \in DOMAIN start_ : start_[x] \in [0..3 -> 0..n_]

\* The partitions are stable: after l of them every symbol is behind those with
\* a smaller key and behind its equals that came first.
PartitionIsStable ==
    pc = "build" => \A x \in 0..(n_ - 1) : cur[PlaceAt(seq, seq[x], x, l, qlevels_)] = seq[x]

\* A descent is, at every level, where the partitions put its positions: the
\* lanes before k are one level further than the others, and no lane disturbs
\* another.
DescentExact ==
    (pc = "descend" /\ op # "access") =>
        \A j \in 1..Len(lanes) :
            LET x == lanes[j]
                level == IF j < k THEN l + 1 ELSE l
            IN /\ x.lo = PlaceAt(seq, x.c, x.p1, level, qlevels_)
               /\ x.hi = PlaceAt(seq, x.c, x.p2, level, qlevels_)

\* The results are those that SymbolRank defines, which is all the FM-index
\* relies on.
ResultExact ==
    pc = "done" =>
        \A j \in 1..Len(lanes) :
            LET x == lanes[j] IN
            CASE op = "rank"     -> x.hi - x.lo = RankIn(seq, x.c, x.p2)
              [] op = "map_zero" -> x.lo = GroupStart(seq, x.c, qlevels_)
              [] op = "access"   -> sym = seq[x.p1]
              [] op \in {"map2", "map_batch"} ->
                   /\ x.lo = MapPos(seq, x.c, x.p1, qlevels_)
                   /\ x.hi = MapPos(seq, x.c, x.p2, qlevels_)

\* The binary wavelet matrix over the same symbols agrees: the tests compare
\* the two position for position.
Binary == INSTANCE WaveletMatrix
BinaryAgrees ==
    (pc = "ready" /\ op = "none") =>
        LET wm == Binary!Construct([x \in 1..n_ |-> seq[x - 1]], 2 * qlevels_) IN
        /\ \A x \in 0..(n_ - 1) : Binary!access(wm, x) = seq[x]
        /\ \A c \in syms, b \in 0..n_ : \A a \in 0..b :
             Binary!rank2(wm, c, a, b) = <<RankIn(seq, c, a), RankIn(seq, c, b)>>
=============================================================================
