-------------------------- MODULE QuadVectorProofs --------------------------
(***************************************************************************)
(* For every number of lanes, block size, superblock size and stream:      *)
(* build_rank() writes an exact directory and rank() returns the exact     *)
(* count, provided the span of a superblock fits in a rel_ counter.        *)
(*                                                                         *)
(* The induction is the program's own: the invariant says what the running *)
(* counts of build_rank and of rank are at every turn of their loops.      *)
(***************************************************************************)
EXTENDS QuadVector, FiniteSetTheorems, TLAPS

-----------------------------------------------------------------------------
(***************************************************************************)
(* Division.                                                               *)
(***************************************************************************)

\* Division with remainder.
LEMMA DivMod ==
    ASSUME NEW x \in Nat, NEW d \in Nat \ {0}
    PROVE  /\ x \div d \in Nat
           /\ x % d \in 0..(d - 1)
           /\ x = (x \div d) * d + (x % d)
  OBVIOUS

\* The quotient is the only one with a remainder below d.
LEMMA DivUnique ==
    ASSUME NEW x \in Nat, NEW d \in Nat \ {0}, NEW q \in Nat,
           q * d <= x, x < q * d + d
    PROVE  x \div d = q
  OBVIOUS

\* Multiplication by a natural number is monotonic.
LEMMA MulMono ==
    ASSUME NEW x \in Nat, NEW y \in Nat, NEW d \in Nat, x <= y
    PROVE  /\ x * d \in Nat
           /\ y * d \in Nat
           /\ x * d <= y * d
  OBVIOUS

\* Zero times anything.
LEMMA ZeroTimes ==
    ASSUME NEW x \in Nat
    PROVE  0 * x = 0
  OBVIOUS

\* A number below the modulus is its own remainder.
LEMMA SmallMod ==
    ASSUME NEW m \in Nat, NEW x \in 0..(m - 1)
    PROVE  x % m = x
  OBVIOUS

\* Division is monotonic.
LEMMA DivMono ==
    ASSUME NEW x \in Nat, NEW y \in Nat, NEW d \in Nat \ {0}, x <= y
    PROVE  x \div d <= y \div d
<1>1. SUFFICES ASSUME y \div d < x \div d PROVE FALSE
  BY DivMod
<1>2. (y \div d + 1) * d <= (x \div d) * d
  BY <1>1, DivMod, MulMono
<1>3. (y \div d + 1) * d = (y \div d) * d + d
  BY DivMod
<1> QED  BY <1>2, <1>3, DivMod

\* The ceiling of x / d: it covers x, and one less does not.
LEMMA CeilDiv ==
    ASSUME NEW x \in Nat, NEW d \in Nat \ {0}
    PROVE  LET c == (x + (d - 1)) \div d IN
           /\ c \in Nat
           /\ x <= c * d
           /\ \A w \in Nat : w < c => w * d < x
<1> DEFINE c == (x + (d - 1)) \div d
<1>1. /\ x + (d - 1) \in Nat
      /\ c \in Nat
      /\ c * d <= x + (d - 1)
      /\ x + (d - 1) < c * d + d
  BY DivMod
<1> HIDE DEF c
<1>2. x <= c * d
  BY <1>1
<1>3. ASSUME NEW w \in Nat, w < c PROVE w * d < x
  <2>1. (w + 1) * d <= c * d
    BY <1>1, <1>3, MulMono
  <2>2. (w + 1) * d = w * d + d
    OBVIOUS
  <2> QED  BY <1>1, <2>1, <2>2
<1>4. c \in Nat /\ x <= c * d /\ \A w \in Nat : w < c => w * d < x
  BY <1>1, <1>2, <1>3
<1> QED  BY <1>4 DEF c

\* A block that does not start a superblock shares the one of its predecessor,
\* and no earlier block shares the superblock that a block starts.
LEMMA SbNeighbours ==
    ASSUME NEW x \in Nat, NEW d \in Nat \ {0}
    PROVE  /\ x % d = 0 => /\ (x \div d) * d = x
                           /\ \A y \in 0..(x - 1) : y \div d # x \div d
           /\ x % d # 0 => /\ x >= 1
                           /\ (x - 1) \div d = x \div d
<1>1. CASE x % d = 0
  <2>1. (x \div d) * d = x
    BY <1>1, DivMod
  <2>2. ASSUME NEW y \in 0..(x - 1), y \div d = x \div d PROVE FALSE
    <3>1. (y \div d) * d <= y
      BY DivMod
    <3> QED  BY <2>1, <2>2, <3>1
  <2> QED  BY <1>1, <2>1, <2>2
<1>2. CASE x % d # 0
  <2> DEFINE q == x \div d
             m == x % d
  <2>1. q \in Nat /\ m \in 1..(d - 1) /\ x = q * d + m
    BY <1>2, DivMod
  <2> HIDE DEF q, m
  <2>2. q * d \in Nat
    BY <2>1
  <2>3. x >= 1 /\ x - 1 \in Nat /\ q * d <= x - 1 /\ x - 1 < q * d + d
    BY <2>1, <2>2
  <2>4. (x - 1) \div d = q
    BY <2>1, <2>3, DivUnique
  <2> QED  BY <1>2, <2>3, <2>4 DEF q
<1> QED  BY <1>1, <1>2

-----------------------------------------------------------------------------
(***************************************************************************)
(* Counting.                                                               *)
(***************************************************************************)

\* The positions of an interval that hold a value.
CountIn(f, d, p, q) == Cardinality({j \in p..(q - 1) : f[j] = d})

\* A count is a natural number and at most the length of the interval.
LEMMA CountInType ==
    ASSUME NEW f, NEW d, NEW p \in Nat, NEW q \in Nat
    PROVE  /\ IsFiniteSet({j \in p..(q - 1) : f[j] = d})
           /\ CountIn(f, d, p, q) \in Nat
           /\ p <= q => CountIn(f, d, p, q) <= q - p
<1>1. /\ IsFiniteSet(p..(q - 1))
      /\ Cardinality(p..(q - 1)) = IF p > q - 1 THEN 0 ELSE (q - 1) - p + 1
  BY FS_Interval
<1>2. {j \in p..(q - 1) : f[j] = d} \subseteq p..(q - 1)
  OBVIOUS
<1>3. /\ IsFiniteSet({j \in p..(q - 1) : f[j] = d})
      /\ CountIn(f, d, p, q) <= Cardinality(p..(q - 1))
  BY <1>1, <1>2, FS_Subset DEF CountIn
<1>4. CountIn(f, d, p, q) \in Nat
  BY <1>3, FS_CardinalityType DEF CountIn
<1> QED  BY <1>1, <1>3, <1>4

\* Counts of adjacent intervals add up.
LEMMA CountInSplit ==
    ASSUME NEW f, NEW d, NEW p \in Nat, NEW q \in Nat, NEW x \in Nat, p <= q, q <= x
    PROVE  CountIn(f, d, p, x) = CountIn(f, d, p, q) + CountIn(f, d, q, x)
<1> DEFINE A == {j \in p..(q - 1) : f[j] = d}
           B == {j \in q..(x - 1) : f[j] = d}
           U == {j \in p..(x - 1) : f[j] = d}
<1>1. U = A \cup B /\ A \cap B = {}
  OBVIOUS
<1>2. /\ IsFiniteSet(A) /\ IsFiniteSet(B)
      /\ Cardinality(A) \in Nat /\ Cardinality(B) \in Nat
  <2>1. IsFiniteSet(A) /\ CountIn(f, d, p, q) \in Nat
    BY CountInType
  <2>2. IsFiniteSet(B) /\ CountIn(f, d, q, x) \in Nat
    BY CountInType
  <2> QED BY <2>1, <2>2 DEF CountIn
<1>3. Cardinality(A \cup B) = Cardinality(A) + Cardinality(B) - Cardinality(A \cap B)
  BY <1>2, FS_Union
<1> HIDE DEF A, B, U
<1>4. Cardinality(U) = Cardinality(A) + Cardinality(B)
  BY <1>1, <1>2, <1>3, FS_EmptySet
<1> QED  BY <1>4 DEF CountIn, A, B, U

-----------------------------------------------------------------------------
(***************************************************************************)
(* The invariant.                                                          *)
(***************************************************************************)

\* build_rank: acc holds the occurrences in the words counted so far.
AccExact ==
    /\ pc = "block" => \A d \in Digits : acc[d] = Occ(d, Lim(BlockStart(b)))
    /\ pc = "words" => /\ b < Nblocks
                       /\ \A d \in Digits : acc[d] = Occ(d, Lim(BlockStart(b) + k))
    /\ pc \in {"ready", "rank", "returned"} => b = Nblocks

\* rank: r holds the occurrences before word ww, a word of i's block.
RankLoop ==
    pc = "rank" => /\ ww <= i \div Lanes
                   /\ r = Occ(v, ww * Lanes)

\* The inductive invariant.
IInv == TypeOK /\ DirectoryExact /\ AccExact /\ RankLoop /\ RankExact

-----------------------------------------------------------------------------
(***************************************************************************)
(* The shape of the directory.                                             *)
(***************************************************************************)

\* The stream and the word counts are naturals.
LEMMA StreamTypes ==
    ASSUME TypeOK
    PROVE  /\ n_ \in Nat /\ nwords_ \in Nat /\ wpb_ \in Nat \ {0} /\ Lanes \in Nat \ {0}
           /\ BlocksPerSb \in Nat \ {0}
           /\ Nblocks \in Nat /\ Nsb \in Nat
           /\ n_ <= nwords_ * Lanes
           /\ \A w \in Nat : w < nwords_ => w * Lanes < n_
           /\ nwords_ <= Nblocks * wpb_
           /\ Nblocks <= Nsb * BlocksPerSb
<1>1. /\ n_ \in Nat /\ wpb_ \in Nat \ {0} /\ Lanes \in Nat \ {0}
      /\ BlocksPerSb \in Nat \ {0} /\ nwords_ = (n_ + (Lanes - 1)) \div Lanes
  BY ConstantsAssumption DEF TypeOK, WordsFor
<1>2. /\ nwords_ \in Nat /\ n_ <= nwords_ * Lanes
      /\ \A w \in Nat : w < nwords_ => w * Lanes < n_
  BY <1>1, CeilDiv
<1>3. Nblocks \in Nat /\ nwords_ <= Nblocks * wpb_
  BY <1>1, <1>2, CeilDiv DEF Nblocks
<1>4. Nsb \in Nat /\ Nblocks <= Nsb * BlocksPerSb
  BY <1>1, <1>3, CeilDiv DEF Nsb
<1> QED  BY <1>1, <1>2, <1>3, <1>4

\* Every block has its superblock in the directory.
LEMMA SbInDirectory ==
    ASSUME TypeOK, NEW bb \in 0..Nblocks
    PROVE  bb \div BlocksPerSb \in 0..Nsb
<1>1. bb \in Nat /\ Nblocks \in Nat /\ BlocksPerSb \in Nat \ {0} /\ bb <= Nblocks + (BlocksPerSb - 1)
      /\ Nblocks + (BlocksPerSb - 1) \in Nat
  BY StreamTypes
<1>2. bb \div BlocksPerSb <= Nsb
  BY <1>1, DivMono DEF Nsb
<1>3. bb \div BlocksPerSb \in Nat /\ Nsb \in Nat
  BY <1>1, DivMod DEF Nsb
<1> QED  BY <1>2, <1>3

\* Lim(w) is where word w starts, cut off at the end of the stream.
LEMMA LimFacts ==
    ASSUME TypeOK, NEW w \in Nat
    PROVE  /\ Lim(w) \in 0..n_
           /\ Lim(w) <= w * Lanes
           /\ w >= nwords_ => Lim(w) = n_
           /\ w < nwords_ => /\ Lim(w) = w * Lanes
                             /\ Valid(w) \in 1..Lanes
                             /\ Lim(w + 1) = w * Lanes + Valid(w)
<1>1. /\ n_ \in Nat /\ nwords_ \in Nat /\ Lanes \in Nat \ {0} /\ w * Lanes \in Nat
      /\ (w + 1) * Lanes = w * Lanes + Lanes
      /\ n_ <= nwords_ * Lanes
      /\ w < nwords_ => w * Lanes < n_
  BY StreamTypes
<1>2. w >= nwords_ => nwords_ * Lanes <= w * Lanes
  BY <1>1, MulMono
<1> QED  BY <1>1, <1>2 DEF Lim, Valid

\* Lim grows by at most the lanes of the words in between.
LEMMA LimMono ==
    ASSUME TypeOK, NEW w \in Nat, NEW x \in Nat, w <= x
    PROVE  /\ Lim(w) <= Lim(x)
           /\ Lim(x) - Lim(w) <= (x - w) * Lanes
<1>1. /\ n_ \in Nat /\ Lanes \in Nat /\ w * Lanes \in Nat /\ x * Lanes \in Nat
      /\ w * Lanes <= x * Lanes /\ (x - w) * Lanes = x * Lanes - w * Lanes
  BY StreamTypes, MulMono
<1> QED  BY <1>1 DEF Lim

\* Occ is a count, and splits at every position.
LEMMA OccFacts ==
    ASSUME NEW d, NEW p \in Nat, NEW q \in Nat, p <= q
    PROVE  /\ Occ(d, p) \in Nat
           /\ Occ(d, q) = Occ(d, p) + CountIn(lanes, d, p, q)
           /\ CountIn(lanes, d, p, q) \in 0..(q - p)
<1>1. Occ(d, p) = CountIn(lanes, d, 0, p) /\ Occ(d, q) = CountIn(lanes, d, 0, q)
  BY DEF Occ, CountIn
<1>2. /\ CountIn(lanes, d, 0, p) \in Nat
      /\ CountIn(lanes, d, p, q) \in Nat
      /\ CountIn(lanes, d, p, q) <= q - p
  BY CountInType
<1>3. CountIn(lanes, d, 0, q) = CountIn(lanes, d, 0, p) + CountIn(lanes, d, p, q)
  BY CountInSplit
<1> QED  BY <1>1, <1>2, <1>3

\* swar_count counts an interval of lanes.
LEMMA SwarIsCount ==
    ASSUME NEW w, NEW d, NEW m
    PROVE  SwarCount(w, d, m) = CountIn(lanes, d, w * Lanes, w * Lanes + m)
  BY DEF SwarCount, CountIn

\* The counts between the start of a superblock and one of its blocks fit in
\* a rel_ counter.
LEMMA RelFits ==
    ASSUME TypeOK, NEW bb \in Nat, NEW d \in Digits
    PROVE  /\ SbStart(bb) \in Nat /\ BlockStart(bb) \in Nat
           /\ Occ(d, Lim(SbStart(bb))) \in Nat
           /\ Occ(d, Lim(BlockStart(bb))) \in Nat
           /\ Occ(d, Lim(BlockStart(bb))) - Occ(d, Lim(SbStart(bb))) \in 0..(RelMod - 1)
<1> DEFINE s == (bb \div BlocksPerSb) * BlocksPerSb
<1>1. /\ s \in Nat /\ s <= bb /\ bb - s \in 0..BlocksPerSb
  <2>1. /\ BlocksPerSb \in Nat \ {0}
        /\ bb \div BlocksPerSb \in Nat
        /\ bb % BlocksPerSb \in 0..(BlocksPerSb - 1)
        /\ bb = s + (bb % BlocksPerSb)
    BY StreamTypes, DivMod
  <2>2. s \in Nat
    BY <2>1
  <2> HIDE DEF s
  <2> QED  BY <2>1, <2>2
<1>2. /\ wpb_ \in Nat /\ wpb_ <= MaxWpb /\ Lanes \in Nat /\ BlocksPerSb \in Nat
      /\ MaxWpb \in Nat /\ RelMod \in Nat
  BY StreamTypes, ConstantsAssumption DEF TypeOK
<1> HIDE DEF s
<1>3. /\ s * wpb_ \in Nat /\ bb * wpb_ \in Nat /\ s * wpb_ <= bb * wpb_
      /\ bb * wpb_ - s * wpb_ = (bb - s) * wpb_
  BY <1>1, <1>2, MulMono
<1>4. (bb - s) * wpb_ <= BlocksPerSb * MaxWpb
  <2>1. (bb - s) * wpb_ <= BlocksPerSb * wpb_
    BY <1>1, <1>2, MulMono
  <2>2. wpb_ * BlocksPerSb <= MaxWpb * BlocksPerSb
    BY <1>2, MulMono
  <2> QED  BY <1>1, <1>2, <2>1, <2>2
<1>5. (bb * wpb_ - s * wpb_) * Lanes < RelMod
  <2>1. (bb * wpb_ - s * wpb_) * Lanes <= (BlocksPerSb * MaxWpb) * Lanes
    BY <1>1, <1>2, <1>3, <1>4, MulMono
  <2>2. (BlocksPerSb * MaxWpb) * Lanes = BlocksPerSb * (MaxWpb * Lanes)
    BY <1>2
  <2>3. BlocksPerSb * (MaxWpb * Lanes) < RelMod
    BY SpanAssumption
  <2> DEFINE x == (bb * wpb_ - s * wpb_) * Lanes
             y == BlocksPerSb * (MaxWpb * Lanes)
  <2>4. x \in Nat /\ y \in Nat /\ x <= y /\ y < RelMod
    BY <1>1, <1>2, <1>3, <2>1, <2>2, <2>3
  <2> HIDE DEF x, y
  <2>5. x < RelMod
    BY <1>2, <2>4
  <2> QED  BY <2>5 DEF x
<1>6. /\ Lim(s * wpb_) \in Nat /\ Lim(bb * wpb_) \in Nat
      /\ Lim(s * wpb_) <= Lim(bb * wpb_)
      /\ Lim(bb * wpb_) - Lim(s * wpb_) < RelMod
  <2>1. /\ Lim(s * wpb_) \in Nat /\ Lim(bb * wpb_) \in Nat
    BY <1>3, LimFacts, StreamTypes
  <2>2. /\ Lim(s * wpb_) <= Lim(bb * wpb_)
        /\ Lim(bb * wpb_) - Lim(s * wpb_) <= (bb * wpb_ - s * wpb_) * Lanes
    BY <1>3, LimMono
  <2> QED  BY <1>2, <1>3, <1>5, <2>1, <2>2
<1>7. /\ Occ(d, Lim(s * wpb_)) \in Nat
      /\ Occ(d, Lim(bb * wpb_)) - Occ(d, Lim(s * wpb_)) \in 0..(RelMod - 1)
  BY <1>2, <1>6, OccFacts
<1>8. Occ(d, Lim(bb * wpb_)) \in Nat
  BY <1>6, OccFacts
<1> QED  BY <1>3, <1>7, <1>8 DEF SbStart, BlockStart, s

-----------------------------------------------------------------------------
(***************************************************************************)
(* The invariant is inductive.                                             *)
(***************************************************************************)

\* Steps that leave the stream alone leave every derived quantity alone.
LEMMA StreamFrame ==
    ASSUME UNCHANGED stream
    PROVE  /\ Nblocks' = Nblocks /\ Nsb' = Nsb
           /\ \A d, p : Occ(d, p)' = Occ(d, p)
           /\ \A w : Lim(w)' = Lim(w)
           /\ \A bb : BlockStart(bb)' = BlockStart(bb) /\ SbStart(bb)' = SbStart(bb)
<1>1. n_' = n_ /\ lanes' = lanes /\ nwords_' = nwords_ /\ wpb_' = wpb_
  BY DEF stream
<1>2. Nblocks' = Nblocks
  BY <1>1 DEF Nblocks
<1>3. Nsb' = Nsb
  BY <1>2 DEF Nsb
<1>4. \A d, p : Occ(d, p)' = Occ(d, p)
  BY <1>1 DEF Occ
<1>5. \A w : Lim(w)' = Lim(w)
  BY <1>1 DEF Lim
<1>6. \A bb : BlockStart(bb)' = BlockStart(bb) /\ SbStart(bb)' = SbStart(bb)
  BY <1>1 DEF BlockStart, SbStart
<1> QED  BY <1>2, <1>3, <1>4, <1>5, <1>6

\* The default-constructed vector satisfies the invariant.
LEMMA InitIInv == Init => IInv
<1> SUFFICES ASSUME Init PROVE IInv
  OBVIOUS
<1>1. n_ = 0 /\ nwords_ = 0 /\ lanes = <<>> /\ wpb_ = 1 /\ pc = "new" /\ b = 0 /\ k = 0
      /\ i = 0 /\ ww = 0 /\ r = 0
  BY DEF Init
<1>2. WordsFor(0) = 0
  BY ConstantsAssumption, DivUnique DEF WordsFor
<1>3. lanes \in [0..(nwords_ * Lanes - 1) -> Digits]
  <2>1. 0 * Lanes = 0
    BY ConstantsAssumption
  <2>2. 0..(0 - 1) = {}
    OBVIOUS
  <2>3. <<>> \in [{} -> Digits]
    OBVIOUS
  <2> QED  BY <1>1, <2>1, <2>2, <2>3
<1>4. v \in Digits
  BY ConstantsAssumption DEF Init
<1>5. acc \in [Digits -> Nat]
  BY DEF Init, Zero
<1>6. TypeOK
  BY <1>1, <1>2, <1>3, <1>4, <1>5, ConstantsAssumption DEF TypeOK
<1> QED  BY <1>1, <1>6 DEF IInv, DirectoryExact, AccExact, RankLoop, RankExact

\* A constructor starts build_rank with empty counts.
LEMMA FromViewIInv ==
    ASSUME IInv, NEW n \in 0..MaxLength, NEW req \in Nat,
           NEW buf \in [0..(WordsFor(n) * Lanes - 1) -> Digits],
           FromView(n, buf, req)
    PROVE  IInv'
<1>1. /\ n_' = n /\ lanes' = buf /\ nwords_' = WordsFor(n) /\ wpb_' \in 1..MaxWpb
      /\ acc' = Zero /\ b' = 0 /\ k' = 0 /\ pc' = "block"
      /\ v' = v /\ i' = i /\ ww' = ww /\ r' = r /\ pc = "new"
      /\ sb_' = [s \in 0..Nsb' |-> Zero] /\ rel_' = [bb \in 0..Nblocks' |-> Zero]
  BY DEF FromView
<1>2. WordsFor(n)' = WordsFor(n)
  BY DEF WordsFor
<1>3. WordsFor(n) \in Nat
  BY ConstantsAssumption, DivMod DEF WordsFor
<1>4. Nblocks' \in Nat /\ Nsb' \in Nat
  <2>1. wpb_' \in Nat \ {0} /\ nwords_' \in Nat
    BY <1>1, <1>3, ConstantsAssumption
  <2>2. Nblocks' \in Nat
    BY <2>1, CeilDiv DEF Nblocks
  <2>3. Nsb' \in Nat
    BY <2>2, ConstantsAssumption, CeilDiv DEF Nsb
  <2> QED  BY <2>2, <2>3
<1>5. Zero \in [Digits -> Nat] /\ Zero \in [Digits -> 0..(RelMod - 1)]
  <2>1. RelMod >= 1
    BY ConstantsAssumption, SpanAssumption
  <2> QED  BY <2>1, ConstantsAssumption DEF Zero
<1>6. TypeOK'
  <2>1. v \in Digits /\ ww \in Nat /\ r \in Nat /\ i = 0
    BY <1>1 DEF IInv, TypeOK
  <2>2. /\ n_' \in 0..MaxLength /\ i' \in 0..n_' /\ k' \in 0..wpb_'
        /\ b' \in 0..Nblocks' /\ b' \in Nat
    BY <1>1, <1>4, <2>1, ConstantsAssumption
  <2>3. /\ nwords_' = WordsFor(n_)'
        /\ (lanes \in [0..(nwords_ * Lanes - 1) -> Digits])'
    BY <1>1, <1>2
  <2>4. /\ sb_' \in [0..Nsb' -> [Digits -> Nat]]
        /\ rel_' \in [0..Nblocks' -> [Digits -> 0..(RelMod - 1)]]
    BY <1>1, <1>5
  <2> QED  BY <1>1, <1>5, <2>1, <2>2, <2>3, <2>4 DEF TypeOK
<1>7. AccExact'
  <2>1. Lim(BlockStart(0))' = 0
    <3>1. wpb_' \in Nat /\ n_' \in Nat /\ Lanes \in Nat
      BY <1>1, ConstantsAssumption
    <3>2. 0 * wpb_' = 0 /\ 0 * Lanes = 0
      BY <3>1, ZeroTimes
    <3>3. BlockStart(0)' = 0
      BY <3>2 DEF BlockStart
    <3>4. Lim(0)' = IF 0 < n_' THEN 0 ELSE n_'
      BY <3>2 DEF Lim
    <3>5. n = 0 \/ 0 < n
      OBVIOUS
    <3> QED  BY <1>1, <3>3, <3>4, <3>5
  <2>2. \A d \in Digits : Occ(d, 0)' = 0
    BY FS_EmptySet DEF Occ
  <2> QED  BY <1>1, <2>1, <2>2 DEF AccExact, Zero
<1> QED  BY <1>1, <1>6, <1>7 DEF IInv, DirectoryExact, WrittenBlocks, RankLoop, RankExact

\* The head of a block: the entries written are exact and nothing is
\* truncated, because the counts fit.
LEMMA BlockHeadIInv ==
    ASSUME IInv, BlockHead
    PROVE  IInv'
<1> DEFINE s == b \div BlocksPerSb
<1>1. TypeOK /\ DirectoryExact /\ AccExact /\ pc = "block"
  BY DEF IInv, BlockHead
<1>2. /\ UNCHANGED stream
      /\ n_' = n_ /\ lanes' = lanes /\ nwords_' = nwords_ /\ wpb_' = wpb_
      /\ acc' = acc /\ b' = b /\ v' = v /\ i' = i /\ ww' = ww /\ r' = r /\ k' = 0
      /\ sb_' = SbAfter
      /\ rel_' = [rel_ EXCEPT ![b] =
                    [d \in Digits |-> (acc[d] - SbAfter[b \div BlocksPerSb][d]) % RelMod]]
      /\ pc' = IF b < Nblocks THEN "words" ELSE "ready"
  BY DEF BlockHead, stream
<1>3. /\ b \in Nat /\ b \in 0..Nblocks /\ Nblocks \in Nat /\ BlocksPerSb \in Nat \ {0}
      /\ s \in 0..Nsb /\ acc \in [Digits -> Nat]
      /\ sb_ \in [0..Nsb -> [Digits -> Nat]]
      /\ rel_ \in [0..Nblocks -> [Digits -> 0..(RelMod - 1)]]
      /\ RelMod \in Nat
  BY <1>1, SbInDirectory, StreamTypes, ConstantsAssumption DEF TypeOK
<1>4. SbAfter \in [0..Nsb -> [Digits -> Nat]]
  BY <1>3 DEF SbAfter
<1>5. \A d \in Digits : SbAfter[s][d] = Occ(d, Lim(SbStart(b)))
  <2>1. CASE b % BlocksPerSb = 0
    <3>1. SbStart(b) = BlockStart(b)
      BY <1>3, <2>1, SbNeighbours DEF SbStart, BlockStart
    <3>2. SbAfter[s] = acc
      BY <1>3, <2>1 DEF SbAfter
    <3> QED  BY <1>1, <3>1, <3>2 DEF AccExact
  <2>2. CASE b % BlocksPerSb # 0
    <3>1. b >= 1 /\ (b - 1) \div BlocksPerSb = s
      BY <1>3, <2>2, SbNeighbours
    <3>2. SbStart(b - 1) = SbStart(b)
      BY <3>1 DEF SbStart
    <3>3. b - 1 \in 0..(b - 1)
      BY <1>3, <3>1
    <3>4. \A d \in Digits : sb_[s][d] = Occ(d, Lim(SbStart(b - 1)))
      BY <1>1, <3>1, <3>3 DEF DirectoryExact, WrittenBlocks
    <3> QED  BY <2>2, <3>2, <3>4 DEF SbAfter
  <2> QED  BY <2>1, <2>2
<1>6. \A d \in Digits :
         /\ (acc[d] - SbAfter[s][d]) % RelMod = acc[d] - SbAfter[s][d]
         /\ acc[d] - SbAfter[s][d] \in 0..(RelMod - 1)
  <2> TAKE d \in Digits
  <2>1. acc[d] = Occ(d, Lim(BlockStart(b))) /\ acc[d] \in Nat
    BY <1>1, <1>3 DEF AccExact
  <2>2. acc[d] - SbAfter[s][d] \in 0..(RelMod - 1)
    BY <1>1, <1>3, <1>5, <2>1, RelFits
  <2> HIDE DEF s
  <2> QED  BY <1>3, <2>2, SmallMod
<1>7. /\ rel_' \in [0..Nblocks -> [Digits -> 0..(RelMod - 1)]]
      /\ \A d \in Digits : rel_'[b][d] = acc[d] - SbAfter[s][d]
      /\ \A bb \in 0..Nblocks : bb # b => rel_'[bb] = rel_[bb]
  <2>1. [d \in Digits |-> (acc[d] - SbAfter[s][d]) % RelMod] \in [Digits -> 0..(RelMod - 1)]
    BY <1>6
  <2> QED  BY <1>2, <1>3, <1>6, <2>1
<1>8. TypeOK'
  <2>1. /\ Nblocks' = Nblocks /\ Nsb' = Nsb /\ WordsFor(n_)' = WordsFor(n_)
    BY <1>2, StreamFrame DEF WordsFor
  <2>2. 0 \in 0..wpb_
    BY <1>1, StreamTypes
  <2>3. pc' \in {"words", "ready"}
    BY <1>2
  <2> QED  BY <1>1, <1>2, <1>3, <1>4, <1>7, <2>1, <2>2, <2>3 DEF TypeOK
<1>9. DirectoryExact'
  <2>1. WrittenBlocks' = 0..b
    BY <1>2 DEF WrittenBlocks
  <2>2. ASSUME NEW bb \in 0..b, NEW d \in Digits
        PROVE  /\ SbAfter[bb \div BlocksPerSb][d] = Occ(d, Lim(SbStart(bb)))
               /\ rel_'[bb][d] + Occ(d, Lim(SbStart(bb))) = Occ(d, Lim(BlockStart(bb)))
    <3>1. CASE bb = b
      <4>1. SbAfter[s][d] = Occ(d, Lim(SbStart(b)))
        BY <1>5
      <4>2. /\ rel_'[b][d] = acc[d] - SbAfter[s][d]
            /\ acc[d] = Occ(d, Lim(BlockStart(b))) /\ acc[d] \in Nat
            /\ Occ(d, Lim(SbStart(b))) \in Nat
        BY <1>1, <1>3, <1>7, RelFits DEF AccExact
      <4>3. rel_'[b][d] + Occ(d, Lim(SbStart(b))) = Occ(d, Lim(BlockStart(b)))
        BY <4>1, <4>2
      <4> QED  BY <3>1, <4>1, <4>3
    <3>2. CASE bb # b
      <4>1. bb \in 0..(b - 1) /\ bb \in 0..Nblocks
        BY <1>3, <3>2
      <4>2. /\ sb_[bb \div BlocksPerSb][d] = Occ(d, Lim(SbStart(bb)))
            /\ rel_[bb][d] + Occ(d, Lim(SbStart(bb))) = Occ(d, Lim(BlockStart(bb)))
        BY <1>1, <4>1 DEF DirectoryExact, WrittenBlocks
      <4>3. rel_'[bb] = rel_[bb]
        BY <1>7, <3>2, <4>1
      <4>4. SbAfter[bb \div BlocksPerSb] = sb_[bb \div BlocksPerSb]
        <5>1. b % BlocksPerSb = 0 => bb \div BlocksPerSb # b \div BlocksPerSb
          BY <1>3, <4>1, SbNeighbours
        <5>2. bb \div BlocksPerSb \in 0..Nsb
          BY <1>1, <4>1, SbInDirectory
        <5> QED  BY <1>3, <5>1, <5>2 DEF SbAfter
      <4> QED  BY <4>2, <4>3, <4>4
    <3> QED  BY <3>1, <3>2
  <2>3. \A d, p : Occ(d, p)' = Occ(d, p)
    BY <1>2, StreamFrame
  <2>4. \A bb : /\ Lim(SbStart(bb))' = Lim(SbStart(bb))
                /\ Lim(BlockStart(bb))' = Lim(BlockStart(bb))
    BY <1>2 DEF Lim, SbStart, BlockStart
  <2>5. \A bb, d : /\ Occ(d, Lim(SbStart(bb)))' = Occ(d, Lim(SbStart(bb)))
                   /\ Occ(d, Lim(BlockStart(bb)))' = Occ(d, Lim(BlockStart(bb)))
    BY <1>2, <2>4 DEF Occ
  <2>6. ASSUME NEW bb \in WrittenBlocks', NEW d \in Digits
        PROVE  /\ (sb_[bb \div BlocksPerSb][d] = Occ(d, Lim(SbStart(bb))))'
               /\ (rel_[bb][d] + Occ(d, Lim(SbStart(bb))) = Occ(d, Lim(BlockStart(bb))))'
    BY <1>2, <2>1, <2>2, <2>5
  <2> QED  BY <2>6 DEF DirectoryExact
<1>10. AccExact'
  <2>1. Nblocks' = Nblocks
    BY <1>2, StreamFrame
  <2>2. \A d \in Digits : acc[d] = Occ(d, Lim(BlockStart(b) + 0))
    <3>1. BlockStart(b) + 0 = BlockStart(b)
      <4>1. BlockStart(b) \in Nat
        <5>1. wpb_ \in Nat
          BY <1>1, StreamTypes
        <5> QED  BY <1>3, <5>1 DEF BlockStart
      <4> QED  BY <4>1
    <3> QED  BY <1>1, <3>1 DEF AccExact
  <2>3. \A d \in Digits : (acc[d] = Occ(d, Lim(BlockStart(b) + k)))'
    BY <1>2, <2>2 DEF Occ, Lim, BlockStart
  <2>4. pc' = "ready" => b = Nblocks
    BY <1>2, <1>3
  <2> QED  BY <1>2, <2>1, <2>3, <2>4 DEF AccExact
<1> QED  BY <1>2, <1>8, <1>9, <1>10 DEF IInv, RankLoop, RankExact

\* A step of build_rank that only moves b, k, acc and pc keeps the entries
\* already written.
LEMMA DirectoryFrame ==
    ASSUME DirectoryExact, UNCHANGED <<stream, sb_, rel_>>,
           pc # "new", pc' # "new", WrittenBlocks' \subseteq WrittenBlocks
    PROVE  DirectoryExact'
<1>1. /\ n_' = n_ /\ lanes' = lanes /\ nwords_' = nwords_ /\ wpb_' = wpb_
      /\ sb_' = sb_ /\ rel_' = rel_
  BY DEF stream
<1>2. \A bb, d : /\ Occ(d, Lim(SbStart(bb)))' = Occ(d, Lim(SbStart(bb)))
                 /\ Occ(d, Lim(BlockStart(bb)))' = Occ(d, Lim(BlockStart(bb)))
  BY <1>1 DEF Occ, Lim, SbStart, BlockStart
<1>3. ASSUME NEW bb \in WrittenBlocks', NEW d \in Digits
      PROVE  /\ (sb_[bb \div BlocksPerSb][d] = Occ(d, Lim(SbStart(bb))))'
             /\ (rel_[bb][d] + Occ(d, Lim(SbStart(bb))) = Occ(d, Lim(BlockStart(bb))))'
  BY <1>1, <1>2 DEF DirectoryExact
<1> QED  BY <1>3 DEF DirectoryExact

\* One more word in the running counts.
LEMMA CountWordIInv ==
    ASSUME IInv, CountWord
    PROVE  IInv'
<1> DEFINE w == b * wpb_ + k
<1>1. TypeOK /\ DirectoryExact /\ AccExact /\ pc = "words" /\ k < wpb_ /\ w < nwords_
  BY DEF IInv, CountWord
<1>2. /\ UNCHANGED stream
      /\ n_' = n_ /\ lanes' = lanes /\ nwords_' = nwords_ /\ wpb_' = wpb_
      /\ sb_' = sb_ /\ rel_' = rel_ /\ b' = b /\ v' = v /\ i' = i /\ ww' = ww /\ r' = r
      /\ pc' = pc /\ k' = k + 1
      /\ acc' = [d \in Digits |-> acc[d] + SwarCount(w, d, Valid(w))]
  BY DEF CountWord, stream
<1>3. /\ b \in Nat /\ k \in Nat /\ wpb_ \in Nat /\ Lanes \in Nat /\ w \in Nat
      /\ acc \in [Digits -> Nat]
  <2>1. /\ wpb_ \in Nat /\ Lanes \in Nat
    BY <1>1, StreamTypes
  <2>2. b \in Nat /\ k \in 0..wpb_ /\ acc \in [Digits -> Nat]
    BY <1>1 DEF TypeOK
  <2>3. b * wpb_ \in Nat /\ k \in Nat
    BY <2>1, <2>2
  <2> QED  BY <2>1, <2>2, <2>3
<1>4. /\ Lim(w) = w * Lanes /\ Valid(w) \in 1..Lanes
      /\ Lim(w + 1) = w * Lanes + Valid(w)
  BY <1>1, <1>3, LimFacts
<1>5. ASSUME NEW d \in Digits
      PROVE  /\ SwarCount(w, d, Valid(w)) \in Nat
             /\ acc[d] + SwarCount(w, d, Valid(w)) = Occ(d, Lim(w + 1))
  <2>1. SwarCount(w, d, Valid(w)) = CountIn(lanes, d, w * Lanes, w * Lanes + Valid(w))
    BY SwarIsCount
  <2>2. /\ w * Lanes \in Nat /\ w * Lanes + Valid(w) \in Nat
        /\ w * Lanes <= w * Lanes + Valid(w)
    BY <1>3, <1>4
  <2>3. acc[d] = Occ(d, w * Lanes)
    BY <1>1, <1>4 DEF AccExact, BlockStart
  <2> QED  BY <1>4, <2>1, <2>2, <2>3, OccFacts
<1>6. k + 1 \in 0..wpb_ /\ w + 1 = b * wpb_ + (k + 1)
  BY <1>1, <1>3
<1>7. TypeOK'
  <2>1. acc' \in [Digits -> Nat]
    BY <1>2, <1>3, <1>5
  <2>2. /\ Nblocks' = Nblocks /\ Nsb' = Nsb /\ WordsFor(n_)' = WordsFor(n_)
    BY <1>2, StreamFrame DEF WordsFor
  <2> QED  BY <1>1, <1>2, <1>6, <2>1, <2>2 DEF TypeOK
<1>8. DirectoryExact'
  BY <1>1, <1>2, DirectoryFrame DEF WrittenBlocks
<1>9. AccExact'
  <2>1. \A d \in Digits : acc'[d] = Occ(d, Lim(b * wpb_ + (k + 1)))
    BY <1>2, <1>5, <1>6
  <2>2. \A d \in Digits : (acc[d] = Occ(d, Lim(BlockStart(b) + k)))'
    BY <1>2, <2>1 DEF Occ, Lim, BlockStart
  <2>3. Nblocks' = Nblocks
    BY <1>2, StreamFrame
  <2> QED  BY <1>1, <1>2, <2>2, <2>3 DEF AccExact
<1> QED  BY <1>1, <1>2, <1>7, <1>8, <1>9 DEF IInv, RankLoop, RankExact

\* The end of a block: either it was full, or the stream was exhausted and
\* the words that the block lacks hold nothing.
LEMMA NextBlockIInv ==
    ASSUME IInv, NextBlock
    PROVE  IInv'
<1>1. /\ TypeOK /\ DirectoryExact /\ AccExact /\ pc = "words" /\ b < Nblocks
      /\ ~(k < wpb_ /\ b * wpb_ + k < nwords_)
  BY DEF IInv, NextBlock, AccExact
<1>2. /\ UNCHANGED stream
      /\ n_' = n_ /\ lanes' = lanes /\ nwords_' = nwords_ /\ wpb_' = wpb_
      /\ sb_' = sb_ /\ rel_' = rel_ /\ acc' = acc /\ v' = v /\ i' = i /\ ww' = ww /\ r' = r
      /\ pc' = "block" /\ b' = b + 1 /\ k' = 0
  BY DEF NextBlock, stream
<1>3. /\ b \in Nat /\ k \in 0..wpb_ /\ wpb_ \in Nat \ {0} /\ nwords_ \in Nat /\ Nblocks \in Nat
      /\ b * wpb_ \in Nat /\ (b + 1) * wpb_ = b * wpb_ + wpb_
  BY <1>1, StreamTypes DEF TypeOK
<1>4. Lim(b * wpb_ + k) = Lim((b + 1) * wpb_)
  <2>1. CASE k = wpb_
    BY <1>3, <2>1
  <2>2. CASE k < wpb_
    <3>1. b * wpb_ + k >= nwords_ /\ (b + 1) * wpb_ >= nwords_
      BY <1>1, <1>3, <2>2
    <3> QED  BY <1>1, <1>3, <3>1, LimFacts
  <2> QED  BY <1>3, <2>1, <2>2
<1>5. TypeOK'
  <2>1. /\ Nblocks' = Nblocks /\ Nsb' = Nsb /\ WordsFor(n_)' = WordsFor(n_)
    BY <1>2, StreamFrame DEF WordsFor
  <2>2. b + 1 \in 0..Nblocks /\ b + 1 \in Nat /\ 0 \in 0..wpb_
    BY <1>1, <1>3
  <2> QED  BY <1>1, <1>2, <2>1, <2>2 DEF TypeOK
<1>6. DirectoryExact'
  <2>1. WrittenBlocks' = 0..((b + 1) - 1) /\ WrittenBlocks = 0..b
    BY <1>1, <1>2 DEF WrittenBlocks
  <2>2. (b + 1) - 1 = b
    BY <1>3
  <2> QED  BY <1>1, <1>2, <2>1, <2>2, DirectoryFrame
<1>7. AccExact'
  <2>1. \A d \in Digits : acc[d] = Occ(d, Lim((b + 1) * wpb_))
    BY <1>1, <1>4 DEF AccExact, BlockStart
  <2>2. \A d \in Digits : (acc[d] = Occ(d, Lim(BlockStart(b))))'
    BY <1>2, <2>1 DEF Occ, Lim, BlockStart
  <2> QED  BY <1>2, <2>2 DEF AccExact
<1> QED  BY <1>2, <1>5, <1>6, <1>7 DEF IInv, RankLoop, RankExact

\* The block of a position, and where it starts.
LEMMA BlockOf ==
    ASSUME TypeOK, NEW p \in 0..n_
    PROVE  LET w == p \div Lanes
               blk == w \div wpb_ IN
           /\ w \in Nat /\ w * Lanes + (p % Lanes) = p /\ p % Lanes \in 0..(Lanes - 1)
           /\ w <= nwords_
           /\ p % Lanes # 0 => w < nwords_
           /\ blk \in 0..Nblocks /\ blk * wpb_ \in Nat /\ blk * wpb_ <= w
           /\ Lim(blk * wpb_) = (blk * wpb_) * Lanes
<1> DEFINE w == p \div Lanes
           blk == w \div wpb_
<1>1. /\ n_ \in Nat /\ nwords_ \in Nat /\ wpb_ \in Nat \ {0} /\ Lanes \in Nat \ {0}
      /\ Nblocks \in Nat /\ p \in Nat /\ p <= n_ /\ n_ <= nwords_ * Lanes
      /\ nwords_ = (n_ + (Lanes - 1)) \div Lanes
  BY StreamTypes DEF TypeOK, WordsFor
<1>2. w \in Nat /\ w * Lanes + (p % Lanes) = p /\ p % Lanes \in 0..(Lanes - 1)
  BY <1>1, DivMod
<1>3. w <= nwords_
  <2>1. n_ + (Lanes - 1) \in Nat /\ p <= n_ + (Lanes - 1)
    BY <1>1
  <2> QED  BY <1>1, <2>1, DivMono
<1>4. p % Lanes # 0 => w < nwords_
  <2> SUFFICES ASSUME p % Lanes # 0, w = nwords_ PROVE FALSE
    BY <1>1, <1>2, <1>3
  <2>1. p > w * Lanes
    BY <1>1, <1>2
  <2> QED  BY <1>1, <2>1
<1>5. blk \in Nat /\ blk * wpb_ \in Nat /\ blk * wpb_ <= w
  <2>1. blk \in Nat /\ w = blk * wpb_ + (w % wpb_) /\ w % wpb_ \in Nat
    <3> HIDE DEF w
    <3>1. /\ w \div wpb_ \in Nat /\ w % wpb_ \in 0..(wpb_ - 1)
          /\ w = (w \div wpb_) * wpb_ + (w % wpb_)
      BY <1>1, <1>2, DivMod
    <3>2. w % wpb_ \in Nat
      BY <1>1, <3>1
    <3> QED  BY <3>1, <3>2
  <2>2. blk * wpb_ \in Nat
    BY <1>1, <2>1
  <2> HIDE DEF blk, w
  <2> QED  BY <2>1, <2>2
<1>6. blk <= Nblocks
  <2>1. nwords_ + (wpb_ - 1) \in Nat /\ w <= nwords_ + (wpb_ - 1)
    BY <1>1, <1>2, <1>3
  <2> QED  BY <1>1, <1>2, <2>1, DivMono DEF Nblocks
<1>7. Lim(blk * wpb_) = (blk * wpb_) * Lanes
  <2>1. (blk * wpb_) * Lanes <= w * Lanes /\ (blk * wpb_) * Lanes \in Nat /\ w * Lanes \in Nat
    BY <1>1, <1>2, <1>5, MulMono
  <2>2. w * Lanes <= n_
    BY <1>1, <1>2, <2>1
  <2> QED  BY <1>1, <2>1, <2>2 DEF Lim
<1>8. blk \in 0..Nblocks
  BY <1>1, <1>5, <1>6
<1> QED  BY <1>2, <1>3, <1>4, <1>5, <1>7, <1>8

\* rank reads the exact entries of the block of p.
LEMMA RankCallIInv ==
    ASSUME IInv, NEW d \in Digits, NEW p \in 0..n_, RankCall(d, p)
    PROVE  IInv'
<1> DEFINE w == p \div Lanes
           blk == w \div wpb_
<1>1. TypeOK /\ DirectoryExact /\ AccExact /\ pc \in {"ready", "returned"} /\ b = Nblocks
  BY DEF IInv, RankCall, AccExact
<1>2. /\ UNCHANGED stream
      /\ n_' = n_ /\ lanes' = lanes /\ nwords_' = nwords_ /\ wpb_' = wpb_
      /\ sb_' = sb_ /\ rel_' = rel_ /\ acc' = acc /\ b' = b /\ k' = k
      /\ v' = d /\ i' = p /\ pc' = "rank"
      /\ r' = sb_[blk \div BlocksPerSb][d] + rel_[blk][d] /\ ww' = blk * wpb_
  BY DEF RankCall, stream, builder
<1>3. /\ w \in Nat /\ blk \in 0..Nblocks /\ blk * wpb_ \in Nat /\ blk * wpb_ <= w
      /\ Lim(blk * wpb_) = (blk * wpb_) * Lanes
  BY <1>1, BlockOf
<1> HIDE DEF w, blk
<1>4. r' \in Nat /\ r' = Occ(d, (blk * wpb_) * Lanes)
  <2>1. blk \in WrittenBlocks
    BY <1>1, <1>3 DEF WrittenBlocks
  <2>2. /\ sb_[blk \div BlocksPerSb][d] = Occ(d, Lim(SbStart(blk)))
        /\ rel_[blk][d] + Occ(d, Lim(SbStart(blk))) = Occ(d, Lim(BlockStart(blk)))
    BY <1>1, <2>1 DEF DirectoryExact
  <2>3. BlockStart(blk) = blk * wpb_
    BY DEF BlockStart
  <2>4. blk \in Nat /\ rel_[blk][d] \in 0..(RelMod - 1)
    <3>1. rel_ \in [0..Nblocks -> [Digits -> 0..(RelMod - 1)]]
      BY <1>1 DEF TypeOK
    <3>2. rel_[blk] \in [Digits -> 0..(RelMod - 1)]
      BY <1>3, <3>1
    <3>3. blk \in Nat
      BY <1>1, <1>3, StreamTypes
    <3> QED  BY <3>2, <3>3
  <2>5. rel_[blk][d] \in Nat /\ Occ(d, Lim(SbStart(blk))) \in Nat
        /\ Occ(d, Lim(BlockStart(blk))) \in Nat
    BY <1>1, <2>4, RelFits, ConstantsAssumption
  <2> QED  BY <1>2, <1>3, <2>2, <2>3, <2>5
<1>5. TypeOK'
  <2>1. /\ Nblocks' = Nblocks /\ Nsb' = Nsb /\ WordsFor(n_)' = WordsFor(n_)
    BY <1>2, StreamFrame DEF WordsFor
  <2> QED  BY <1>1, <1>2, <1>3, <1>4, <2>1 DEF TypeOK
<1>6. DirectoryExact'
  BY <1>1, <1>2, DirectoryFrame DEF WrittenBlocks
<1>7. AccExact'
  BY <1>1, <1>2, StreamFrame DEF AccExact
<1>8. RankLoop'
  <2>1. (r = Occ(v, ww * Lanes))'
    BY <1>2, <1>4 DEF Occ
  <2>2. (ww <= i \div Lanes)'
    BY <1>2, <1>3 DEF w
  <2> QED  BY <2>1, <2>2 DEF RankLoop
<1> QED  BY <1>2, <1>5, <1>6, <1>7, <1>8 DEF IInv, RankExact

\* A full word of the block.
LEMMA RankWordIInv ==
    ASSUME IInv, RankWord
    PROVE  IInv'
<1>1. /\ TypeOK /\ DirectoryExact /\ AccExact /\ pc = "rank" /\ ww < i \div Lanes
      /\ r = Occ(v, ww * Lanes)
  BY DEF IInv, RankWord, RankLoop
<1>2. /\ UNCHANGED stream
      /\ n_' = n_ /\ lanes' = lanes /\ nwords_' = nwords_ /\ wpb_' = wpb_
      /\ sb_' = sb_ /\ rel_' = rel_ /\ acc' = acc /\ b' = b /\ k' = k
      /\ v' = v /\ i' = i /\ pc' = pc
      /\ r' = r + SwarCount(ww, v, Lanes) /\ ww' = ww + 1
  BY DEF RankWord, stream, builder
<1>3. ww \in Nat /\ Lanes \in Nat \ {0} /\ i \div Lanes \in Nat
  BY <1>1, StreamTypes, BlockOf DEF TypeOK
<1>4. r + SwarCount(ww, v, Lanes) = Occ(v, (ww + 1) * Lanes) /\ Occ(v, (ww + 1) * Lanes) \in Nat
  <2>1. ww * Lanes \in Nat /\ (ww + 1) * Lanes = ww * Lanes + Lanes
    BY <1>3
  <2>2. ww * Lanes + Lanes \in Nat /\ ww * Lanes <= ww * Lanes + Lanes
    BY <1>3, <2>1
  <2>3. SwarCount(ww, v, Lanes) = CountIn(lanes, v, ww * Lanes, ww * Lanes + Lanes)
    BY SwarIsCount
  <2>4. Occ(v, ww * Lanes + Lanes) = Occ(v, ww * Lanes) + CountIn(lanes, v, ww * Lanes, ww * Lanes + Lanes)
    BY <2>1, <2>2, OccFacts
  <2>5. Occ(v, ww * Lanes + Lanes) \in Nat
    BY <2>2, OccFacts
  <2> QED  BY <1>1, <2>1, <2>3, <2>4, <2>5
<1>5. TypeOK'
  <2>1. /\ Nblocks' = Nblocks /\ Nsb' = Nsb /\ WordsFor(n_)' = WordsFor(n_)
    BY <1>2, StreamFrame DEF WordsFor
  <2>2. r' \in Nat /\ ww' \in Nat
    BY <1>2, <1>3, <1>4
  <2> QED  BY <1>1, <1>2, <2>1, <2>2 DEF TypeOK
<1>6. DirectoryExact'
  BY <1>1, <1>2, DirectoryFrame DEF WrittenBlocks
<1>7. AccExact'
  BY <1>1, <1>2, StreamFrame DEF AccExact
<1>8. RankLoop'
  <2>1. (r = Occ(v, ww * Lanes))'
    BY <1>2, <1>4 DEF Occ
  <2>2. ww + 1 <= i \div Lanes
    BY <1>1, <1>3
  <2>3. (ww <= i \div Lanes)'
    BY <1>2, <2>2
  <2> QED  BY <2>1, <2>3 DEF RankLoop
<1> QED  BY <1>1, <1>2, <1>5, <1>6, <1>7, <1>8 DEF IInv, RankExact

\* The partial word completes the count.
LEMMA RankReturnIInv ==
    ASSUME IInv, RankReturn
    PROVE  IInv'
<1> DEFINE w == i \div Lanes
           off == i % Lanes
<1>1. /\ TypeOK /\ DirectoryExact /\ AccExact /\ pc = "rank" /\ ~(ww < w) /\ ww <= w
      /\ r = Occ(v, ww * Lanes) /\ i \in 0..n_ /\ ww \in Nat /\ r \in Nat
  BY DEF IInv, RankReturn, RankLoop, TypeOK
<1>2. /\ UNCHANGED stream
      /\ n_' = n_ /\ lanes' = lanes /\ nwords_' = nwords_ /\ wpb_' = wpb_
      /\ sb_' = sb_ /\ rel_' = rel_ /\ acc' = acc /\ b' = b /\ k' = k
      /\ v' = v /\ i' = i /\ ww' = ww /\ pc' = "returned"
      /\ r' = IF off # 0 THEN r + SwarCount(w, v, off) ELSE r
  BY DEF RankReturn, stream, builder
<1>3. w \in Nat /\ w * Lanes + off = i /\ off \in 0..(Lanes - 1) /\ Lanes \in Nat /\ i \in Nat
  BY <1>1, BlockOf, StreamTypes
<1> HIDE DEF w, off
<1>4. w * Lanes \in Nat /\ off \in Nat /\ w * Lanes <= i /\ r = Occ(v, w * Lanes)
  BY <1>1, <1>3
<1>5. r' = Occ(v, i) /\ Occ(v, i) \in Nat
  <2>1. /\ Occ(v, i) = r + CountIn(lanes, v, w * Lanes, i)
        /\ CountIn(lanes, v, w * Lanes, i) \in 0..(i - w * Lanes)
    BY <1>3, <1>4, OccFacts
  <2>2. SwarCount(w, v, off) = CountIn(lanes, v, w * Lanes, i)
    BY <1>3, SwarIsCount
  <2>3. off = 0 => Occ(v, i) = r
    BY <1>3, <1>4
  <2>4. Occ(v, i) \in Nat
    BY <1>3, OccFacts
  <2> QED  BY <1>2, <2>1, <2>2, <2>3, <2>4
<1>6. TypeOK'
  <2>1. /\ Nblocks' = Nblocks /\ Nsb' = Nsb /\ WordsFor(n_)' = WordsFor(n_)
    BY <1>2, StreamFrame DEF WordsFor
  <2> QED  BY <1>1, <1>2, <1>5, <2>1 DEF TypeOK
<1>7. DirectoryExact'
  BY <1>1, <1>2, DirectoryFrame DEF WrittenBlocks
<1>8. AccExact'
  BY <1>1, <1>2, StreamFrame DEF AccExact
<1>9. RankExact'
  BY <1>2, <1>5 DEF RankExact, Occ
<1> QED  BY <1>2, <1>6, <1>7, <1>8, <1>9 DEF IInv, RankLoop

\* Every step preserves the invariant.
LEMMA NextIInv == IInv /\ [Next]_vars => IInv'
<1> SUFFICES ASSUME IInv, [Next]_vars PROVE IInv'
  OBVIOUS
<1>1. ASSUME NEW n \in 0..MaxLength, NEW req \in 0..(MaxWpb + 1),
             NEW buf \in [0..(WordsFor(n) * Lanes - 1) -> Digits], FromView(n, buf, req)
      PROVE  IInv'
  <2>1. req \in Nat
    BY ConstantsAssumption
  <2> QED  BY <1>1, <2>1, FromViewIInv
<1>2. CASE BlockHead
  BY <1>2, BlockHeadIInv
<1>3. CASE CountWord
  BY <1>3, CountWordIInv
<1>4. CASE NextBlock
  BY <1>4, NextBlockIInv
<1>5. ASSUME NEW d \in Digits, NEW p \in 0..n_, RankCall(d, p)
      PROVE  IInv'
  BY <1>5, RankCallIInv
<1>6. CASE RankWord
  BY <1>6, RankWordIInv
<1>7. CASE RankReturn
  BY <1>7, RankReturnIInv
<1>8. CASE UNCHANGED vars
  <2>1. /\ UNCHANGED stream /\ UNCHANGED <<stream, sb_, rel_>>
        /\ n_' = n_ /\ lanes' = lanes /\ nwords_' = nwords_ /\ wpb_' = wpb_
        /\ sb_' = sb_ /\ rel_' = rel_ /\ acc' = acc /\ b' = b /\ k' = k
        /\ v' = v /\ i' = i /\ ww' = ww /\ r' = r /\ pc' = pc
    BY <1>8 DEF vars, stream
  <2>2. /\ Nblocks' = Nblocks /\ Nsb' = Nsb /\ WordsFor(n_)' = WordsFor(n_)
    BY <2>1, StreamFrame DEF WordsFor
  <2>3. TypeOK'
    BY <2>1, <2>2 DEF IInv, TypeOK
  <2>4. DirectoryExact'
    <3>1. CASE pc = "new"
      BY <2>1, <3>1 DEF DirectoryExact
    <3>2. CASE pc # "new"
      BY <2>1, <3>2, DirectoryFrame DEF IInv, WrittenBlocks
    <3> QED  BY <3>1, <3>2
  <2>5. AccExact'
    BY <2>1, <2>2 DEF IInv, AccExact, Occ, Lim, BlockStart
  <2>6. RankLoop' /\ RankExact'
    BY <2>1 DEF IInv, RankLoop, RankExact, Occ
  <2> QED  BY <2>3, <2>4, <2>5, <2>6 DEF IInv
<1> QED  BY <1>1, <1>2, <1>3, <1>4, <1>5, <1>6, <1>7, <1>8 DEF Next

-----------------------------------------------------------------------------
(***************************************************************************)
(* The theorems.                                                           *)
(***************************************************************************)

\* The inductive invariant holds in every reachable state of QuadVector.
THEOREM Inductive == Spec => []IInv
  BY InitIInv, NextIInv, PTL DEF Spec

\* build_rank and rank keep the types of their fields and locals.
THEOREM TypeCorrect == Spec => []TypeOK
<1>1. IInv => TypeOK
  BY DEF IInv
<1> QED  BY <1>1, Inductive, PTL

\* build_rank writes exact sb_ and rel_ entries, for every block size.
THEOREM DirectoryCorrect == Spec => []DirectoryExact
<1>1. IInv => DirectoryExact
  BY DEF IInv
<1> QED  BY <1>1, Inductive, PTL

\* rank(v, i) is the number of occurrences of v before i.
THEOREM RankCorrect == Spec => []RankExact
<1>1. IInv => RankExact
  BY DEF IInv
<1> QED  BY <1>1, Inductive, PTL

\* rank and build_rank stay inside the words and the directory.
THEOREM BoundsCorrect == Spec => []ReadsInBounds
<1>1. IInv => ReadsInBounds
  <2> SUFFICES ASSUME IInv PROVE ReadsInBounds
    OBVIOUS
  <2>1. TypeOK /\ i \in 0..n_ /\ ww \in Nat
    BY DEF IInv, TypeOK
  <2>2. /\ i \div Lanes \in Nat /\ i \div Lanes <= nwords_ /\ nwords_ \in Nat
        /\ i % Lanes # 0 => i \div Lanes < nwords_
        /\ (i \div Lanes) \div wpb_ \in 0..Nblocks /\ Nblocks \in Nat
    BY <2>1, BlockOf, StreamTypes
  <2>3. pc # "new" => b \div BlocksPerSb <= Nsb
    <3> SUFFICES ASSUME pc # "new" PROVE b \div BlocksPerSb <= Nsb
      OBVIOUS
    <3>1. b \in 0..Nblocks
      BY <2>1 DEF TypeOK
    <3>2. b \div BlocksPerSb \in 0..Nsb /\ Nsb \in Nat
      BY <2>1, <3>1, SbInDirectory, StreamTypes
    <3> QED  BY <3>2
  <2> QED  BY <2>1, <2>2, <2>3 DEF ReadsInBounds
<1> QED  BY <1>1, Inductive, PTL
=============================================================================
