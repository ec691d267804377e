--------------------------- MODULE BitVectorProofs --------------------------
(***************************************************************************)
(* For every word size, block size and vector: build_rank() writes exact   *)
(* counts, rank1(x) is the number of ones before x and count_ones() counts *)
(* no bit past the length, provided the words of a block but its last fit  *)
(* in a relative count.                                                    *)
(***************************************************************************)
EXTENDS BitVector, FiniteSetTheorems, TLAPS

-----------------------------------------------------------------------------
(***************************************************************************)
(* Division.                                                               *)
(***************************************************************************)

\* Division with remainder.
LEMMA DivMod ==
    ASSUME NEW x \in Nat, NEW d \in Nat \ {0}
    PROVE  /\ x \div d \in Nat
           /\ x % d \in 0..(d - 1)
           /\ x = (x \div d) * d + (x % d)
  OBVIOUS

\* The quotient is the only one with a remainder below d.
LEMMA DivUnique ==
    ASSUME NEW x \in Nat, NEW d \in Nat \ {0}, NEW q \in Nat,
           q * d <= x, x < q * d + d
    PROVE  x \div d = q
  OBVIOUS

\* Multiplication by a natural number is monotonic.
LEMMA MulMono ==
    ASSUME NEW x \in Nat, NEW y \in Nat, NEW d \in Nat, x <= y
    PROVE  /\ x * d \in Nat
           /\ y * d \in Nat
           /\ x * d <= y * d
  OBVIOUS

\* Zero times anything.
LEMMA ZeroTimes ==
    ASSUME NEW x \in Nat
    PROVE  0 * x = 0
  OBVIOUS

\* A number below the modulus is its own remainder.
LEMMA SmallMod ==
    ASSUME NEW m \in Nat, NEW x \in 0..(m - 1)
    PROVE  x % m = x
  OBVIOUS

\* The ceiling of x / d: it covers x, and one less does not.
LEMMA CeilDiv ==
    ASSUME NEW x \in Nat, NEW d \in Nat \ {0}
    PROVE  LET c == (x + (d - 1)) \div d IN
           /\ c \in Nat
           /\ x <= c * d
           /\ \A w \in Nat : w < c => w * d < x
<1> DEFINE c == (x + (d - 1)) \div d
<1>1. /\ x + (d - 1) \in Nat
      /\ c \in Nat
      /\ c * d <= x + (d - 1)
      /\ x + (d - 1) < c * d + d
  BY DivMod
<1> HIDE DEF c
<1>2. x <= c * d
  BY <1>1
<1>3. ASSUME NEW w \in Nat, w < c PROVE w * d < x
  <2>1. (w + 1) * d <= c * d
    BY <1>1, <1>3, MulMono
  <2>2. (w + 1) * d = w * d + d
    OBVIOUS
  <2> QED  BY <1>1, <2>1, <2>2
<1>4. c \in Nat /\ x <= c * d /\ \A w \in Nat : w < c => w * d < x
  BY <1>1, <1>2, <1>3
<1> QED  BY <1>4 DEF c

-----------------------------------------------------------------------------
(***************************************************************************)
(* The invariant.                                                          *)
(***************************************************************************)

\* Where word w starts, cut off at the end of the vector.
Lim(w) == IF w * WordBits < n_ THEN w * WordBits ELSE n_

\* Ones before word w, and those of block bb before its word jj.
Upto(w) == Ones(Lim(w))
InBlock(bb, jj) == Upto(bb * BlockWords + jj) - Upto(bb * BlockWords)

\* The blocks whose absolute count is written, and the complete ones.
Headed == IF pc \in {"words", "ready"} THEN 0..b ELSE 0..(b - 1)

DirectoryExact ==
    pc \in {"block", "words", "ready"} =>
      /\ \A bb \in Headed : total_[bb] = Upto(bb * BlockWords)
      /\ \A bb \in 0..(b - 1) : \A jj \in 1..(BlockWords - 1) : l2_[bb][jj] = InBlock(bb, jj)
      /\ pc = "words" => \A jj \in 1..(BlockWords - 1) : jj < j => l2_[b][jj] = InBlock(b, jj)

\* The running counts of build_rank.
RunningExact ==
    /\ pc \in {"block", "words", "ready"} => total = Upto(b * BlockWords)
    /\ pc = "words" => b < Nblocks /\ rel = InBlock(b, j)
    /\ pc = "ready" => b = Nblocks /\ ones_ = total

\* Outside build_rank its locals are those of a new object.
Unbuilt == pc \in {"new", "set"} => total = 0 /\ rel = 0 /\ b = 0 /\ j = 0

IInv == TypeOK /\ DirectoryExact /\ RunningExact /\ Unbuilt

-----------------------------------------------------------------------------
(***************************************************************************)
(* Counting.                                                               *)
(***************************************************************************)
Between(p, q) == Cardinality({y \in bits : y >= p /\ y < q})

\* The shape of a vector.
LEMMA Shape ==
    ASSUME TypeOK
    PROVE  /\ n_ \in Nat /\ nwords_ \in Nat /\ Nblocks \in Nat
           /\ WordBits \in Nat \ {0} /\ BlockWords \in Nat \ {0} /\ RelMod \in Nat
           /\ n_ <= nwords_ * WordBits
           /\ \A w \in Nat : w < nwords_ => w * WordBits < n_
           /\ nwords_ <= Nblocks * BlockWords
           /\ IsFiniteSet(bits) /\ bits \subseteq Nat
<1>1. /\ n_ \in Nat /\ nwords_ = (n_ + (WordBits - 1)) \div WordBits
      /\ WordBits \in Nat \ {0} /\ BlockWords \in Nat \ {0} /\ RelMod \in Nat
  BY WidthAssumption DEF TypeOK, WordsFor
<1>2. /\ nwords_ \in Nat /\ n_ <= nwords_ * WordBits
      /\ \A w \in Nat : w < nwords_ => w * WordBits < n_
  BY <1>1, CeilDiv
<1>3. Nblocks \in Nat /\ nwords_ <= Nblocks * BlockWords
  BY <1>1, <1>2, CeilDiv DEF Nblocks
<1>4. IsFiniteSet(bits) /\ bits \subseteq Nat
  <2>1. nwords_ * WordBits \in Nat
    BY <1>1, <1>2
  <2> DEFINE top == nwords_ * WordBits
  <2> HIDE DEF top
  <2>2. bits \subseteq 0..(top - 1) /\ top \in Nat
    BY <2>1 DEF TypeOK, top
  <2>3. IsFiniteSet(0..(top - 1))
    BY <2>2, FS_Interval
  <2>4. IsFiniteSet(bits)
    BY <2>2, <2>3, FS_Subset
  <2>5. bits \subseteq Nat
    BY <2>2
  <2> QED BY <2>4, <2>5
<1> QED BY <1>1, <1>2, <1>3, <1>4

\* Ones is a count, and splits at every position.
LEMMA OnesFacts ==
    ASSUME TypeOK, NEW p \in Nat, NEW q \in Nat, p <= q
    PROVE  /\ Ones(p) \in Nat /\ Ones(q) \in Nat
           /\ Ones(q) = Ones(p) + Between(p, q)
           /\ Between(p, q) \in 0..(q - p)
<1> DEFINE A == {y \in bits : y < p}
           B == {y \in bits : y >= p /\ y < q}
           U == {y \in bits : y < q}
<1>1. IsFiniteSet(bits) /\ bits \subseteq Nat
  BY Shape
<1>2. A \subseteq bits /\ B \subseteq bits /\ U \subseteq bits
  OBVIOUS
<1>3. U = A \cup B /\ A \cap B = {}
  <2>1. \A y \in bits : (y < q <=> (y < p \/ (y >= p /\ y < q))) /\ ~(y < p /\ y >= p)
    BY <1>1
  <2> QED BY <2>1
<1>4. B \subseteq p..(q - 1)
  <2>1. \A y \in bits : y >= p /\ y < q => y \in p..(q - 1)
    BY <1>1
  <2> QED BY <2>1
<1> HIDE DEF A, B, U
<1>5. /\ IsFiniteSet(A) /\ IsFiniteSet(B) /\ IsFiniteSet(U)
      /\ Cardinality(A) \in Nat /\ Cardinality(B) \in Nat /\ Cardinality(U) \in Nat
  BY <1>1, <1>2, FS_Subset, FS_CardinalityType
<1>6. Cardinality(U) = Cardinality(A) + Cardinality(B)
  <2>1. Cardinality(A \cup B) = Cardinality(A) + Cardinality(B) - Cardinality(A \cap B)
    BY <1>5, FS_Union
  <2> QED BY <1>3, <1>5, <2>1, FS_EmptySet
<1>7. Cardinality(B) <= q - p
  <2>1. /\ IsFiniteSet(p..(q - 1))
        /\ Cardinality(p..(q - 1)) = IF p > q - 1 THEN 0 ELSE (q - 1) - p + 1
    BY FS_Interval
  <2>2. Cardinality(B) <= Cardinality(p..(q - 1))
    BY <1>4, <2>1, FS_Subset
  <2> QED BY <2>1, <2>2, <1>5
<1>8. Cardinality(B) \in 0..(q - p)
  BY <1>5, <1>7
<1> QED BY <1>5, <1>6, <1>8 DEF Ones, Between, A, B, U

\* Lim, word by word.
LEMMA LimFacts ==
    ASSUME TypeOK, NEW w \in Nat
    PROVE  /\ Lim(w) \in Nat /\ Lim(w) <= n_ /\ Lim(w) <= w * WordBits
           /\ w >= nwords_ => Lim(w) = n_
           /\ w < nwords_ => /\ Lim(w) = w * WordBits
                             /\ ValidBits(w) \in 1..WordBits
                             /\ Lim(w + 1) = w * WordBits + ValidBits(w)
<1>1. /\ n_ \in Nat /\ nwords_ \in Nat /\ WordBits \in Nat \ {0} /\ w * WordBits \in Nat
      /\ (w + 1) * WordBits = w * WordBits + WordBits
      /\ n_ <= nwords_ * WordBits
      /\ w < nwords_ => w * WordBits < n_
      /\ w + 1 < nwords_ => (w + 1) * WordBits < n_
  BY Shape
<1>2. w >= nwords_ => nwords_ * WordBits <= w * WordBits
  BY <1>1, MulMono
<1>3. Lim(w) \in Nat /\ Lim(w) <= n_ /\ Lim(w) <= w * WordBits
      /\ (w >= nwords_ => Lim(w) = n_)
      /\ (w < nwords_ => Lim(w) = w * WordBits)
  BY <1>1, <1>2 DEF Lim
<1>4. ASSUME w < nwords_
      PROVE  ValidBits(w) \in 1..WordBits /\ Lim(w + 1) = w * WordBits + ValidBits(w)
  <2> DEFINE q == n_ \div WordBits
             m == n_ % WordBits
             p == w * WordBits
  <2>1. q \in Nat /\ m \in 0..(WordBits - 1) /\ n_ = q * WordBits + m
    BY <1>1, DivMod
  <2>2. CASE w + 1 < nwords_
    <3>1. ValidBits(w) = WordBits /\ Lim(w + 1) = (w + 1) * WordBits
      BY <2>2, <1>1 DEF ValidBits, Lim
    <3> QED BY <3>1, <1>1
  <2>3. CASE w + 1 = nwords_
    <3>1. p < n_ /\ n_ <= p + WordBits /\ p \in Nat
      BY <2>3, <1>1
    <3>2. Lim(w + 1) = n_
      <4>1. (w + 1) * WordBits >= n_ /\ (w + 1) * WordBits \in Nat
        BY <2>3, <1>1
      <4> QED BY <4>1, <1>1 DEF Lim
    <3>3. CASE n_ = p + WordBits
      <4>1. n_ = (w + 1) * WordBits + 0
        BY <3>3, <1>1
      <4>2. m = 0
        <5>1. n_ \div WordBits = w + 1
          <6>1. (w + 1) * WordBits <= n_ /\ n_ < (w + 1) * WordBits + WordBits
            BY <3>3, <1>1
          <6> QED BY <6>1, <1>1, DivUnique
        <5>2. n_ = (w + 1) * WordBits + m
          BY <5>1, <2>1
        <5> HIDE DEF m
        <5>3. n_ = n_ + m /\ m \in Nat
          BY <5>2, <4>1, <2>1, <1>1
        <5> QED BY <5>3, <1>1
      <4>3. ValidBits(w) = WordBits
        BY <4>2 DEF ValidBits
      <4> QED BY <4>3, <3>2, <3>3, <1>1
    <3>4. CASE n_ < p + WordBits
      <4>1. q = w
        BY <3>1, <3>4, <1>1, DivUnique
      <4>2. n_ = p + m
        BY <4>1, <2>1
      <4>3. m # 0 /\ m \in 1..WordBits
        <5> HIDE DEF p, m
        <5> QED BY <4>2, <3>1, <2>1, <1>1
      <4>4. ValidBits(w) = m
        BY <4>3, <2>3 DEF ValidBits
      <4> QED BY <4>2, <4>3, <4>4, <3>2
    <3> QED BY <3>1, <3>3, <3>4, <1>1
  <2> QED BY <2>2, <2>3, <1>4, <1>1
<1> QED BY <1>3, <1>4

\* Lim grows by at most the bits of the words in between.
LEMMA LimMono ==
    ASSUME TypeOK, NEW w \in Nat, NEW x \in Nat, w <= x
    PROVE  /\ Lim(w) <= Lim(x)
           /\ Lim(x) - Lim(w) <= (x - w) * WordBits
<1>1. /\ n_ \in Nat /\ WordBits \in Nat /\ w * WordBits \in Nat /\ x * WordBits \in Nat
      /\ w * WordBits <= x * WordBits /\ (x - w) * WordBits = x * WordBits - w * WordBits
  BY Shape, MulMono
<1> QED  BY <1>1 DEF Lim

\* The ones of a block before its word jj: at most all the bits there, so that
\* they fit in their field; the word adds its valid bits.
LEMMA BlockFacts ==
    ASSUME TypeOK, NEW bb \in Nat, NEW jj \in 0..BlockWords
    PROVE  LET w == bb * BlockWords + jj IN
           /\ w \in Nat
           /\ Upto(bb * BlockWords) \in Nat /\ Upto(w) \in Nat
           /\ InBlock(bb, jj) \in Nat /\ InBlock(bb, jj) <= jj * WordBits
           /\ InBlock(bb, jj) <= BlockWords * WordBits
           /\ jj < BlockWords => InBlock(bb, jj) < RelMod
<1> DEFINE v == bb * BlockWords
           w == bb * BlockWords + jj
<1>1. /\ WordBits \in Nat \ {0} /\ BlockWords \in Nat \ {0} /\ RelMod \in Nat
      /\ v \in Nat /\ w \in Nat /\ v <= w /\ w - v = jj
  BY Shape
<1>2. /\ Lim(v) \in Nat /\ Lim(w) \in Nat /\ Lim(v) <= Lim(w)
      /\ Lim(w) - Lim(v) <= jj * WordBits
  <2> HIDE DEF v, w
  <2>1. Lim(w) - Lim(v) <= (w - v) * WordBits /\ Lim(v) <= Lim(w)
    BY <1>1, LimMono
  <2> QED BY <1>1, <2>1, LimFacts
<1> HIDE DEF v, w
<1>3. /\ Ones(Lim(v)) \in Nat /\ Ones(Lim(w)) \in Nat
      /\ Ones(Lim(w)) - Ones(Lim(v)) \in 0..(Lim(w) - Lim(v))
  <2>1. /\ Ones(Lim(v)) \in Nat /\ Ones(Lim(w)) \in Nat
        /\ Ones(Lim(w)) = Ones(Lim(v)) + Between(Lim(v), Lim(w))
        /\ Between(Lim(v), Lim(w)) \in 0..(Lim(w) - Lim(v))
    BY <1>2, OnesFacts
  <2> QED BY <2>1, <1>2
<1>4. jj * WordBits \in Nat /\ jj * WordBits <= BlockWords * WordBits
      /\ BlockWords * WordBits \in Nat
  BY <1>1, MulMono
<1>5. jj < BlockWords => jj * WordBits < RelMod
  <2> SUFFICES ASSUME jj < BlockWords PROVE jj * WordBits < RelMod
    OBVIOUS
  <2>1. jj * WordBits <= (BlockWords - 1) * WordBits /\ (BlockWords - 1) * WordBits \in Nat
    BY <1>1, MulMono
  <2>2. (BlockWords - 1) * WordBits < RelMod
    BY WidthAssumption
  <2> QED BY <2>1, <2>2, <1>1, <1>4
<1> DEFINE d == Ones(Lim(w)) - Ones(Lim(v))
           x == jj * WordBits
           y == BlockWords * WordBits
<1>6. d \in Nat /\ d <= x /\ x \in Nat /\ y \in Nat /\ x <= y /\ (jj < BlockWords => x < RelMod)
  BY <1>2, <1>3, <1>4, <1>5
<1>7. d \in Nat /\ d <= x /\ d <= y /\ (jj < BlockWords => d < RelMod)
  <2> HIDE DEF d, x, y
  <2> QED BY <1>6, <1>1
<1> QED BY <1>1, <1>3, <1>7 DEF InBlock, Upto, v, w, d

\* Ones before position 0, and in the word that follows.
LEMMA NoneBefore == TypeOK => Ones(0) = 0
<1> SUFFICES ASSUME TypeOK PROVE Ones(0) = 0
  OBVIOUS
<1>1. \A y \in bits : ~(y < 0)
  BY Shape
<1>2. {y \in bits : y < 0} = {}
  BY <1>1
<1> QED BY <1>2, FS_EmptySet DEF Ones

\* A word adds the ones among its valid bits to the running total; past the last
\* word nothing is added.
LEMMA WordAdds ==
    ASSUME TypeOK, NEW w \in Nat
    PROVE  /\ w < nwords_ => Upto(w + 1) = Upto(w) + PopCount(w, ValidBits(w))
           /\ w >= nwords_ => Upto(w + 1) = Upto(w)
           /\ w < nwords_ => PopCount(w, ValidBits(w)) \in Nat
<1>1. nwords_ \in Nat /\ n_ \in Nat /\ WordBits \in Nat \ {0}
  BY Shape
<1>2. CASE w < nwords_
  <2> DEFINE p == w * WordBits
             q == w * WordBits + ValidBits(w)
  <2>1. Lim(w) = p /\ ValidBits(w) \in 1..WordBits /\ Lim(w + 1) = q
    BY <1>2, LimFacts
  <2>2. p \in Nat
    BY <1>1
  <2>3. q \in Nat /\ p <= q
    BY <2>1, <2>2, <1>1
  <2>4. Ones(q) = Ones(p) + Between(p, q) /\ Between(p, q) \in 0..(q - p)
    BY <2>2, <2>3, OnesFacts
  <2>5. PopCount(w, ValidBits(w)) = Between(p, q)
    BY DEF PopCount, Between
  <2>6. Between(p, q) \in Nat
    BY <2>4, <2>3, <2>2
  <2> HIDE DEF p, q
  <2> QED BY <1>2, <1>1, <2>1, <2>4, <2>5, <2>6 DEF Upto
<1>3. CASE w >= nwords_
  <2>1. Lim(w) = n_ /\ Lim(w + 1) = n_
    BY <1>3, <1>1, LimFacts
  <2> QED BY <1>3, <1>1, <2>1 DEF Upto
<1> QED BY <1>1, <1>2, <1>3

\* Steps that leave the vector alone leave every derived quantity alone.
LEMMA ContentFrame ==
    ASSUME UNCHANGED content
    PROVE  /\ Nblocks' = Nblocks
           /\ \A x : Ones(x)' = Ones(x)
           /\ \A w : Upto(w)' = Upto(w)
           /\ \A bb, jj : InBlock(bb, jj)' = InBlock(bb, jj)
<1>1. n_' = n_ /\ bits' = bits /\ nwords_' = nwords_
  BY DEF content
<1>2. Nblocks' = Nblocks
  BY <1>1 DEF Nblocks
<1>3. \A x : Ones(x)' = Ones(x)
  BY <1>1 DEF Ones
<1>4. \A w : Lim(w)' = Lim(w)
  BY <1>1 DEF Lim
<1>5. \A w : Upto(w)' = Upto(w)
  BY <1>1, <1>4 DEF Upto, Ones
<1>6. \A bb, jj : InBlock(bb, jj)' = InBlock(bb, jj)
  BY <1>5 DEF InBlock
<1> QED BY <1>2, <1>3, <1>5, <1>6

-----------------------------------------------------------------------------
(***************************************************************************)
(* The invariant is inductive.                                             *)
(***************************************************************************)

\* The members before a directory exists.
Fresh ==
    /\ n_ \in 0..MaxLength /\ nwords_ = WordsFor(n_)
    /\ bits \subseteq 0..(nwords_ * WordBits - 1)
    /\ ones_ \in Nat /\ total = 0 /\ rel = 0 /\ b = 0 /\ j = 0

\* A bit vector that is fresh, before or after its constructor, satisfies the
\* invariant.
LEMMA FreshTypes == Fresh /\ pc \in {"new", "set"} => IInv
<1> SUFFICES ASSUME Fresh, pc \in {"new", "set"} PROVE IInv
  OBVIOUS
<1>1. Nblocks \in Nat /\ nwords_ \in Nat
  <2>1. nwords_ \in Nat
    BY WidthAssumption, CeilDiv DEF Fresh, WordsFor
  <2> QED BY <2>1, WidthAssumption, CeilDiv DEF Nblocks
<1>2. BlockWords \in Nat /\ BlockWords * WordBits \in Nat
  BY WidthAssumption
<1>3. TypeOK
  BY <1>1, <1>2 DEF Fresh, TypeOK
<1> QED BY <1>3 DEF IInv, DirectoryExact, RunningExact, Unbuilt, Fresh

\* The invariant holds of the object that Init describes.
LEMMA InitIInv == Init => IInv
<1> SUFFICES ASSUME Init PROVE IInv
  OBVIOUS
<1>1. WordsFor(0) = 0
  BY WidthAssumption, DivUnique DEF WordsFor
<1>2. Fresh
  BY <1>1, WidthAssumption DEF Init, Fresh
<1> QED BY <1>2, FreshTypes DEF Init

\* Directory: the first block starts with nothing counted.
LEMMA DirectoryStep ==
    ASSUME IInv, n_' \in 0..MaxLength, (nwords_ = WordsFor(n_))',
           (bits \subseteq 0..(nwords_ * WordBits - 1))', ones_' = ones_, Directory
    PROVE  IInv'
<1>1. Nblocks' \in Nat /\ nwords_' \in Nat
  <2>1. n_' \in Nat /\ nwords_' = (n_' + (WordBits - 1)) \div WordBits
    BY WidthAssumption DEF WordsFor
  <2>2. nwords_' \in Nat
    BY <2>1, WidthAssumption, CeilDiv
  <2> QED BY <2>2, WidthAssumption, CeilDiv DEF Nblocks
<1>2. BlockWords \in Nat /\ BlockWords * WordBits \in Nat /\ RelMod \in Nat /\ RelMod >= 1
  <2>1. (BlockWords - 1) * WordBits \in Nat
    BY WidthAssumption
  <2>2. (BlockWords - 1) * WordBits < RelMod
    BY WidthAssumption
  <2> DEFINE x == (BlockWords - 1) * WordBits
  <2> HIDE DEF x
  <2>3. x \in Nat /\ x < RelMod
    BY <2>1, <2>2 DEF x
  <2>4. RelMod >= 1
    BY <2>3, WidthAssumption
  <2> QED BY <2>4, WidthAssumption
<1>3. total' = 0 /\ rel' = 0 /\ b' = 0 /\ j' = 0 /\ pc' = "block"
  BY DEF Directory
<1>4. /\ total_' \in [0..Nblocks' -> Nat]
      /\ l2_' \in [0..Nblocks' -> [1..(BlockWords - 1) -> 0..(RelMod - 1)]]
  <2>1. 0 \in 0..(RelMod - 1)
    BY <1>2
  <2> QED BY <2>1 DEF Directory
<1>5. TypeOK'
  <2>1. ones_' \in Nat /\ total' \in Nat /\ rel' \in 0..(BlockWords * WordBits)
    <3>1. ones_ \in Nat
      BY DEF IInv, TypeOK
    <3> HIDE DEF Directory
    <3> QED BY <1>2, <1>3, <3>1
  <2>2. b' \in 0..Nblocks' /\ j' \in 0..BlockWords
    BY <1>1, <1>2, <1>3
  <2>3. pc' \in {"new", "set", "block", "words", "ready"}
    BY <1>3
  <2> QED BY <1>4, <2>1, <2>2, <2>3 DEF TypeOK
<1>6. Upto(0 * BlockWords)' = 0
  <2>1. 0 * BlockWords = 0 /\ 0 * WordBits = 0
    BY WidthAssumption, ZeroTimes
  <2>2. n_' \in Nat
    BY WidthAssumption
  <2>3. Lim(0)' = 0
    BY <2>1, <2>2 DEF Lim
  <2>4. Ones(0)' = 0
    <3>1. \A y \in bits' : ~(y < 0)
      <4>1. nwords_' * WordBits \in Nat
        BY <1>1, WidthAssumption
      <4> DEFINE top == nwords_' * WordBits
      <4> HIDE DEF top
      <4>2. bits' \subseteq 0..(top - 1) /\ top \in Nat
        BY <4>1 DEF top
      <4> QED BY <4>2
    <3>2. {y \in bits' : y < 0} = {}
      BY <3>1
    <3> QED BY <3>2, FS_EmptySet DEF Ones
  <2> QED BY <2>1, <2>3, <2>4 DEF Upto
<1>7. DirectoryExact' /\ RunningExact' /\ Unbuilt'
  BY <1>3, <1>6 DEF DirectoryExact, Headed, RunningExact, Unbuilt
<1> QED BY <1>5, <1>7 DEF IInv


\* The constructors, set() and the end of the object.
LEMMA MemberStep ==
    ASSUME IInv,
           \/ \E n \in 0..MaxLength : New(n)
           \/ \E x \in 0..(n_ - 1) : Set(x)
           \/ Drop
    PROVE  IInv'
<1>0. WordsFor(0) = 0
  BY WidthAssumption, DivUnique DEF WordsFor
<1>1. CASE \E n \in 0..MaxLength : New(n)
  <2>1. Fresh' /\ pc' = "set"
    BY <1>1 DEF New, IInv, Unbuilt, TypeOK, Fresh, WordsFor
  <2> QED
    <3>1. (Fresh /\ pc \in {"new", "set"})'
      BY <2>1
    <3> QED BY <3>1, FreshTypes, PTL
<1>2. CASE \E x \in 0..(n_ - 1) : Set(x)
  <2>1. PICK x \in 0..(n_ - 1) : Set(x)
    BY <1>2
  <2>2. x \in 0..(nwords_ * WordBits - 1)
    <3>1. n_ \in Nat /\ n_ <= nwords_ * WordBits /\ nwords_ * WordBits \in Nat
      BY Shape DEF IInv
    <3> DEFINE top == nwords_ * WordBits
    <3> HIDE DEF top
    <3>2. n_ \in Nat /\ n_ <= top /\ top \in Nat
      BY <3>1 DEF top
    <3>3. x \in 0..(top - 1)
      BY <3>2
    <3> QED BY <3>3 DEF top
  <2>3. Fresh' /\ pc' = "set"
    BY <2>1, <2>2 DEF Set, IInv, Unbuilt, TypeOK, Fresh, WordsFor
  <2> QED
    <3>1. (Fresh /\ pc \in {"new", "set"})'
      BY <2>3
    <3> QED BY <3>1, FreshTypes, PTL
<1>3. CASE Drop
  <2>1. Fresh' /\ pc' = "new"
    BY <1>0, <1>3, WidthAssumption DEF Drop, Fresh, WordsFor
  <2> QED
    <3>1. (Fresh /\ pc \in {"new", "set"})'
      BY <2>1
    <3> QED BY <3>1, FreshTypes, PTL
<1> QED BY <1>1, <1>2, <1>3

\* build_rank starts, on the words that were set or on those of a buffer.
LEMMA StartStep ==
    ASSUME IInv,
           \/ BuildRank
           \/ \E n \in 0..MaxLength : \E set \in SUBSET (0..(WordsFor(n) * WordBits - 1)) :
                 FromView(n, set)
    PROVE  IInv'
<1>1. CASE BuildRank
  <2>1. /\ n_' \in 0..MaxLength /\ (nwords_ = WordsFor(n_))'
        /\ (bits \subseteq 0..(nwords_ * WordBits - 1))' /\ ones_' = ones_ /\ Directory
    BY <1>1 DEF BuildRank, content, IInv, TypeOK, WordsFor
  <2> QED BY <2>1, DirectoryStep
<1>2. ASSUME NEW n \in 0..MaxLength, NEW set \in SUBSET (0..(WordsFor(n) * WordBits - 1)),
             FromView(n, set)
      PROVE  IInv'
  <2>1. /\ n_' \in 0..MaxLength /\ (nwords_ = WordsFor(n_))'
        /\ (bits \subseteq 0..(nwords_ * WordBits - 1))' /\ ones_' = ones_ /\ Directory
    BY <1>2 DEF FromView, WordsFor
  <2> QED BY <2>1, DirectoryStep
<1> QED BY <1>1, <1>2

\* The head of a block writes the absolute count.
LEMMA BlockStep ==
    ASSUME IInv, Block
    PROVE  IInv'
<1>1. /\ TypeOK /\ pc = "block" /\ b < Nblocks /\ UNCHANGED content
      /\ total_' = [total_ EXCEPT ![b] = total] /\ rel' = 0 /\ j' = 0 /\ pc' = "words"
      /\ l2_' = l2_ /\ ones_' = ones_ /\ total' = total /\ b' = b
  BY DEF IInv, Block, RelAtBlock
<1>2. /\ Nblocks' = Nblocks
      /\ \A w : Upto(w)' = Upto(w)
      /\ \A bb, jj : InBlock(bb, jj)' = InBlock(bb, jj)
  BY <1>1, ContentFrame
<1>3. Nblocks \in Nat /\ b \in Nat /\ b \in 0..Nblocks
      /\ BlockWords \in Nat \ {0} /\ BlockWords * WordBits \in Nat
  BY <1>1, Shape DEF TypeOK
<1>4. /\ total_' \in [0..Nblocks -> Nat] /\ total_'[b] = total
      /\ \A bb \in 0..(b - 1) : total_'[bb] = total_[bb]
  BY <1>1, <1>3 DEF TypeOK
<1>5. TypeOK'
  <2>1. UNCHANGED <<n_, nwords_, bits>> /\ (WordsFor(n_))' = WordsFor(n_)
    BY <1>1 DEF content, WordsFor
  <2>2. /\ n_' \in 0..MaxLength /\ (nwords_ = WordsFor(n_))'
        /\ (bits \subseteq 0..(nwords_ * WordBits - 1))'
    BY <1>1, <2>1 DEF TypeOK
  <2>3. ones_' \in Nat /\ total' \in Nat /\ b' \in 0..Nblocks'
    BY <1>1, <1>2, <1>3 DEF TypeOK
  <2>4. rel' \in 0..(BlockWords * WordBits) /\ j' \in 0..BlockWords
    BY <1>1, <1>3
  <2>5. pc' \in {"new", "set", "block", "words", "ready"}
    BY <1>1
  <2>6. /\ total_' \in [0..Nblocks' -> Nat]
        /\ l2_' \in [0..Nblocks' -> [1..(BlockWords - 1) -> 0..(RelMod - 1)]]
    BY <1>1, <1>2, <1>4 DEF TypeOK
  <2> QED BY <2>2, <2>3, <2>4, <2>5, <2>6 DEF TypeOK
<1>6. total = Upto(b * BlockWords)
  BY <1>1 DEF IInv, RunningExact
<1>7. InBlock(b, 0) = 0
  <2>1. b * BlockWords \in Nat /\ b * BlockWords + 0 = b * BlockWords
    BY <1>3
  <2>2. Upto(b * BlockWords) \in Nat
    BY <1>1, <1>6 DEF TypeOK
  <2> QED BY <2>1, <2>2 DEF InBlock
<1>8. RunningExact' /\ Unbuilt'
  BY <1>1, <1>2, <1>6, <1>7 DEF RunningExact, Unbuilt
<1>9. DirectoryExact'
  <2>1. \A bb \in 0..(b - 1) : total_[bb] = Upto(bb * BlockWords)
    BY <1>1 DEF IInv, DirectoryExact, Headed
  <2>2. \A bb \in 0..b : bb = b \/ bb \in 0..(b - 1)
    BY <1>3
  <2>3. \A bb \in 0..b : total_'[bb] = Upto(bb * BlockWords)
    BY <2>1, <2>2, <1>4, <1>6
  <2>4. \A bb \in 0..(b - 1) : \A jj \in 1..(BlockWords - 1) : l2_[bb][jj] = InBlock(bb, jj)
    BY <1>1 DEF IInv, DirectoryExact
  <2>5. \A jj \in 1..(BlockWords - 1) : ~(jj < 0)
    OBVIOUS
  <2> QED BY <1>1, <1>2, <2>3, <2>4, <2>5 DEF DirectoryExact, Headed
<1> QED BY <1>5, <1>8, <1>9 DEF IInv

\* A word stores the relative count before it, which its field holds whole,
\* and adds its own ones.
LEMMA WordStep ==
    ASSUME IInv, Word
    PROVE  IInv'
<1> DEFINE w == b * BlockWords + j
<1>1. /\ TypeOK /\ pc = "words" /\ j < BlockWords /\ UNCHANGED content
      /\ l2_' = IF j >= 1 THEN [l2_ EXCEPT ![b][j] = rel % RelMod] ELSE l2_
      /\ rel' = IF w < nwords_ THEN rel + PopCount(w, ValidBits(w)) ELSE rel
      /\ j' = j + 1 /\ total_' = total_ /\ ones_' = ones_ /\ total' = total /\ b' = b /\ pc' = pc
  BY DEF IInv, Word, StoresRel
<1>2. /\ Nblocks' = Nblocks
      /\ \A x : Upto(x)' = Upto(x)
      /\ \A bb, jj : InBlock(bb, jj)' = InBlock(bb, jj)
  BY <1>1, ContentFrame
<1>3. /\ Nblocks \in Nat /\ b \in Nat /\ b \in 0..Nblocks /\ b < Nblocks
      /\ BlockWords \in Nat \ {0} /\ RelMod \in Nat
      /\ j \in Nat /\ j \in 0..BlockWords /\ j + 1 \in 0..BlockWords
      /\ nwords_ \in Nat
  <2>1. /\ Nblocks \in Nat /\ nwords_ \in Nat /\ BlockWords \in Nat \ {0} /\ RelMod \in Nat
    BY <1>1, Shape
  <2>2. b \in 0..Nblocks /\ j \in 0..BlockWords /\ j < BlockWords
    BY <1>1 DEF TypeOK
  <2>3. b < Nblocks
    BY <1>1 DEF IInv, RunningExact
  <2> QED BY <2>1, <2>2, <2>3
<1>4. /\ rel = InBlock(b, j) /\ total = Upto(b * BlockWords)
  BY <1>1 DEF IInv, RunningExact
<1>5. /\ w \in Nat /\ Upto(b * BlockWords) \in Nat /\ Upto(w) \in Nat
      /\ rel \in Nat /\ rel < RelMod
  BY <1>1, <1>3, <1>4, BlockFacts
<1>6. /\ Upto(b * BlockWords + (j + 1)) \in Nat
      /\ InBlock(b, j + 1) \in Nat /\ InBlock(b, j + 1) <= BlockWords * WordBits
  BY <1>1, <1>3, BlockFacts
<1>7. b * BlockWords + (j + 1) = w + 1
  <2>1. b * BlockWords \in Nat
    BY <1>3
  <2> QED BY <1>3, <2>1
<1>8. rel' = InBlock(b, j + 1)
  <2> DEFINE base == Upto(b * BlockWords)
  <2>1. rel = Upto(w) - base
    BY <1>4 DEF InBlock
  <2>2. InBlock(b, j + 1) = Upto(w + 1) - base
    BY <1>7 DEF InBlock
  <2> HIDE DEF w, base
  <2>3. CASE w < nwords_
    <3>1. Upto(w + 1) = Upto(w) + PopCount(w, ValidBits(w)) /\ PopCount(w, ValidBits(w)) \in Nat
      BY <2>3, <1>1, <1>5, WordAdds
    <3>2. rel' = rel + PopCount(w, ValidBits(w))
      BY <2>3, <1>1 DEF w
    <3>3. base \in Nat /\ Upto(w) \in Nat
      BY <1>5 DEF base
    <3> QED BY <2>1, <2>2, <3>1, <3>2, <3>3
  <2>4. CASE ~(w < nwords_)
    <3>1. Upto(w + 1) = Upto(w)
      BY <2>4, <1>1, <1>3, <1>5, WordAdds
    <3>2. rel' = rel
      BY <2>4, <1>1 DEF w
    <3> QED BY <2>1, <2>2, <3>1, <3>2
  <2> QED BY <2>3, <2>4
<1> HIDE DEF w
<1>9. rel % RelMod = rel /\ rel \in 0..(RelMod - 1)
  <2>1. rel \in 0..(RelMod - 1)
    BY <1>3, <1>5
  <2> QED BY <2>1, <1>3, SmallMod
<1>10. /\ l2_ \in [0..Nblocks -> [1..(BlockWords - 1) -> 0..(RelMod - 1)]]
       /\ l2_' \in [0..Nblocks -> [1..(BlockWords - 1) -> 0..(RelMod - 1)]]
  <2>1. l2_ \in [0..Nblocks -> [1..(BlockWords - 1) -> 0..(RelMod - 1)]]
    BY <1>1 DEF TypeOK
  <2>2. CASE j >= 1
    <3>1. j \in 1..(BlockWords - 1)
      BY <2>2, <1>1, <1>3
    <3> QED BY <2>1, <2>2, <3>1, <1>1, <1>3, <1>9
  <2>3. CASE ~(j >= 1)
    BY <2>1, <2>3, <1>1
  <2> QED BY <2>2, <2>3
<1>11. TypeOK'
  <2>1. rel' \in 0..(BlockWords * WordBits)
    <3>1. BlockWords * WordBits \in Nat
      BY WidthAssumption
    <3> QED BY <1>6, <1>8, <3>1
  <2> QED BY <1>1, <1>2, <1>3, <1>10, <2>1 DEF TypeOK, content, WordsFor
<1>12. RunningExact' /\ Unbuilt'
  BY <1>1, <1>2, <1>3, <1>4, <1>8 DEF RunningExact, Unbuilt
<1>13. DirectoryExact'
  <2>1. \A bb \in 0..b : total_[bb] = Upto(bb * BlockWords)
    BY <1>1 DEF IInv, DirectoryExact, Headed
  <2>2. \A bb \in 0..(b - 1) : \A jj \in 1..(BlockWords - 1) : l2_'[bb][jj] = InBlock(bb, jj)
    <3> SUFFICES ASSUME NEW bb \in 0..(b - 1), NEW jj \in 1..(BlockWords - 1)
                 PROVE  l2_'[bb][jj] = InBlock(bb, jj)
      OBVIOUS
    <3>1. l2_[bb][jj] = InBlock(bb, jj)
      BY <1>1 DEF IInv, DirectoryExact
    <3>2. bb # b /\ bb \in 0..Nblocks
      BY <1>3
    <3>3. l2_'[bb] = l2_[bb]
      BY <3>2, <1>1, <1>10
    <3> QED BY <3>1, <3>3
  <2>3. \A jj \in 1..(BlockWords - 1) : jj < j + 1 => l2_'[b][jj] = InBlock(b, jj)
    <3> SUFFICES ASSUME NEW jj \in 1..(BlockWords - 1), jj < j + 1
                 PROVE  l2_'[b][jj] = InBlock(b, jj)
      OBVIOUS
    <3>1. CASE jj = j
      <4>1. j >= 1
        BY <3>1
      <4>2. l2_' = [l2_ EXCEPT ![b][j] = rel]
        BY <4>1, <1>1, <1>9
      <4>3. l2_'[b][j] = rel
        BY <4>2, <3>1, <1>3, <1>10
      <4> QED BY <4>3, <3>1, <1>4
    <3>2. CASE jj < j
      <4>1. l2_[b][jj] = InBlock(b, jj)
        BY <3>2, <1>1 DEF IInv, DirectoryExact
      <4>2. j >= 1 /\ jj # j
        BY <3>2, <1>3
      <4>3. l2_'[b][jj] = l2_[b][jj]
        BY <4>2, <1>1, <1>3, <1>10
      <4> QED BY <4>1, <4>3
    <3> QED BY <3>1, <3>2, <1>3
  <2> QED BY <1>1, <1>2, <2>1, <2>2, <2>3 DEF DirectoryExact, Headed
<1> QED BY <1>11, <1>12, <1>13 DEF IInv

\* The end of a block.
LEMMA BlockEndStep ==
    ASSUME IInv, BlockEnd
    PROVE  IInv'
<1>1. /\ TypeOK /\ pc = "words" /\ j = BlockWords /\ UNCHANGED content
      /\ total' = total + rel /\ b' = b + 1 /\ pc' = "block"
      /\ total_' = total_ /\ l2_' = l2_ /\ ones_' = ones_ /\ rel' = rel /\ j' = j
  BY DEF IInv, BlockEnd
<1>2. /\ Nblocks' = Nblocks
      /\ \A x : Upto(x)' = Upto(x)
      /\ \A bb, jj : InBlock(bb, jj)' = InBlock(bb, jj)
  BY <1>1, ContentFrame
<1>3. /\ Nblocks \in Nat /\ b \in Nat /\ b < Nblocks
      /\ BlockWords \in Nat \ {0} /\ BlockWords \in 0..BlockWords
  BY <1>1, Shape DEF TypeOK, IInv, RunningExact
<1>4. rel = InBlock(b, BlockWords) /\ total = Upto(b * BlockWords)
  BY <1>1 DEF IInv, RunningExact
<1>5. /\ Upto(b * BlockWords) \in Nat /\ Upto(b * BlockWords + BlockWords) \in Nat
  BY <1>1, <1>3, BlockFacts
<1>6. (b + 1) * BlockWords = b * BlockWords + BlockWords
  BY <1>3
<1>7. total' = Upto((b + 1) * BlockWords)
  <2>1. total + rel = Upto(b * BlockWords + BlockWords)
    BY <1>4, <1>5 DEF InBlock
  <2> QED BY <2>1, <1>1, <1>6
<1>8. TypeOK'
  BY <1>1, <1>2, <1>3 DEF TypeOK, content, WordsFor
<1>9. RunningExact' /\ Unbuilt'
  BY <1>1, <1>2, <1>7 DEF RunningExact, Unbuilt
<1>10. DirectoryExact'
  <2>1. \A bb \in 0..b : total_[bb] = Upto(bb * BlockWords)
    BY <1>1 DEF IInv, DirectoryExact, Headed
  <2>2. \A jj \in 1..(BlockWords - 1) : jj < BlockWords
    BY <1>3
  <2>3. \A jj \in 1..(BlockWords - 1) : l2_[b][jj] = InBlock(b, jj)
    BY <2>2, <1>1 DEF IInv, DirectoryExact
  <2>4. \A bb \in 0..(b - 1) : \A jj \in 1..(BlockWords - 1) : l2_[bb][jj] = InBlock(bb, jj)
    BY <1>1 DEF IInv, DirectoryExact
  <2>5. (b + 1) - 1 = b /\ \A bb \in 0..b : bb = b \/ bb \in 0..(b - 1)
    BY <1>3
  <2> QED BY <1>1, <1>2, <2>1, <2>3, <2>4, <2>5 DEF DirectoryExact, Headed
<1> QED BY <1>8, <1>9, <1>10 DEF IInv

\* The entry after the last block.
LEMMA BuildEndStep ==
    ASSUME IInv, BuildEnd
    PROVE  IInv'
<1>1. /\ TypeOK /\ pc = "block" /\ b = Nblocks /\ UNCHANGED content
      /\ total_' = [total_ EXCEPT ![b] = total] /\ ones_' = total /\ pc' = "ready"
      /\ l2_' = l2_ /\ total' = total /\ rel' = rel /\ b' = b /\ j' = j
  BY DEF IInv, BuildEnd
<1>2. /\ Nblocks' = Nblocks
      /\ \A x : Upto(x)' = Upto(x)
      /\ \A bb, jj : InBlock(bb, jj)' = InBlock(bb, jj)
  BY <1>1, ContentFrame
<1>3. Nblocks \in Nat /\ b \in Nat /\ b \in 0..Nblocks
  BY <1>1, Shape DEF TypeOK
<1>4. /\ total_' \in [0..Nblocks -> Nat] /\ total_'[b] = total
      /\ \A bb \in 0..(b - 1) : total_'[bb] = total_[bb]
  BY <1>1, <1>3 DEF TypeOK
<1>5. TypeOK'
  BY <1>1, <1>2, <1>3, <1>4 DEF TypeOK, content, WordsFor
<1>6. total = Upto(b * BlockWords)
  BY <1>1 DEF IInv, RunningExact
<1>7. RunningExact' /\ Unbuilt'
  BY <1>1, <1>2, <1>6 DEF RunningExact, Unbuilt
<1>8. DirectoryExact'
  <2>1. \A bb \in 0..(b - 1) : total_[bb] = Upto(bb * BlockWords)
    BY <1>1 DEF IInv, DirectoryExact, Headed
  <2>2. \A bb \in 0..b : bb = b \/ bb \in 0..(b - 1)
    BY <1>3
  <2>3. \A bb \in 0..b : total_'[bb] = Upto(bb * BlockWords)
    BY <2>1, <2>2, <1>4, <1>6
  <2>4. \A bb \in 0..(b - 1) : \A jj \in 1..(BlockWords - 1) : l2_[bb][jj] = InBlock(bb, jj)
    BY <1>1 DEF IInv, DirectoryExact
  <2> QED BY <1>1, <1>2, <2>3, <2>4 DEF DirectoryExact, Headed
<1> QED BY <1>5, <1>7, <1>8 DEF IInv

\* A step that changes nothing keeps the invariant.
LEMMA StutterStep == IInv /\ UNCHANGED vars => IInv'
BY DEF vars, IInv, TypeOK, WordsFor, Nblocks, DirectoryExact, RunningExact, Unbuilt, Headed,
       Upto, InBlock, Lim, Ones

\* The invariant holds in every reachable state.
LEMMA Inductive == Spec => []IInv
<1>1. IInv /\ [Next]_vars => IInv'
  BY MemberStep, StartStep, BlockStep, WordStep, BlockEndStep, BuildEndStep, StutterStep DEF Next
<1> QED
  BY <1>1, InitIInv, PTL DEF Spec

-----------------------------------------------------------------------------
(***************************************************************************)
(* What it shows.                                                          *)
(***************************************************************************)

\* Types of the members and of the locals of build_rank: the relative counts
\* fit in their fields.
THEOREM TypeCorrect == Spec => []TypeOK
<1>1. IInv => TypeOK
  BY DEF IInv
<1> QED
  BY <1>1, Inductive, PTL

\* count_ones() is the number of ones before the length, whatever bits a buffer
\* holds past it.
THEOREM OnesCorrect == Spec => []OnesExact
<1>1. IInv => OnesExact
  <2> SUFFICES ASSUME IInv, pc = "ready" PROVE ones_ = Ones(n_)
    BY DEF OnesExact
  <2>1. ones_ = Upto(Nblocks * BlockWords)
    BY DEF IInv, RunningExact
  <2>2. /\ Nblocks * BlockWords \in Nat /\ Nblocks * BlockWords >= nwords_
    BY Shape DEF IInv
  <2>3. Lim(Nblocks * BlockWords) = n_
    BY <2>2, LimFacts DEF IInv
  <2> QED BY <2>1, <2>3 DEF Upto
<1> QED
  BY <1>1, Inductive, PTL

\* rank1(x) is the number of ones before x, for every x up to and including the
\* length: past the last word it reads the entry after the last block and no
\* relative count.
THEOREM Rank1Correct == Spec => []Rank1Exact
<1>1. IInv => Rank1Exact
  <2> SUFFICES ASSUME IInv, pc = "ready", NEW x \in 0..n_
               PROVE  Rank1(x) = Ones(x)
    BY DEF Rank1Exact
  <2> DEFINE wi == x \div WordBits
             off == x % WordBits
             blk == wi \div BlockWords
             jj == wi % BlockWords
  <2>1. /\ TypeOK /\ n_ \in Nat /\ nwords_ \in Nat /\ Nblocks \in Nat /\ b = Nblocks
        /\ WordBits \in Nat \ {0} /\ BlockWords \in Nat \ {0}
        /\ n_ <= nwords_ * WordBits /\ nwords_ <= Nblocks * BlockWords
    BY Shape DEF IInv, RunningExact
  <2>2. x \in Nat /\ x <= n_
    BY <2>1
  <2>3. wi \in Nat /\ off \in 0..(WordBits - 1) /\ x = wi * WordBits + off
    BY <2>1, <2>2, DivMod
  <2> HIDE DEF wi, off
  <2>4. blk \in Nat /\ jj \in 0..(BlockWords - 1) /\ wi = blk * BlockWords + jj
    BY <2>1, <2>3, DivMod
  <2> HIDE DEF blk, jj
  <2>5. wi * WordBits \in Nat /\ wi * WordBits <= x
    BY <2>1, <2>3
  <2>6. wi <= nwords_
    <3> SUFFICES ASSUME nwords_ + 1 <= wi PROVE FALSE
      BY <2>1, <2>3
    <3>1. (nwords_ + 1) * WordBits <= wi * WordBits
      BY <2>1, <2>3, MulMono
    <3>2. (nwords_ + 1) * WordBits = nwords_ * WordBits + WordBits /\ nwords_ * WordBits \in Nat
      BY <2>1
    <3> QED BY <3>1, <3>2, <2>1, <2>2, <2>5
  <2>7. Lim(wi) = wi * WordBits
    BY <2>1, <2>2, <2>5 DEF Lim
  <2>8. blk * BlockWords \in Nat /\ blk * BlockWords <= Nblocks * BlockWords
        /\ Nblocks * BlockWords \in Nat
    <3>1. blk * BlockWords \in Nat /\ Nblocks * BlockWords \in Nat
      BY <2>1, <2>4
    <3> QED BY <3>1, <2>1, <2>3, <2>4, <2>6
  <2>9. blk <= Nblocks
    <3> SUFFICES ASSUME Nblocks + 1 <= blk PROVE FALSE
      BY <2>1, <2>4
    <3>1. (Nblocks + 1) * BlockWords <= blk * BlockWords
      BY <2>1, <2>4, MulMono
    <3>2. (Nblocks + 1) * BlockWords = Nblocks * BlockWords + BlockWords
      BY <2>1
    <3> QED BY <3>1, <3>2, <2>1, <2>8
  <2>10. total_[blk] = Upto(blk * BlockWords)
    <3>1. blk \in 0..b
      BY <2>1, <2>4, <2>9
    <3> QED BY <3>1 DEF IInv, DirectoryExact, Headed
  <2>11. total_[blk] + (IF jj # 0 THEN l2_[blk][jj] ELSE 0) = Upto(wi)
    <3>0. Upto(blk * BlockWords) \in Nat /\ Upto(wi) \in Nat
      <4>1. jj \in 0..BlockWords
        BY <2>1, <2>4
      <4> QED BY <2>1, <2>4, <4>1, BlockFacts
    <3>1. CASE jj = 0
      <4>1. wi = blk * BlockWords
        BY <3>1, <2>4, <2>8
      <4> QED BY <3>0, <3>1, <4>1, <2>10
    <3>2. CASE jj # 0
      <4>1. blk # Nblocks
        <5> SUFFICES ASSUME blk = Nblocks PROVE FALSE
          OBVIOUS
        <5>1. wi > Nblocks * BlockWords
          BY <3>2, <2>4, <2>8
        <5> QED BY <5>1, <2>1, <2>3, <2>6, <2>8
      <4>2. blk \in 0..(b - 1) /\ jj \in 1..(BlockWords - 1)
        BY <4>1, <3>2, <2>1, <2>4, <2>9
      <4>3. l2_[blk][jj] = Upto(wi) - Upto(blk * BlockWords)
        BY <4>2, <2>4 DEF IInv, DirectoryExact, InBlock
      <4> QED BY <4>3, <3>0, <3>2, <2>10
    <3> QED BY <3>1, <3>2
  <2>12. Ones(x) = Upto(wi) + Between(wi * WordBits, x)
         /\ Upto(wi) \in Nat /\ Between(wi * WordBits, x) \in Nat
    <3>1. /\ Ones(wi * WordBits) \in Nat
          /\ Ones(x) = Ones(wi * WordBits) + Between(wi * WordBits, x)
          /\ Between(wi * WordBits, x) \in 0..(x - wi * WordBits)
      BY <2>1, <2>2, <2>5, OnesFacts
    <3> QED BY <3>1, <2>2, <2>5, <2>7 DEF Upto
  <2>13. (IF off # 0 THEN PopCount(wi, off) ELSE 0) = Between(wi * WordBits, x)
    <3>1. CASE off # 0
      BY <3>1, <2>3 DEF PopCount, Between
    <3>2. CASE off = 0
      <4>1. x = wi * WordBits
        BY <3>2, <2>3, <2>5
      <4>2. Between(x, x) \in 0..(x - x)
        BY <2>1, <2>2, OnesFacts
      <4>3. Between(x, x) = 0
        BY <4>2, <2>2
      <4> QED BY <3>2, <4>1, <4>3
    <3> QED BY <3>1, <3>2
  <2>14. Rank1(x) = (total_[blk] + (IF jj # 0 THEN l2_[blk][jj] ELSE 0))
                    + (IF off # 0 THEN PopCount(wi, off) ELSE 0)
    BY DEF Rank1, wi, off, blk, jj
  <2> QED BY <2>11, <2>12, <2>13, <2>14
<1> QED
  BY <1>1, Inductive, PTL
=============================================================================
