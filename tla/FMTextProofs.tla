---------------------------- MODULE FMTextProofs ----------------------------
(***************************************************************************)
(* The algebra of the FM-index, for every text: the suffixes of a text     *)
(* that ends with its sentinel are totally ordered, the suffix array sorts *)
(* them, LF takes a row to the row of the position before it, and a        *)
(* backward extension takes the rows of a word to the rows of the word     *)
(* with a symbol in front.                                                 *)
(***************************************************************************)
EXTENDS FMObject, FiniteSetTheorems, TLAPS

-----------------------------------------------------------------------------
(***************************************************************************)
(* Division.                                                               *)
(***************************************************************************)

\* Division with remainder.
LEMMA DivMod ==
    ASSUME NEW x \in Nat, NEW d \in Nat \ {0}
    PROVE  /\ x \div d \in Nat
           /\ x % d \in 0..(d - 1)
           /\ x = (x \div d) * d + (x % d)
  OBVIOUS

\* The quotient is the only one with a remainder below d.
LEMMA DivUnique ==
    ASSUME NEW x \in Nat, NEW d \in Nat \ {0}, NEW q \in Nat,
           q * d <= x, x < q * d + d
    PROVE  x \div d = q
  OBVIOUS

\* Multiplication by a natural number is monotonic.
LEMMA MulMono ==
    ASSUME NEW x \in Nat, NEW y \in Nat, NEW d \in Nat, x <= y
    PROVE  /\ x * d \in Nat
           /\ y * d \in Nat
           /\ x * d <= y * d
  OBVIOUS

\* A number below the modulus is its own remainder.
LEMMA SmallMod ==
    ASSUME NEW m \in Nat, NEW x \in 0..(m - 1)
    PROVE  x % m = x
  OBVIOUS

\* The ceiling of x / d: it covers x, and one less does not.
LEMMA CeilDiv ==
    ASSUME NEW x \in Nat, NEW d \in Nat \ {0}
    PROVE  LET c == (x + (d - 1)) \div d IN
           /\ c \in Nat
           /\ x <= c * d
           /\ \A w \in Nat : w < c => w * d < x
<1> DEFINE c == (x + (d - 1)) \div d
<1>1. /\ x + (d - 1) \in Nat
      /\ c \in Nat
      /\ c * d <= x + (d - 1)
      /\ x + (d - 1) < c * d + d
  BY DivMod
<1> HIDE DEF c
<1>2. x <= c * d
  BY <1>1
<1>3. ASSUME NEW w \in Nat, w < c PROVE w * d < x
  <2>1. (w + 1) * d <= c * d
    BY <1>1, <1>3, MulMono
  <2>2. (w + 1) * d = w * d + d
    OBVIOUS
  <2> QED  BY <1>1, <2>1, <2>2
<1>4. c \in Nat /\ x <= c * d /\ \A w \in Nat : w < c => w * d < x
  BY <1>1, <1>2, <1>3
<1> QED  BY <1>4 DEF c

-----------------------------------------------------------------------------
(***************************************************************************)
(* Counting and induction.                                                 *)
(***************************************************************************)

\* The positions of an interval that hold a value.
CountIn(f, d, p, q) == Cardinality({j \in p..(q - 1) : f[j] = d})

\* A count is a natural number and at most the length of the interval.
LEMMA CountInType ==
    ASSUME NEW f, NEW d, NEW p \in Nat, NEW q \in Nat
    PROVE  /\ IsFiniteSet({j \in p..(q - 1) : f[j] = d})
           /\ CountIn(f, d, p, q) \in Nat
           /\ p <= q => CountIn(f, d, p, q) <= q - p
<1>1. /\ IsFiniteSet(p..(q - 1))
      /\ Cardinality(p..(q - 1)) = IF p > q - 1 THEN 0 ELSE (q - 1) - p + 1
  BY FS_Interval
<1>2. {j \in p..(q - 1) : f[j] = d} \subseteq p..(q - 1)
  OBVIOUS
<1>3. /\ IsFiniteSet({j \in p..(q - 1) : f[j] = d})
      /\ CountIn(f, d, p, q) <= Cardinality(p..(q - 1))
  BY <1>1, <1>2, FS_Subset DEF CountIn
<1>4. CountIn(f, d, p, q) \in Nat
  BY <1>3, FS_CardinalityType DEF CountIn
<1> QED  BY <1>1, <1>3, <1>4

\* Counts of adjacent intervals add up.
LEMMA CountInSplit ==
    ASSUME NEW f, NEW d, NEW p \in Nat, NEW q \in Nat, NEW x \in Nat, p <= q, q <= x
    PROVE  CountIn(f, d, p, x) = CountIn(f, d, p, q) + CountIn(f, d, q, x)
<1> DEFINE A == {j \in p..(q - 1) : f[j] = d}
           B == {j \in q..(x - 1) : f[j] = d}
           U == {j \in p..(x - 1) : f[j] = d}
<1>1. U = A \cup B /\ A \cap B = {}
  OBVIOUS
<1>2. /\ IsFiniteSet(A) /\ IsFiniteSet(B)
      /\ Cardinality(A) \in Nat /\ Cardinality(B) \in Nat
  <2>1. IsFiniteSet(A) /\ CountIn(f, d, p, q) \in Nat
    BY CountInType
  <2>2. IsFiniteSet(B) /\ CountIn(f, d, q, x) \in Nat
    BY CountInType
  <2> QED BY <2>1, <2>2 DEF CountIn
<1>3. Cardinality(A \cup B) = Cardinality(A) + Cardinality(B) - Cardinality(A \cap B)
  BY <1>2, FS_Union
<1> HIDE DEF A, B, U
<1>4. Cardinality(U) = Cardinality(A) + Cardinality(B)
  BY <1>1, <1>2, <1>3, FS_EmptySet
<1> QED  BY <1>4 DEF CountIn, A, B, U

\* Counting by parts: a set in two disjoint parts.
LEMMA CardParts ==
    ASSUME NEW A, NEW B, NEW U, IsFiniteSet(U), U = A \cup B, A \cap B = {}
    PROVE  /\ Cardinality(U) = Cardinality(A) + Cardinality(B)
           /\ Cardinality(A) \in Nat /\ Cardinality(B) \in Nat
<1>1. A \subseteq U /\ B \subseteq U
  OBVIOUS
<1>2. IsFiniteSet(A) /\ IsFiniteSet(B)
  BY <1>1, FS_Subset
<1>3. Cardinality(A) \in Nat /\ Cardinality(B) \in Nat
  BY <1>2, FS_CardinalityType
<1>4. Cardinality(A \cup B) = Cardinality(A) + Cardinality(B) - Cardinality(A \cap B)
  BY <1>2, FS_Union
<1>5. Cardinality(A \cap B) = 0
  BY FS_EmptySet
<1> QED BY <1>3, <1>4, <1>5

\* Induction for a set of natural numbers.
LEMMA NatSet ==
    ASSUME NEW T, 0 \in T, \A m \in Nat : m \in T => m + 1 \in T
    PROVE  \A m \in Nat : m \in T
<1> DEFINE F == {m \in Nat : m \notin T}
<1>1. SUFFICES ASSUME F # {} PROVE FALSE
  OBVIOUS
<1>2. PICK x \in F : \A y \in F : ~(<<y, x>> \in OpToRel(<, Nat))
  BY <1>1, WFMin, NatLessThanWellFounded
<1>3. x \in Nat /\ x # 0 /\ x - 1 \in Nat /\ x - 1 \notin T
  <2>1. x \in Nat /\ x \notin T /\ x # 0
    OBVIOUS
  <2>2. x - 1 \in Nat /\ (x - 1) + 1 = x
    BY <2>1
  <2> QED BY <2>1, <2>2
<1>4. <<x - 1, x>> \in OpToRel(<, Nat)
  BY <1>3 DEF OpToRel
<1> QED BY <1>2, <1>3, <1>4

\* A set of numbers that holds every number below one of its own is an initial
\* segment, and its size says which one.
LEMMA Segment ==
    ASSUME NEW n \in Nat, NEW S \in SUBSET (0..n),
           \A x \in S : \A y \in 0..n : y < x => y \in S
    PROVE  /\ Cardinality(S) \in 0..(n + 1)
           /\ S = 0..(Cardinality(S) - 1)
<1>1. CASE 0 \notin S
  <2>1. S = {}
    BY <1>1
  <2>2. Cardinality(S) = 0
    BY <2>1, FS_EmptySet
  <2> QED BY <2>1, <2>2
<1>2. CASE 0 \in S
  <2>1. \E m \in Nat : m \in S /\ m + 1 \notin S
    <3>1. SUFFICES ASSUME \A m \in Nat : m \in S => m + 1 \in S PROVE FALSE
      OBVIOUS
    <3>2. \A m \in Nat : m \in S
      BY <1>2, <3>1, NatSet
    <3> QED BY <3>2
  <2>2. PICK m \in Nat : m \in S /\ m + 1 \notin S
    BY <2>1
  <2>3. m \in 0..n
    BY <2>2
  <2>4. ASSUME NEW x \in S PROVE x \in 0..m
    <3>1. CASE x > m + 1
      <4>1. m + 1 \in 0..n
        BY <3>1
      <4> QED BY <2>2, <3>1, <4>1
    <3> QED BY <2>2, <3>1
  <2>5. ASSUME NEW x \in 0..m PROVE x \in S
    BY <2>2, <2>3
  <2>6. S = 0..m
    BY <2>4, <2>5
  <2>7. Cardinality(S) = m + 1
    BY <2>6, FS_Interval
  <2> QED BY <2>3, <2>6, <2>7
<1> QED BY <1>1, <1>2

-----------------------------------------------------------------------------
(***************************************************************************)
(* The order of the suffixes.                                              *)
(***************************************************************************)

\* A text over the symbols 0..sigma-1 whose last position, n, is the only one
\* of the sentinel.
Ended(t, n, sigma) ==
    /\ n \in Nat /\ sigma \in Nat
    /\ t \in [0..n -> 0..(sigma - 1)]
    /\ \A p \in 0..n : t[p] = 0 <=> p = n

\* Two suffixes compare by their first symbols, and by what follows them if
\* these are the same.
LEMMA SuffixStep ==
    ASSUME NEW t, NEW n, NEW sigma, Ended(t, n, sigma), NEW p \in 0..n, NEW q \in 0..n
    PROVE  /\ t[p] < t[q] => SuffixLess(t, p, q)
           /\ SuffixLess(t, p, q) => t[p] <= t[q]
           /\ t[p] = t[q] /\ p # q => /\ p + 1 \in 0..n /\ q + 1 \in 0..n
                                      /\ SuffixLess(t, p, q) <=> SuffixLess(t, p + 1, q + 1)
<1>0. /\ n \in Nat /\ DOMAIN t = 0..n
      /\ \A x \in 0..n : t[x] \in Nat
      /\ \A x \in 0..n : t[x] = 0 <=> x = n
      /\ p \in Nat /\ q \in Nat
  BY DEF Ended
<1>1. ASSUME t[p] < t[q] PROVE SuffixLess(t, p, q)
  <2>1. 0 \in 0..n /\ p + 0 = p /\ q + 0 = q /\ 0..(0 - 1) = {}
    BY <1>0
  <2>2. \A j \in 0..(0 - 1) : t[p + j] = t[q + j]
    BY <2>1
  <2> QED BY <1>0, <1>1, <2>1, <2>2 DEF SuffixLess
<1>2. ASSUME SuffixLess(t, p, q) PROVE t[p] <= t[q]
  <2>1. PICK k \in 0..n : /\ p + k \in 0..n /\ q + k \in 0..n
                          /\ t[p + k] < t[q + k]
                          /\ \A j \in 0..(k - 1) : t[p + j] = t[q + j]
    BY <1>0, <1>2 DEF SuffixLess
  <2>2. CASE k = 0
    BY <1>0, <2>1, <2>2
  <2>3. CASE k # 0
    <3>1. 0 \in 0..(k - 1) /\ p + 0 = p /\ q + 0 = q
      BY <1>0, <2>3
    <3>2. t[p] = t[q]
      BY <2>1, <3>1
    <3>3. PICK y \in Nat : y = t[q]
      BY <1>0
    <3> QED BY <3>2, <3>3
  <2> QED BY <2>2, <2>3
<1>3. ASSUME t[p] = t[q], p # q
      PROVE  /\ p + 1 \in 0..n /\ q + 1 \in 0..n
             /\ SuffixLess(t, p, q) <=> SuffixLess(t, p + 1, q + 1)
  <2>1. p < n /\ q < n
    BY <1>0, <1>3
  <2>2. p + 1 \in 0..n /\ q + 1 \in 0..n
    BY <1>0, <2>1
  <2>3. ASSUME SuffixLess(t, p, q) PROVE SuffixLess(t, p + 1, q + 1)
    <3>1. PICK k \in 0..n : /\ p + k \in 0..n /\ q + k \in 0..n
                            /\ t[p + k] < t[q + k]
                            /\ \A j \in 0..(k - 1) : t[p + j] = t[q + j]
      BY <1>0, <2>3 DEF SuffixLess
    <3>2. k # 0
      BY <1>0, <1>3, <3>1
    <3>3. k - 1 \in 0..n /\ (p + 1) + (k - 1) = p + k /\ (q + 1) + (k - 1) = q + k
      BY <1>0, <3>2
    <3>4. ASSUME NEW j \in 0..((k - 1) - 1) PROVE t[(p + 1) + j] = t[(q + 1) + j]
      <4>1. j + 1 \in 0..(k - 1) /\ (p + 1) + j = p + (j + 1) /\ (q + 1) + j = q + (j + 1)
        BY <1>0
      <4> QED BY <3>1, <4>1
    <3> QED BY <1>0, <3>1, <3>3, <3>4 DEF SuffixLess
  <2>4. ASSUME SuffixLess(t, p + 1, q + 1) PROVE SuffixLess(t, p, q)
    <3>1. PICK k \in 0..n : /\ (p + 1) + k \in 0..n /\ (q + 1) + k \in 0..n
                            /\ t[(p + 1) + k] < t[(q + 1) + k]
                            /\ \A j \in 0..(k - 1) : t[(p + 1) + j] = t[(q + 1) + j]
      BY <1>0, <2>4 DEF SuffixLess
    <3>2. k + 1 \in 0..n /\ p + (k + 1) = (p + 1) + k /\ q + (k + 1) = (q + 1) + k
      BY <1>0, <3>1
    <3>3. ASSUME NEW j \in 0..((k + 1) - 1) PROVE t[p + j] = t[q + j]
      <4>1. CASE j = 0
        BY <1>0, <1>3, <4>1
      <4>2. CASE j # 0
        <5>1. j - 1 \in 0..(k - 1) /\ p + j = (p + 1) + (j - 1) /\ q + j = (q + 1) + (j - 1)
          BY <1>0, <4>2
        <5> QED BY <3>1, <5>1
      <4> QED BY <4>1, <4>2
    <3> QED BY <1>0, <3>1, <3>2, <3>3 DEF SuffixLess
  <2> QED BY <2>2, <2>3, <2>4
<1> QED BY <1>1, <1>2, <1>3

\* The order of the suffixes is strict and total.
LEMMA SuffixOrder ==
    ASSUME NEW t, NEW n, NEW sigma, Ended(t, n, sigma)
    PROVE  \A p, q, r \in 0..n :
             /\ ~ SuffixLess(t, p, p)
             /\ p # q => SuffixLess(t, p, q) \/ SuffixLess(t, q, p)
             /\ SuffixLess(t, p, q) /\ SuffixLess(t, q, r) => SuffixLess(t, p, r)
<1>0. /\ n \in Nat
      /\ \A x \in 0..n : t[x] \in Nat
      /\ \A x \in 0..n : t[x] = 0 <=> x = n
  BY DEF Ended
<1>1. ASSUME NEW p \in 0..n, SuffixLess(t, p, p) PROVE FALSE
  <2>1. PICK k \in DOMAIN t : p + k \in DOMAIN t /\ t[p + k] < t[p + k]
    BY <1>1 DEF SuffixLess
  <2>2. t[p + k] \in Nat
    BY <1>0, <2>1 DEF Ended
  <2> QED BY <2>1, <2>2
<1>2. \A p, q \in 0..n : p # q => SuffixLess(t, p, q) \/ SuffixLess(t, q, p)
  <2> DEFINE T == {m \in Nat : \A p, q \in 0..n :
                     n - p = m /\ p # q => SuffixLess(t, p, q) \/ SuffixLess(t, q, p)}
  <2>1. 0 \in T
    <3> SUFFICES ASSUME NEW p \in 0..n, NEW q \in 0..n, n - p = 0, p # q
                 PROVE  SuffixLess(t, p, q)
      OBVIOUS
    <3>1. t[p] = 0 /\ t[q] > 0
      BY <1>0
    <3> QED BY <3>1, SuffixStep
  <2>2. ASSUME NEW m \in Nat, m \in T PROVE m + 1 \in T
    <3> SUFFICES ASSUME NEW p \in 0..n, NEW q \in 0..n, n - p = m + 1, p # q
                 PROVE  SuffixLess(t, p, q) \/ SuffixLess(t, q, p)
      OBVIOUS
    <3>1. CASE t[p] # t[q]
      <4>1. t[p] < t[q] \/ t[q] < t[p]
        BY <1>0, <3>1
      <4> QED BY <4>1, SuffixStep
    <3>2. CASE t[p] = t[q]
      <4>1. p + 1 \in 0..n /\ q + 1 \in 0..n /\ n - (p + 1) = m /\ p + 1 # q + 1
        BY <1>0, <3>2, SuffixStep
      <4>2. SuffixLess(t, p + 1, q + 1) \/ SuffixLess(t, q + 1, p + 1)
        BY <2>2, <4>1
      <4> QED BY <3>2, <4>2, SuffixStep
    <3> QED BY <3>1, <3>2
  <2> HIDE DEF T
  <2>3. \A m \in Nat : m \in T
    BY <2>1, <2>2, NatSet
  <2>4. \A p \in 0..n : n - p \in Nat
    BY <1>0
  <2> QED BY <2>3, <2>4 DEF T
<1>3. \A p, q, r \in 0..n : SuffixLess(t, p, q) /\ SuffixLess(t, q, r) => SuffixLess(t, p, r)
  <2> DEFINE T == {m \in Nat : \A p, q, r \in 0..n :
                     n - p = m /\ SuffixLess(t, p, q) /\ SuffixLess(t, q, r)
                       => SuffixLess(t, p, r)}
  <2>0. ASSUME NEW p \in 0..n, NEW q \in 0..n, NEW r \in 0..n,
               SuffixLess(t, p, q), SuffixLess(t, q, r), ~ SuffixLess(t, p, r)
        PROVE  /\ p + 1 \in 0..n /\ q + 1 \in 0..n /\ r + 1 \in 0..n
               /\ SuffixLess(t, p + 1, q + 1) /\ SuffixLess(t, q + 1, r + 1)
               /\ SuffixLess(t, p + 1, r + 1) => SuffixLess(t, p, r)
    <3>1. p # q /\ q # r
      BY <2>0, <1>1
    <3>2. t[p] <= t[q] /\ t[q] <= t[r] /\ ~(t[p] < t[r])
      BY <2>0, SuffixStep
    <3>3. t[p] = t[q] /\ t[q] = t[r] /\ t[p] = t[r]
      BY <1>0, <3>2
    <3>4. CASE p = r
      <4>1. /\ p + 1 \in 0..n /\ q + 1 \in 0..n
            /\ SuffixLess(t, p + 1, q + 1) /\ SuffixLess(t, q + 1, r + 1)
        BY <2>0, <3>1, <3>3, <3>4, SuffixStep
      <4>2. ~ SuffixLess(t, p + 1, r + 1)
        BY <3>4, <4>1, <1>1
      <4> QED BY <3>4, <4>1, <4>2
    <3>5. CASE p # r
      BY <2>0, <3>1, <3>3, <3>5, SuffixStep
    <3> QED BY <3>4, <3>5
  <2>1. 0 \in T
    <3> SUFFICES ASSUME NEW p \in 0..n, NEW q \in 0..n, NEW r \in 0..n, n - p = 0,
                        SuffixLess(t, p, q), SuffixLess(t, q, r), ~ SuffixLess(t, p, r)
                 PROVE  FALSE
      OBVIOUS
    <3>1. p + 1 \in 0..n
      BY <2>0
    <3> QED BY <1>0, <3>1
  <2>2. ASSUME NEW m \in Nat, m \in T PROVE m + 1 \in T
    <3> SUFFICES ASSUME NEW p \in 0..n, NEW q \in 0..n, NEW r \in 0..n, n - p = m + 1,
                        SuffixLess(t, p, q), SuffixLess(t, q, r), ~ SuffixLess(t, p, r)
                 PROVE  FALSE
      OBVIOUS
    <3>1. /\ p + 1 \in 0..n /\ q + 1 \in 0..n /\ r + 1 \in 0..n
          /\ SuffixLess(t, p + 1, q + 1) /\ SuffixLess(t, q + 1, r + 1)
          /\ ~ SuffixLess(t, p + 1, r + 1)
      BY <2>0
    <3>2. n - (p + 1) = m
      BY <1>0
    <3> QED BY <2>2, <3>1, <3>2
  <2> HIDE DEF T
  <2>3. \A m \in Nat : m \in T
    BY <2>1, <2>2, NatSet
  <2>4. \A p \in 0..n : n - p \in Nat
    BY <1>0
  <2> QED BY <2>3, <2>4 DEF T
<1> QED BY <1>1, <1>2, <1>3

-----------------------------------------------------------------------------
(***************************************************************************)
(* The suffix array.                                                       *)
(***************************************************************************)

\* sa lists the positions in the order of their suffixes.
Sorted(t, n, sa) ==
    /\ sa \in [0..n -> 0..n]
    /\ \A p \in 0..n : \E r \in 0..n : sa[r] = p
    /\ \A r, x \in 0..n : r < x <=> SuffixLess(t, sa[r], sa[x])
    /\ \A r, x \in 0..n : sa[r] = sa[x] => r = x

\* The positions whose suffixes sort before the one at p, and their number.
Earlier(t, p) == {q \in DOMAIN t : SuffixLess(t, q, p)}
RankOf(t, p) == Cardinality(Earlier(t, p))

\* The rank of a suffix is a row, and a suffix has a smaller rank than another
\* exactly if it sorts before it.
LEMMA RankOrder ==
    ASSUME NEW t, NEW n, NEW sigma, Ended(t, n, sigma)
    PROVE  /\ \A p \in 0..n : RankOf(t, p) \in 0..n
           /\ \A p, q \in 0..n : SuffixLess(t, p, q) => RankOf(t, p) < RankOf(t, q)
<1>0. n \in Nat /\ DOMAIN t = 0..n
  BY DEF Ended
<1>1. IsFiniteSet(0..n) /\ Cardinality(0..n) = n + 1
  BY <1>0, FS_Interval
<1>2. ASSUME NEW p \in 0..n
      PROVE  IsFiniteSet(Earlier(t, p)) /\ RankOf(t, p) \in Nat /\ RankOf(t, p) <= n
  <2> DEFINE A == Earlier(t, p)
             B == (0..n) \ {p}
  <2>1. A \in SUBSET B
    <3>1. ~ SuffixLess(t, p, p)
      BY SuffixOrder
    <3> QED BY <1>0, <3>1 DEF Earlier
  <2>2. IsFiniteSet(B) /\ Cardinality(B) = (n + 1) - 1
    BY <1>1, FS_RemoveElement
  <2> HIDE DEF A, B
  <2>3. IsFiniteSet(A) /\ Cardinality(A) <= Cardinality(B)
    BY <2>1, <2>2, FS_Subset
  <2>4. Cardinality(A) \in Nat
    BY <2>3, FS_CardinalityType
  <2> QED BY <1>0, <2>2, <2>3, <2>4 DEF A, RankOf
<1>3. ASSUME NEW p \in 0..n, NEW q \in 0..n, SuffixLess(t, p, q)
      PROVE  RankOf(t, p) < RankOf(t, q)
  <2> DEFINE A == Earlier(t, p)
             B == Earlier(t, q)
  <2>1. A \in SUBSET B /\ p \in B /\ p \notin A
    <3>1. \A x \in 0..n : SuffixLess(t, x, p) => SuffixLess(t, x, q)
      BY <1>3, SuffixOrder
    <3>2. ~ SuffixLess(t, p, p)
      BY SuffixOrder
    <3> QED BY <1>0, <1>3, <3>1, <3>2 DEF Earlier
  <2>2. /\ IsFiniteSet(A) /\ IsFiniteSet(B) /\ RankOf(t, p) = Cardinality(A)
        /\ RankOf(t, q) = Cardinality(B)
        /\ Cardinality(A) \in Nat /\ Cardinality(B) \in Nat
    BY <1>2 DEF RankOf
  <2> HIDE DEF A, B
  <2>3. Cardinality(A) <= Cardinality(B) /\ (Cardinality(B) = Cardinality(A) => B = A)
    BY <2>1, <2>2, FS_Subset
  <2> QED BY <2>1, <2>2, <2>3
<1> QED BY <1>0, <1>2, <1>3

\* libsais's array sorts the suffixes.
LEMMA SuffixArraySorts ==
    ASSUME NEW t, NEW n, NEW sigma, Ended(t, n, sigma)
    PROVE  Sorted(t, n, SuffixArray(t))
<1> DEFINE f == [p \in 0..n |-> RankOf(t, p)]
           sa == SuffixArray(t)
<1>0. n \in Nat /\ DOMAIN t = 0..n
  BY DEF Ended
<1>1. /\ f \in [0..n -> 0..n]
      /\ \A p, q \in 0..n : SuffixLess(t, p, q) => f[p] < f[q]
  BY RankOrder
<1>2. sa = [r \in 0..n |-> CHOOSE p \in 0..n : f[p] = r]
  BY <1>0 DEF SuffixArray, RankOf, Earlier
<1> HIDE DEF f, sa
<1>3. \A p, q \in 0..n : f[p] = f[q] => p = q
  <2> SUFFICES ASSUME NEW p \in 0..n, NEW q \in 0..n, f[p] = f[q], p # q PROVE FALSE
    OBVIOUS
  <2>1. SuffixLess(t, p, q) \/ SuffixLess(t, q, p)
    BY SuffixOrder
  <2> QED BY <1>0, <1>1, <2>1
<1>4. f \in Injection(0..n, 0..n)
  BY <1>1, <1>3 DEF Injection, IsInjective
<1>5. f \in Surjection(0..n, 0..n)
  BY <1>0, <1>4, FS_Interval, FS_Injection
<1>6. \A r \in 0..n : \E p \in 0..n : f[p] = r
  BY <1>5 DEF Surjection
<1>7. \A r \in 0..n : sa[r] \in 0..n /\ f[sa[r]] = r
  BY <1>2, <1>6
<1>8. sa \in [0..n -> 0..n]
  BY <1>2, <1>7
<1>9. \A p \in 0..n : f[p] \in 0..n /\ sa[f[p]] = p
  BY <1>1, <1>3, <1>7
<1>10. ASSUME NEW r \in 0..n, NEW x \in 0..n PROVE r < x <=> SuffixLess(t, sa[r], sa[x])
  <2>1. SuffixLess(t, sa[r], sa[x]) => r < x
    BY <1>1, <1>7
  <2>2. ASSUME r < x PROVE SuffixLess(t, sa[r], sa[x])
    <3>1. sa[r] # sa[x]
      BY <1>0, <1>7, <2>2
    <3>2. SuffixLess(t, sa[r], sa[x]) \/ SuffixLess(t, sa[x], sa[r])
      BY <1>7, <3>1, SuffixOrder
    <3>3. SuffixLess(t, sa[x], sa[r]) => x < r
      BY <1>1, <1>7
    <3> QED BY <1>0, <2>2, <3>2, <3>3
  <2> QED BY <2>1, <2>2
<1>11. \A r, x \in 0..n : sa[r] = sa[x] => r = x
  BY <1>7
<1>12. \A p \in 0..n : \E r \in 0..n : sa[r] = p
  BY <1>9
<1> QED BY <1>8, <1>10, <1>11, <1>12 DEF Sorted, sa

-----------------------------------------------------------------------------
(***************************************************************************)
(* LF.                                                                     *)
(***************************************************************************)

\* The position before p; the sentinel comes before the whole text.
Prev(p, n) == IF p = 0 THEN n ELSE p - 1

\* The row of the position before the one of row r.
Back(sa, n) == [r \in 0..n |-> CHOOSE x \in 0..n : sa[x] = Prev(sa[r], n)]

\* The rows whose preceding symbol is smaller than c, and those above b whose
\* preceding symbol is c.
Cut(bwt, c, b) == Cardinality({x \in DOMAIN bwt : bwt[x] < c}) + RankIn(bwt, c, b)

\* Prev permutes the positions.
LEMMA PrevFacts ==
    ASSUME NEW n \in Nat, NEW p \in 0..n
    PROVE  /\ Prev(p, n) \in 0..n
           /\ Prev(p, n) + 1 \in 0..n => p = Prev(p, n) + 1
           /\ \A q \in 0..n : Prev(p, n) = Prev(q, n) => p = q
  BY DEF Prev

\* Back permutes the rows.
LEMMA BackPermutes ==
    ASSUME NEW t, NEW n, NEW sigma, NEW sa, Ended(t, n, sigma), Sorted(t, n, sa)
    PROVE  /\ Back(sa, n) \in [0..n -> 0..n]
           /\ \A r \in 0..n : sa[Back(sa, n)[r]] = Prev(sa[r], n)
           /\ \A r, x \in 0..n : Back(sa, n)[r] = Back(sa, n)[x] => r = x
           /\ \A y \in 0..n : \E r \in 0..n : Back(sa, n)[r] = y
<1> DEFINE P == Back(sa, n)
<1>0. /\ n \in Nat /\ sa \in [0..n -> 0..n]
      /\ \A p \in 0..n : \E r \in 0..n : sa[r] = p
      /\ \A r, x \in 0..n : sa[r] = sa[x] => r = x
  BY DEF Ended, Sorted
<1>1. \A r \in 0..n : Prev(sa[r], n) \in 0..n
  <2> SUFFICES ASSUME NEW r \in 0..n PROVE Prev(sa[r], n) \in 0..n
    OBVIOUS
  <2>1. PICK p \in 0..n : p = sa[r]
    BY <1>0
  <2> QED BY <1>0, <2>1, PrevFacts
<1>2. \A r \in 0..n : P[r] \in 0..n /\ sa[P[r]] = Prev(sa[r], n)
  BY <1>0, <1>1 DEF Back
<1>3. P \in [0..n -> 0..n]
  BY <1>2 DEF Back
<1> HIDE DEF P
<1>4. \A r, x \in 0..n : P[r] = P[x] => r = x
  <2> SUFFICES ASSUME NEW r \in 0..n, NEW x \in 0..n, P[r] = P[x] PROVE r = x
    OBVIOUS
  <2>1. Prev(sa[r], n) = Prev(sa[x], n)
    BY <1>2
  <2>2. PICK p \in 0..n, q \in 0..n : p = sa[r] /\ q = sa[x]
    BY <1>0
  <2>3. p = q
    BY <1>0, <2>1, <2>2, PrevFacts
  <2> QED BY <1>0, <2>2, <2>3
<1>5. P \in Injection(0..n, 0..n)
  BY <1>3, <1>4 DEF Injection, IsInjective
<1>6. P \in Surjection(0..n, 0..n)
  BY <1>0, <1>5, FS_Interval, FS_Injection
<1>7. \A y \in 0..n : \E r \in 0..n : P[r] = y
  BY <1>6 DEF Surjection
<1> QED BY <1>2, <1>3, <1>4, <1>7 DEF P

\* The row of the position before: rows with different preceding symbols are in
\* the order of these, rows with the same one keep their order.
LEMMA BackOrder ==
    ASSUME NEW t, NEW n, NEW sigma, NEW sa, Ended(t, n, sigma), Sorted(t, n, sa),
           NEW r \in 0..n, NEW x \in 0..n
    PROVE  /\ Bwt(t, sa)[r] = t[sa[Back(sa, n)[r]]]
           /\ Bwt(t, sa)[r] \in 0..(sigma - 1)
           /\ Back(sa, n)[x] < Back(sa, n)[r]
                <=> \/ Bwt(t, sa)[x] < Bwt(t, sa)[r]
                    \/ Bwt(t, sa)[x] = Bwt(t, sa)[r] /\ x < r
<1> DEFINE P == Back(sa, n)
           w == Bwt(t, sa)
<1>0. /\ n \in Nat /\ sigma \in Nat /\ t \in [0..n -> 0..(sigma - 1)]
      /\ \A p \in 0..n : t[p] = 0 <=> p = n
      /\ sa \in [0..n -> 0..n]
      /\ \A y, z \in 0..n : y < z <=> SuffixLess(t, sa[y], sa[z])
      /\ \A y, z \in 0..n : sa[y] = sa[z] => y = z
  BY DEF Ended, Sorted
<1>1. /\ P \in [0..n -> 0..n]
      /\ \A y \in 0..n : sa[P[y]] = Prev(sa[y], n)
      /\ \A y, z \in 0..n : P[y] = P[z] => y = z
  <2>1. P \in [0..n -> 0..n]
    BY BackPermutes
  <2>2. ASSUME NEW y \in 0..n PROVE sa[P[y]] = Prev(sa[y], n)
    BY BackPermutes
  <2>3. ASSUME NEW y \in 0..n, NEW z \in 0..n, P[y] = P[z] PROVE y = z
    BY <2>3, BackPermutes
  <2> QED BY <2>1, <2>2, <2>3
<1> HIDE DEF P
<1>2. ASSUME NEW y \in 0..n PROVE w[y] = t[sa[P[y]]]
  <2>1. w[y] = IF sa[y] = 0 THEN 0 ELSE t[sa[y] - 1]
    BY <1>0 DEF Bwt
  <2>2. n \in 0..n /\ t[n] = 0
    BY <1>0
  <2> QED BY <1>1, <2>1, <2>2 DEF Prev
<1> HIDE DEF w
<1>3. \A y \in 0..n : w[y] \in 0..(sigma - 1)
  <2>1. ASSUME NEW y \in 0..n PROVE w[y] \in 0..(sigma - 1)
    <3>1. P[y] \in 0..n
      BY <1>1
    <3>2. sa[P[y]] \in 0..n
      BY <1>0, <3>1
    <3>3. PICK p \in 0..n : p = sa[P[y]]
      BY <3>2
    <3>4. t[p] \in 0..(sigma - 1)
      BY DEF Ended
    <3> QED BY <1>2, <3>3, <3>4
  <2> QED BY <2>1
<1>4. \A y \in 0..n : w[y] \in Nat
  BY <1>0, <1>3
<1>5. PICK p \in 0..n : p = sa[P[r]]
  BY <1>0, <1>1
<1>6. PICK q \in 0..n : q = sa[P[x]]
  BY <1>0, <1>1
<1>7. /\ P[x] < P[r] <=> SuffixLess(t, q, p)
      /\ w[r] = t[p] /\ w[x] = t[q]
  BY <1>0, <1>1, <1>2, <1>5, <1>6
<1>8. CASE w[x] # w[r]
  <2>1. w[x] < w[r] => SuffixLess(t, q, p)
    BY <1>7, SuffixStep
  <2>2. SuffixLess(t, q, p) => w[x] < w[r]
    <3>1. SuffixLess(t, q, p) => w[x] <= w[r]
      BY <1>7, SuffixStep
    <3> QED BY <1>4, <1>8, <3>1
  <2> QED BY <1>2, <1>3, <1>7, <1>8, <2>1, <2>2 DEF P, w
<1>9. CASE w[x] = w[r] /\ x # r
  <2>1. q # p
    BY <1>0, <1>1, <1>5, <1>6, <1>9
  <2>2. /\ q + 1 \in 0..n /\ p + 1 \in 0..n
        /\ SuffixLess(t, q, p) <=> SuffixLess(t, q + 1, p + 1)
    BY <1>7, <1>9, <2>1, SuffixStep
  <2>3. q = Prev(sa[x], n) /\ p = Prev(sa[r], n)
    BY <1>1, <1>5, <1>6
  <2>4. sa[x] = q + 1 /\ sa[r] = p + 1
    <3>1. PICK u \in 0..n, v \in 0..n : u = sa[x] /\ v = sa[r]
      BY <1>0
    <3> QED BY <1>0, <2>2, <2>3, <3>1, PrevFacts
  <2>5. x < r <=> SuffixLess(t, sa[x], sa[r])
    BY <1>0
  <2>6. ~(w[x] < w[r])
    BY <1>4, <1>9
  <2> QED BY <1>2, <1>3, <1>7, <1>9, <2>2, <2>4, <2>5, <2>6 DEF P, w
<1>10. CASE x = r
  <2>1. P[r] \in Nat /\ w[r] \in Nat
    BY <1>1, <1>4
  <2>2. ~(P[x] < P[r]) /\ ~(w[x] < w[r]) /\ ~(x < r)
    BY <1>10, <2>1
  <2> QED BY <1>2, <1>3, <2>2 DEF P, w
<1> QED BY <1>8, <1>9, <1>10

\* The rows that Back puts above a cut.
Above(w, n, c, b) == {x \in 0..n : w[x] < c \/ (w[x] = c /\ x < b)}

\* A cut counts them.
LEMMA CutCounts ==
    ASSUME NEW n \in Nat, NEW w \in [0..n -> Nat], NEW c \in Nat, NEW b \in 0..(n + 1)
    PROVE  /\ Cut(w, c, b) = Cardinality(Above(w, n, c, b))
           /\ Cut(w, c, b) \in Nat
           /\ IsFiniteSet(Above(w, n, c, b))
           /\ RankIn(w, c, b) \in Nat
           /\ Cardinality({x \in DOMAIN w : w[x] < c}) \in Nat
<1> DEFINE D == Above(w, n, c, b)
           A == {x \in DOMAIN w : w[x] < c}
           B == {j \in 0..(b - 1) : w[j] = c}
<1>1. D \in SUBSET (0..n) /\ IsFiniteSet(0..n)
  BY FS_Interval DEF Above
<1>2. IsFiniteSet(D)
  BY <1>1, FS_Subset
<1>3. D = A \cup B /\ A \cap B = {}
  <2>1. \A x \in 0..(b - 1) : x \in 0..n /\ x < b
    OBVIOUS
  <2>2. \A x \in 0..n : x < b => x \in 0..(b - 1)
    OBVIOUS
  <2>3. \A x \in 0..n : w[x] \in Nat
    OBVIOUS
  <2>4. DOMAIN w = 0..n
    OBVIOUS
  <2>5. A \cap B = {}
    BY <2>1, <2>3, <2>4
  <2>6. \A x : x \in D <=> x \in A \/ x \in B
    BY <2>1, <2>2, <2>4 DEF Above
  <2> QED BY <2>5, <2>6
<1> HIDE DEF A, B, D
<1>4. /\ Cardinality(D) = Cardinality(A) + Cardinality(B)
      /\ Cardinality(A) \in Nat /\ Cardinality(B) \in Nat
  BY <1>2, <1>3, CardParts
<1>5. Cut(w, c, b) = Cardinality(A) + Cardinality(B) /\ RankIn(w, c, b) = Cardinality(B)
  BY DEF Cut, RankIn, A, B
<1>6. Cut(w, c, b) = Cardinality(D) /\ Cut(w, c, b) \in Nat /\ RankIn(w, c, b) \in Nat
  BY <1>4, <1>5
<1> QED BY <1>2, <1>4, <1>6 DEF D, A

\* A cut separates the rows of the positions before the rows above it from the
\* other ones.
LEMMA CutRank ==
    ASSUME NEW t, NEW n, NEW sigma, NEW sa, Ended(t, n, sigma), Sorted(t, n, sa),
           NEW c \in Nat, NEW b \in 0..(n + 1)
    PROVE  /\ Cut(Bwt(t, sa), c, b) \in 0..(n + 1)
           /\ \A r \in 0..n : Back(sa, n)[r] < Cut(Bwt(t, sa), c, b)
                                <=> r \in Above(Bwt(t, sa), n, c, b)
<1> DEFINE P == Back(sa, n)
           w == Bwt(t, sa)
           D == Above(w, n, c, b)
           K == Cut(w, c, b)
           S == {y \in 0..n : \E x \in D : P[x] = y}
<1>0. n \in Nat /\ DOMAIN w = 0..n
  BY DEF Ended, Sorted, Bwt
<1>1. /\ P \in [0..n -> 0..n]
      /\ \A r, x \in 0..n : P[r] = P[x] => r = x
      /\ \A y \in 0..n : \E r \in 0..n : P[r] = y
  <2>1. P \in [0..n -> 0..n]
    BY BackPermutes
  <2>2. ASSUME NEW y \in 0..n, NEW z \in 0..n, P[y] = P[z] PROVE y = z
    BY <2>2, BackPermutes
  <2>3. ASSUME NEW y \in 0..n PROVE \E r \in 0..n : P[r] = y
    BY BackPermutes
  <2> QED BY <2>1, <2>2, <2>3
<1>2. \A r, x \in 0..n : P[x] < P[r] => w[x] < w[r] \/ (w[x] = w[r] /\ x < r)
  BY BackOrder
<1>3. w \in [0..n -> Nat]
  <2>1. \A r \in 0..n : w[r] \in 0..(sigma - 1)
    BY BackOrder
  <2>2. \A r \in 0..n : w[r] \in Nat
    BY <2>1 DEF Ended
  <2>3. w = [r \in 0..n |-> w[r]]
    BY <1>0 DEF Bwt
  <2> HIDE DEF w
  <2> QED BY <2>2, <2>3
<1>4. K = Cardinality(D) /\ K \in Nat /\ IsFiniteSet(D)
  BY <1>0, <1>3, CutCounts
<1> HIDE DEF P, w, K
<1>5. D \subseteq 0..n
  BY DEF Above
<1>6. Cardinality(S) = K
  <2> DEFINE f == [x \in D |-> P[x]]
  <2>1. f \in [D -> S]
    BY <1>1, <1>5
  <2>2. \A x, y \in D : f[x] = f[y] => x = y
    BY <1>1, <1>5
  <2>3. \A y \in S : \E x \in D : f[x] = y
    OBVIOUS
  <2> HIDE DEF f, S, D
  <2>4. f \in Bijection(D, S)
    BY <2>1, <2>2, <2>3 DEF Bijection, Injection, Surjection, IsInjective
  <2>5. ExistsBijection(D, S)
    BY <2>4 DEF ExistsBijection
  <2> QED BY <1>4, <2>5, FS_Bijection
<1>7. ASSUME NEW y \in S, NEW z \in 0..n, z < y PROVE z \in S
  <2>1. PICK x \in D : P[x] = y
    OBVIOUS
  <2>2. PICK v \in 0..n : P[v] = z
    BY <1>1
  <2>3. w[v] < w[x] \/ (w[v] = w[x] /\ v < x)
    BY <1>2, <1>5, <1>7, <2>1, <2>2
  <2>4. v \in Nat /\ x \in Nat /\ w[v] \in Nat /\ w[x] \in Nat /\ b \in Nat
    BY <1>0, <1>3, <1>5
  <2>5. w[x] < c \/ (w[x] = c /\ x < b)
    BY DEF Above
  <2>6. w[v] < c \/ (w[v] = c /\ v < b)
    BY <2>3, <2>4, <2>5
  <2> QED BY <2>2, <2>6 DEF Above
<1>8. K \in 0..(n + 1) /\ S = 0..(K - 1)
  <2>1. S \in SUBSET (0..n)
    OBVIOUS
  <2> HIDE DEF S
  <2> QED BY <1>0, <1>6, <1>7, <2>1, Segment
<1>9. ASSUME NEW r \in 0..n PROVE P[r] < K <=> r \in D
  <2>1. P[r] \in 0..n
    BY <1>1
  <2>2. r \in D <=> P[r] \in S
    BY <1>1, <1>5, <2>1
  <2> HIDE DEF S, D
  <2>3. P[r] < K <=> P[r] \in 0..(K - 1)
    BY <1>0, <1>8, <2>1
  <2> QED BY <1>8, <2>2, <2>3
<1> QED BY <1>8, <1>9 DEF P, w, K

\* LF takes a row to the row of the position before its own.
LEMMA LFRow ==
    ASSUME NEW t, NEW n, NEW sigma, NEW sa, Ended(t, n, sigma), Sorted(t, n, sa),
           NEW r \in 0..n
    PROVE  Cut(Bwt(t, sa), Bwt(t, sa)[r], r) = Back(sa, n)[r]
<1> DEFINE P == Back(sa, n)
           w == Bwt(t, sa)
<1>0. n \in Nat /\ r \in 0..(n + 1)
  BY DEF Ended
<1>1. PICK c \in Nat : c = w[r]
  <2>1. w[r] \in 0..(sigma - 1)
    BY BackOrder
  <2> QED BY <2>1 DEF Ended
<1> DEFINE K == Cut(w, c, r)
<1>2. K \in 0..(n + 1) /\ \A x \in 0..n : P[x] < K <=> x \in Above(w, n, c, r)
  BY <1>0, CutRank
<1>3. ASSUME NEW x \in 0..n PROVE P[x] < P[r] <=> x \in Above(w, n, c, r)
  BY <1>1, BackOrder DEF Above
<1>4. P[r] \in 0..n
  <2>1. P \in [0..n -> 0..n]
    BY BackPermutes
  <2> QED BY <2>1
<1>5. \A y \in 0..n : \E x \in 0..n : P[x] = y
  BY BackPermutes
<1> HIDE DEF P, w, K
<1>6. \A y \in 0..n : y < K <=> y < P[r]
  BY <1>2, <1>3, <1>5
<1>7. ~(K < P[r])
  <2>1. SUFFICES ASSUME K < P[r] PROVE FALSE
    OBVIOUS
  <2>2. K \in 0..n /\ ~(K < K)
    BY <1>0, <1>2, <1>4, <2>1
  <2> QED BY <1>6, <2>1, <2>2
<1>8. ~(P[r] < K)
  <2>1. ~(P[r] < P[r])
    BY <1>0, <1>4
  <2> QED BY <1>4, <1>6, <2>1
<1>9. K = P[r]
  BY <1>0, <1>2, <1>4, <1>7, <1>8
<1> QED BY <1>1, <1>9 DEF K, P, w

-----------------------------------------------------------------------------
(***************************************************************************)
(* The object.                                                             *)
(***************************************************************************)

\* The members that the search reads are those of the text t.
Serves(o, t, sa) ==
    /\ Ended(t, o.text_len_, o.sigma_)
    /\ Sorted(t, o.text_len_, sa)
    /\ o.sigma_ >= 2
    /\ \A x \in Bytes : \/ o.byte_to_id_[x] \in Int /\ o.byte_to_id_[x] < 0
                        \/ o.byte_to_id_[x] \in 2..(o.sigma_ - 1)
    /\ o.wm_ = Bwt(t, sa)
    /\ o.c_ = CTable(Bwt(t, sa), o.sigma_)
    /\ o.first_ = Starts(Bwt(t, sa), o.sigma_, o.qlevels_)

\* The preceding symbols are symbols, one for each row.
LEMMA BwtType ==
    ASSUME NEW t, NEW n, NEW sigma, NEW sa, Ended(t, n, sigma), Sorted(t, n, sa)
    PROVE  /\ Bwt(t, sa) \in [0..n -> Nat]
           /\ \A r \in 0..n : Bwt(t, sa)[r] \in 0..(sigma - 1)
<1> DEFINE w == Bwt(t, sa)
<1>1. \A r \in 0..n : w[r] \in 0..(sigma - 1)
  BY BackOrder
<1>2. \A r \in 0..n : w[r] \in Nat
  BY <1>1 DEF Ended
<1>3. w = [r \in 0..n |-> w[r]]
  BY DEF Bwt, Sorted
<1> HIDE DEF w
<1>4. w \in [0..n -> Nat]
  BY <1>2, <1>3
<1> QED BY <1>1, <1>4 DEF w

\* LF moves one text position back, from the start to the sentinel.
LEMMA LFBack ==
    ASSUME NEW o, NEW t, NEW sa, Serves(o, t, sa), NEW r \in 0..o.text_len_
    PROVE  /\ LF(o, r) \in 0..o.text_len_
           /\ sa[LF(o, r)] = Prev(sa[r], o.text_len_)
<1> DEFINE n == o.text_len_
           w == Bwt(t, sa)
<1>1. Ended(t, n, o.sigma_) /\ Sorted(t, n, sa) /\ r \in 0..n
  BY DEF Serves
<1>2. o.wm_ = w /\ o.c_ = CTable(w, o.sigma_) /\ w[r] \in 0..(o.sigma_ - 1)
  BY <1>1, BackOrder DEF Serves
<1> HIDE DEF n, w
<1>3. LF(o, r) = Cut(w, w[r], r)
  BY <1>2 DEF LF, CTable, Cut
<1>4. LF(o, r) = Back(sa, n)[r]
  BY <1>1, <1>3, LFRow DEF w
<1>5. Back(sa, n) \in [0..n -> 0..n] /\ sa[Back(sa, n)[r]] = Prev(sa[r], n)
  BY <1>1, BackPermutes
<1>6. LF(o, r) \in 0..n
  BY <1>1, <1>4, <1>5
<1> QED BY <1>4, <1>5, <1>6 DEF n

\* One end of a backward extension is a cut.
LEMMA ExtendIsCut ==
    ASSUME NEW o, NEW t, NEW sa, Serves(o, t, sa), NEW c \in 0..(o.sigma_ - 1),
           NEW b \in 0..(o.text_len_ + 1)
    PROVE  /\ Extend(o, c, b) = Cut(Bwt(t, sa), c, b)
           /\ Extend(o, c, b) \in 0..(o.text_len_ + 1)
<1> DEFINE n == o.text_len_
           w == Bwt(t, sa)
           g == GroupStart(w, c, o.qlevels_)
           A == Cardinality({x \in DOMAIN w : w[x] < c})
<1>1. Ended(t, n, o.sigma_) /\ Sorted(t, n, sa) /\ n \in Nat /\ b \in 0..(n + 1)
  BY DEF Serves, Ended
<1>2. o.wm_ = w /\ o.c_[c] = A /\ o.first_[c] = g
  BY DEF Serves, CTable, Starts
<1>3. w \in [0..n -> Nat] /\ c \in Nat
  BY <1>1, BwtType
<1>4. A \in Nat /\ RankIn(w, c, b) \in Nat
  BY <1>1, <1>3, CutCounts
<1>5. g \in Nat
  <2> DEFINE G == {j \in DOMAIN w : Before(w[j], c, o.qlevels_, o.qlevels_)}
  <2>1. G \in SUBSET (0..n) /\ IsFiniteSet(0..n)
    <3>1. DOMAIN w = 0..n
      BY <1>3
    <3>2. IsFiniteSet(0..n)
      BY <1>1, FS_Interval
    <3> QED BY <3>1, <3>2
  <2>2. g = Cardinality(G)
    BY DEF GroupStart
  <2> HIDE DEF G
  <2>3. IsFiniteSet(G)
    BY <2>1, FS_Subset
  <2> QED BY <2>2, <2>3, FS_CardinalityType
<1>6. /\ Extend(o, c, b) = (A - g) + (g + RankIn(w, c, b))
      /\ Cut(w, c, b) = A + RankIn(w, c, b)
  BY <1>2 DEF Extend, MapPos, Cut
<1> HIDE DEF A, g, n, w
<1>7. Extend(o, c, b) = Cut(w, c, b)
  BY <1>4, <1>5, <1>6
<1>8. Cut(w, c, b) \in 0..(n + 1)
  BY <1>1, <1>3, CutRank DEF w
<1> QED BY <1>7, <1>8 DEF n, w

-----------------------------------------------------------------------------
(***************************************************************************)
(* Backward search.                                                        *)
(***************************************************************************)

\* Word w stands at position pos of t; the rows of the positions where it does.
StandsAt(t, pos, w) ==
    \A j \in 1..Len(w) : pos + j - 1 \in DOMAIN t /\ t[pos + j - 1] = w[j]
RowsOf(t, sa, w) == {r \in DOMAIN sa : StandsAt(t, sa[r], w)}

\* v is w with symbol c in front.
Fronted(v, c, w) ==
    /\ Len(w) \in Nat /\ Len(v) = Len(w) + 1
    /\ v[1] = c
    /\ \A j \in 1..Len(w) : v[j + 1] = w[j]

\* A word with c in front stands where c is followed by the word.
LEMMA StandsStep ==
    ASSUME NEW t, NEW n, NEW sigma, Ended(t, n, sigma), NEW c \in 1..(sigma - 1),
           NEW v, NEW w, Fronted(v, c, w), NEW p \in 0..n
    PROVE  StandsAt(t, p, v) <=> t[p] = c /\ p + 1 \in 0..n /\ StandsAt(t, p + 1, w)
<1>0. /\ n \in Nat /\ sigma \in Nat /\ DOMAIN t = 0..n
      /\ \A x \in 0..n : t[x] = 0 <=> x = n
      /\ p \in Nat
  BY DEF Ended
<1>1. /\ Len(w) \in Nat /\ Len(v) = Len(w) + 1 /\ v[1] = c
      /\ \A j \in 1..Len(w) : v[j + 1] = w[j]
  BY DEF Fronted
<1> DEFINE m == Len(w)
<1> HIDE DEF m
<1>2. ASSUME StandsAt(t, p, v)
      PROVE  t[p] = c /\ p + 1 \in 0..n /\ StandsAt(t, p + 1, w)
  <2>1. \A j \in 1..(m + 1) : p + j - 1 \in 0..n /\ t[p + j - 1] = v[j]
    BY <1>0, <1>1, <1>2 DEF StandsAt, m
  <2>2. 1 \in 1..(m + 1) /\ p + 1 - 1 = p
    BY <1>0, <1>1 DEF m
  <2>3. t[p] = c
    BY <1>1, <2>1, <2>2
  <2>4. p + 1 \in 0..n
    BY <1>0, <2>3
  <2>5. ASSUME NEW j \in 1..m
        PROVE  (p + 1) + j - 1 \in 0..n /\ t[(p + 1) + j - 1] = w[j]
    <3>1. j + 1 \in 1..(m + 1) /\ p + (j + 1) - 1 = (p + 1) + j - 1
      BY <1>0, <1>1 DEF m
    <3>2. p + (j + 1) - 1 \in 0..n /\ t[p + (j + 1) - 1] = v[j + 1]
      BY <2>1, <3>1
    <3>3. v[j + 1] = w[j]
      BY <1>1 DEF m
    <3> QED BY <3>1, <3>2, <3>3
  <2> QED BY <1>0, <2>3, <2>4, <2>5 DEF StandsAt, m
<1>3. ASSUME t[p] = c, p + 1 \in 0..n, StandsAt(t, p + 1, w)
      PROVE  StandsAt(t, p, v)
  <2>1. \A j \in 1..m : (p + 1) + j - 1 \in 0..n /\ t[(p + 1) + j - 1] = w[j]
    BY <1>0, <1>3 DEF StandsAt, m
  <2>2. ASSUME NEW j \in 1..(m + 1) PROVE p + j - 1 \in 0..n /\ t[p + j - 1] = v[j]
    <3>1. CASE j = 1
      BY <1>0, <1>1, <1>3, <3>1
    <3>2. CASE j # 1
      <4>1. j - 1 \in 1..m /\ (j - 1) + 1 = j /\ (p + 1) + (j - 1) - 1 = p + j - 1
        BY <1>0, <1>1, <3>2 DEF m
      <4>2. (p + 1) + (j - 1) - 1 \in 0..n /\ t[(p + 1) + (j - 1) - 1] = w[j - 1]
        BY <2>1, <4>1
      <4>3. v[(j - 1) + 1] = w[j - 1]
        BY <1>1, <4>1 DEF m
      <4> QED BY <4>1, <4>2, <4>3
    <3> QED BY <3>1, <3>2
  <2> QED BY <1>0, <1>1, <2>2 DEF StandsAt, m
<1> QED BY <1>2, <1>3

\* A backward extension takes the rows of a word to the rows of the word with
\* the symbol in front.
LEMMA ExtendRows ==
    ASSUME NEW o, NEW t, NEW sa, Serves(o, t, sa), NEW c \in 1..(o.sigma_ - 1),
           NEW lo \in 0..(o.text_len_ + 1), NEW hi \in 0..(o.text_len_ + 1),
           NEW v, NEW w, Fronted(v, c, w), RowsOf(t, sa, w) = lo..(hi - 1)
    PROVE  RowsOf(t, sa, v) = Extend(o, c, lo)..(Extend(o, c, hi) - 1)
<1> DEFINE n == o.text_len_
           P == Back(sa, n)
           b == Bwt(t, sa)
           x == Extend(o, c, lo)
           y == Extend(o, c, hi)
<1>0. /\ Ended(t, n, o.sigma_) /\ Sorted(t, n, sa) /\ n \in Nat
      /\ sa \in [0..n -> 0..n] /\ c \in 0..(o.sigma_ - 1) /\ c \in Nat /\ c # 0
      /\ lo \in 0..(n + 1) /\ hi \in 0..(n + 1)
  <2>1. Ended(t, n, o.sigma_) /\ Sorted(t, n, sa)
    BY DEF Serves
  <2>2. n \in Nat /\ o.sigma_ \in Nat
    BY <2>1 DEF Ended
  <2>3. sa \in [0..n -> 0..n]
    BY <2>1 DEF Sorted
  <2>4. c \in 0..(o.sigma_ - 1) /\ c \in Nat /\ c # 0
    BY <2>2
  <2> QED BY <2>1, <2>2, <2>3, <2>4
<1>1. /\ x = Cut(b, c, lo) /\ x \in 0..(n + 1)
      /\ y = Cut(b, c, hi) /\ y \in 0..(n + 1)
  BY <1>0, ExtendIsCut
<1>a. Ended(t, n, o.sigma_) /\ Sorted(t, n, sa)
  BY <1>0
<1> HIDE DEF n, P, b, x, y
<1>2. ASSUME NEW r \in 0..n
      PROVE  P[r] \in RowsOf(t, sa, v) <=> b[r] = c /\ r \in RowsOf(t, sa, w)
  <2>1. P[r] \in 0..n
    <3>1. P \in [0..n -> 0..n]
      BY <1>a, BackPermutes DEF P
    <3> QED BY <3>1
  <2>2. PICK p \in 0..n : p = sa[P[r]]
    BY <1>0, <2>1
  <2>3. PICK q \in 0..n : q = sa[r]
    BY <1>0
  <2>4. p = Prev(q, n) /\ b[r] = t[p]
    <3>1. sa[P[r]] = Prev(sa[r], n)
      BY <1>a, BackPermutes DEF P
    <3>2. b[r] = t[sa[P[r]]]
      BY <1>a, BackOrder DEF P, b
    <3> QED BY <2>2, <2>3, <3>1, <3>2
  <2>5. P[r] \in RowsOf(t, sa, v) <=> StandsAt(t, p, v)
    BY <1>0, <2>1, <2>2 DEF RowsOf
  <2>6. r \in RowsOf(t, sa, w) <=> StandsAt(t, q, w)
    BY <1>0, <2>3 DEF RowsOf
  <2>7. StandsAt(t, p, v) <=> t[p] = c /\ p + 1 \in 0..n /\ StandsAt(t, p + 1, w)
    BY <1>0, StandsStep
  <2>8. t[p] = c => p + 1 \in 0..n
    BY <1>0 DEF Ended
  <2>9. p + 1 \in 0..n => q = p + 1
    BY <1>0, <2>4, PrevFacts
  <2> QED BY <2>4, <2>5, <2>6, <2>7, <2>8, <2>9
<1>3. ASSUME NEW r \in 0..n
      PROVE  P[r] \in x..(y - 1) <=> b[r] = c /\ r \in lo..(hi - 1)
  <2>1. /\ P[r] < x <=> r \in Above(b, n, c, lo)
        /\ P[r] < y <=> r \in Above(b, n, c, hi)
    BY <1>0, <1>1, CutRank DEF P, b
  <2>2. P[r] \in 0..n
    <3>1. P \in [0..n -> 0..n]
      BY <1>a, BackPermutes DEF P
    <3> QED BY <3>1
  <2>3. b[r] \in Nat
    <3>1. b \in [0..n -> Nat]
      BY <1>0, BwtType DEF b
    <3> QED BY <3>1
  <2>4. P[r] \in x..(y - 1) <=> ~(P[r] < x) /\ P[r] < y
    <3>1. x \in Nat /\ y \in Nat /\ P[r] \in Nat
      BY <1>1, <2>2
    <3> QED BY <3>1
  <2>5. r \in lo..(hi - 1) <=> ~(r < lo) /\ r < hi
    BY <1>0
  <2>6. /\ r \in Above(b, n, c, lo) <=> b[r] < c \/ (b[r] = c /\ r < lo)
        /\ r \in Above(b, n, c, hi) <=> b[r] < c \/ (b[r] = c /\ r < hi)
    BY DEF Above
  <2>7. ~(b[r] = c /\ b[r] < c)
    BY <1>0, <2>3
  <2> QED BY <2>1, <2>4, <2>5, <2>6, <2>7
<1>4. \A r \in 0..n : P[r] \in RowsOf(t, sa, v) <=> P[r] \in x..(y - 1)
  BY <1>2, <1>3
<1>5. \A z \in 0..n : \E r \in 0..n : P[r] = z
  <2>1. ASSUME NEW z \in 0..n PROVE \E r \in 0..n : P[r] = z
    BY <1>a, BackPermutes DEF P
  <2> QED BY <2>1
<1>6. \A z \in 0..n : z \in RowsOf(t, sa, v) <=> z \in x..(y - 1)
  BY <1>4, <1>5
<1>7. RowsOf(t, sa, v) \subseteq 0..n
  BY <1>0 DEF RowsOf
<1>8. x..(y - 1) \subseteq 0..n
  <2>1. n \in Nat /\ x \in 0..(n + 1) /\ y \in 0..(n + 1)
    BY <1>0, <1>1
  <2> QED BY <2>1
<1>9. RowsOf(t, sa, v) = x..(y - 1)
  BY <1>6, <1>7, <1>8
<1> QED BY <1>9 DEF x, y

\* Every row is one of the empty word.
LEMMA EmptyRows ==
    ASSUME NEW o, NEW t, NEW sa, Serves(o, t, sa), NEW w, Len(w) = 0
    PROVE  RowsOf(t, sa, w) = 0..o.text_len_
  BY DEF RowsOf, StandsAt, Serves, Sorted

\* The C table separates the rows by their first symbol.
LEMMA FirstRows ==
    ASSUME NEW o, NEW t, NEW sa, Serves(o, t, sa), NEW c \in 1..(o.sigma_ - 1),
           NEW v, Len(v) = 1, v[1] = c
    PROVE  LET end == IF c + 1 \in DOMAIN o.c_ THEN o.c_[c + 1] ELSE o.text_len_ + 1 IN
           /\ RowsOf(t, sa, v) = o.c_[c]..(end - 1)
           /\ o.c_[c] \in 0..(o.text_len_ + 1)
           /\ end \in 0..(o.text_len_ + 1)
<1> DEFINE n == o.text_len_
           b == Bwt(t, sa)
           end == IF c + 1 \in DOMAIN o.c_ THEN o.c_[c + 1] ELSE n + 1
<1>0. /\ Ended(t, n, o.sigma_) /\ Sorted(t, n, sa) /\ n \in Nat /\ o.sigma_ \in Nat
      /\ c \in 0..(o.sigma_ - 1) /\ c \in Nat /\ c + 1 \in Nat
      /\ 0 \in 0..(n + 1) /\ n + 1 \in 0..(n + 1) /\ (n + 1) - 1 = n
  BY DEF Serves, Ended
<1>1. b \in [0..n -> Nat] /\ \A r \in 0..n : b[r] \in 0..(o.sigma_ - 1)
  BY <1>0, BwtType
<1>2. DOMAIN o.c_ = 0..(o.sigma_ - 1) /\ o.c_ = CTable(b, o.sigma_)
  BY DEF Serves, CTable
<1> HIDE DEF n, b
<1>3. ASSUME NEW d \in 0..(o.sigma_ - 1) PROVE o.c_[d] = Cut(b, d, 0)
  <2>1. d \in Nat
    BY <1>0
  <2>2. /\ Cardinality({x \in DOMAIN b : b[x] < d}) \in Nat
        /\ o.c_[d] = Cardinality({x \in DOMAIN b : b[x] < d})
    <3>1. n \in Nat /\ b \in [0..n -> Nat] /\ 0 \in 0..(n + 1)
      BY <1>0, <1>1
    <3>2. Cardinality({x \in DOMAIN b : b[x] < d}) \in Nat
      BY <2>1, <3>1, CutCounts
    <3> QED BY <1>2, <3>2 DEF CTable
  <2>3. RankIn(b, d, 0) = 0
    <3>1. {j \in 0..(0 - 1) : b[j] = d} = {}
      OBVIOUS
    <3> QED BY <3>1, FS_EmptySet DEF RankIn
  <2> QED BY <2>2, <2>3 DEF Cut
<1>4. /\ Extend(o, c, 0) = Cut(b, c, 0) /\ Cut(b, c, 0) \in 0..(n + 1)
      /\ Extend(o, c, n + 1) = Cut(b, c, n + 1) /\ Cut(b, c, n + 1) \in 0..(n + 1)
  BY <1>0, ExtendIsCut DEF n, b
<1>5. Cut(b, c, n + 1) = end
  <2>1. Cut(b, c, n + 1) = Cardinality(Above(b, n, c, n + 1))
    <3>1. n \in Nat /\ b \in [0..n -> Nat] /\ c \in Nat /\ n + 1 \in 0..(n + 1)
      BY <1>0, <1>1
    <3> QED BY <3>1, CutCounts
  <2>2. CASE c + 1 \in 0..(o.sigma_ - 1)
    <3>1. o.c_[c + 1] = Cardinality(Above(b, n, c + 1, 0))
      <4>1. o.c_[c + 1] = Cut(b, c + 1, 0)
        BY <1>3, <2>2
      <4>2. n \in Nat /\ b \in [0..n -> Nat] /\ c + 1 \in Nat /\ 0 \in 0..(n + 1)
        BY <1>0, <1>1
      <4>3. Cut(b, c + 1, 0) = Cardinality(Above(b, n, c + 1, 0))
        BY <4>2, CutCounts
      <4> QED BY <4>1, <4>3
    <3>2. ASSUME NEW x \in 0..n
          PROVE  (b[x] < c \/ (b[x] = c /\ x < n + 1))
                   <=> (b[x] < c + 1 \/ (b[x] = c + 1 /\ x < 0))
      <4>1. b[x] \in Nat /\ x \in Nat
        BY <1>1
      <4> QED BY <1>0, <4>1
    <3>3. Above(b, n, c, n + 1) = Above(b, n, c + 1, 0)
      BY <3>2 DEF Above
    <3> QED BY <1>2, <2>1, <2>2, <3>1, <3>3
  <2>3. CASE c + 1 \notin 0..(o.sigma_ - 1)
    <3>1. c = o.sigma_ - 1
      BY <1>0, <2>3
    <3>2. ASSUME NEW x \in 0..n PROVE b[x] < c \/ (b[x] = c /\ x < n + 1)
      <4>1. b[x] \in 0..c /\ x \in Nat
        BY <1>1, <3>1
      <4> QED BY <1>0, <4>1
    <3>3. Above(b, n, c, n + 1) = 0..n
      BY <3>2 DEF Above
    <3>4. Cardinality(0..n) = n + 1
      BY <1>0, FS_Interval
    <3> QED BY <1>2, <2>1, <2>3, <3>3, <3>4
  <2> QED BY <2>2, <2>3
<1>6. RowsOf(t, sa, v) = Extend(o, c, 0)..(Extend(o, c, n + 1) - 1)
  <2> DEFINE w == <<>>
  <2>1. Len(w) = 0
    OBVIOUS
  <2> HIDE DEF w
  <2>2. RowsOf(t, sa, w) = 0..n
    BY <2>1, EmptyRows DEF n
  <2>3. Fronted(v, c, w)
    BY <2>1 DEF Fronted
  <2>4. RowsOf(t, sa, w) = 0..((n + 1) - 1)
    BY <1>0, <2>2
  <2> QED BY <1>0, <2>3, <2>4, ExtendRows DEF n
<1> HIDE DEF end
<1>7. /\ RowsOf(t, sa, v) = o.c_[c]..(end - 1)
      /\ o.c_[c] \in 0..(n + 1) /\ end \in 0..(n + 1)
  BY <1>0, <1>3, <1>4, <1>5, <1>6
<1> QED BY <1>7 DEF end, n

-----------------------------------------------------------------------------
(***************************************************************************)
(* The samples.                                                            *)
(***************************************************************************)
Below(rows, r) == {x \in rows : x < r}

\* The rows of a finite set are numbered by the ones below them.
LEMMA BelowOrder ==
    ASSUME NEW n \in Nat, NEW rows \in SUBSET (0..n), NEW r \in rows
    PROVE  /\ Cardinality(rows) \in Nat
           /\ Cardinality(Below(rows, r)) \in 0..(Cardinality(rows) - 1)
           /\ \A x \in rows : x < r => Cardinality(Below(rows, x)) < Cardinality(Below(rows, r))
<1>0. IsFiniteSet(rows) /\ Cardinality(rows) \in Nat
  <2>1. IsFiniteSet(0..n)
    BY FS_Interval
  <2>2. IsFiniteSet(rows)
    BY <2>1, FS_Subset
  <2> QED BY <2>2, FS_CardinalityType
<1>1. ASSUME NEW A \in SUBSET rows, NEW B \in SUBSET rows, NEW x \in B, x \notin A, A \subseteq B
      PROVE  /\ Cardinality(A) < Cardinality(B)
             /\ Cardinality(A) \in Nat /\ Cardinality(B) \in Nat
  <2>1. IsFiniteSet(B)
    BY <1>0, FS_Subset
  <2>2. A \in SUBSET B
    BY <1>1
  <2>3. /\ IsFiniteSet(A) /\ Cardinality(A) <= Cardinality(B)
        /\ Cardinality(B) = Cardinality(A) => B = A
    BY <2>1, <2>2, FS_Subset
  <2>4. Cardinality(A) \in Nat /\ Cardinality(B) \in Nat
    BY <2>1, <2>3, FS_CardinalityType
  <2> QED BY <1>1, <2>3, <2>4
<1>2. \A x \in rows : x \in Nat /\ ~(x < x)
  OBVIOUS
<1>3. Cardinality(Below(rows, r)) < Cardinality(rows) /\ Cardinality(Below(rows, r)) \in Nat
  <2>1. /\ Below(rows, r) \in SUBSET rows /\ rows \in SUBSET rows
        /\ r \notin Below(rows, r) /\ Below(rows, r) \subseteq rows
    BY <1>2 DEF Below
  <2> QED BY <1>1, <2>1
<1>4. ASSUME NEW x \in rows, x < r
      PROVE  Cardinality(Below(rows, x)) < Cardinality(Below(rows, r))
  <2>1. /\ Below(rows, x) \in SUBSET rows /\ Below(rows, r) \in SUBSET rows
        /\ x \in Below(rows, r) /\ x \notin Below(rows, x)
    BY <1>2, <1>4 DEF Below
  <2>2. Below(rows, x) \subseteq Below(rows, r)
    <3>1. \A z \in rows : z < x => z < r
      BY <1>2, <1>4
    <3> QED BY <3>1 DEF Below
  <2> QED BY <1>1, <2>1, <2>2
<1>5. Cardinality(Below(rows, r)) \in 0..(Cardinality(rows) - 1)
  BY <1>0, <1>3
<1> QED BY <1>0, <1>4, <1>5

\* The value of a sampled row, found by the number of sampled rows above it, is
\* its entry of the suffix array.
LEMMA SampleFound ==
    ASSUME NEW n \in Nat, NEW rows \in SUBSET (0..n), NEW r \in rows, NEW sa
    PROVE  SampleVals(sa, rows)[Cardinality(Below(rows, r))] = sa[r]
<1> DEFINE k == Cardinality(Below(rows, r))
           x == CHOOSE x \in rows : Cardinality(Below(rows, x)) = k
<1>1. k \in 0..(Cardinality(rows) - 1)
  BY BelowOrder
<1>2. x \in rows /\ Cardinality(Below(rows, x)) = k
  OBVIOUS
<1>3. SampleVals(sa, rows)[k] = sa[x]
  BY <1>1 DEF SampleVals, Below
<1> HIDE DEF x
<1>4. x = r
  <2>1. k \in Nat /\ x \in Nat /\ r \in Nat
    BY <1>1, <1>2
  <2>2. r < x => Cardinality(Below(rows, r)) < Cardinality(Below(rows, x))
    BY <1>2, BelowOrder
  <2>3. x < r => Cardinality(Below(rows, x)) < Cardinality(Below(rows, r))
    BY <1>2, BelowOrder
  <2> HIDE DEF k
  <2>4. ~(k < k)
    BY <2>1
  <2>5. ~(r < x) /\ ~(x < r)
    BY <1>2, <2>2, <2>3, <2>4 DEF k
  <2> QED BY <2>1, <2>5
<1> QED BY <1>3, <1>4

\* The samples of the object are those of the suffix array.
Sampled(o, sa) ==
    /\ o.sa_sample_rate_ \in Nat \ {0}
    /\ o.sampled_bv_ = SampledRows(sa, o.sa_sample_rate_)
    /\ o.sv_ = SampleVals(sa, o.sampled_bv_)

\* A row is sampled exactly if its position is a multiple of the rate, and the
\* sample is the position.
LEMMA SampleIsPosition ==
    ASSUME NEW o, NEW t, NEW sa, Serves(o, t, sa), Sampled(o, sa), NEW r \in 0..o.text_len_
    PROVE  /\ r \in o.sampled_bv_ <=> sa[r] % o.sa_sample_rate_ = 0
           /\ r \in o.sampled_bv_ => SampleVal(o, r) = sa[r]
<1> DEFINE n == o.text_len_
           rows == o.sampled_bv_
<1>1. n \in Nat /\ DOMAIN sa = 0..n /\ r \in 0..n
  BY DEF Serves, Ended, Sorted
<1>2. rows = {x \in 0..n : sa[x] % o.sa_sample_rate_ = 0}
  BY <1>1 DEF Sampled, SampledRows
<1>3. rows \in SUBSET (0..n)
  BY <1>2
<1>4. o.sv_ = SampleVals(sa, rows)
  BY DEF Sampled
<1>5. ASSUME r \in rows PROVE SampleVal(o, r) = sa[r]
  <2>1. SampleVals(sa, rows)[Cardinality(Below(rows, r))] = sa[r]
    BY <1>1, <1>3, <1>5, SampleFound
  <2> QED BY <1>4, <2>1 DEF SampleVal, Below
<1> QED BY <1>1, <1>2, <1>5

-----------------------------------------------------------------------------
(***************************************************************************)
(* The text of a list of documents.                                        *)
(***************************************************************************)

\* f lists the bounds of the first m documents.
Bounding(f, docs, m) ==
    f = [d \in 0..m |-> IF d = 0 THEN 0 ELSE f[d - 1] + Len(docs[d]) + 1]

\* The recursive definition of the bounds defines a function.
LEMMA BoundsExist ==
    ASSUME NEW docs, Len(docs) \in Nat
    PROVE  Bounding(DocBounds(docs), docs, Len(docs))
<1> DEFINE T == {m \in Nat : \E f : Bounding(f, docs, m)}
<1>1. 0 \in T
  <2>1. Bounding([d \in 0..0 |-> 0], docs, 0)
    BY DEF Bounding
  <2> QED BY <2>1
<1>2. ASSUME NEW m \in Nat, m \in T PROVE m + 1 \in T
  <2>1. PICK f : Bounding(f, docs, m)
    BY <1>2
  <2> DEFINE g == [d \in 0..(m + 1) |-> IF d = m + 1 THEN f[m] + Len(docs[m + 1]) + 1 ELSE f[d]]
  <2>2. ASSUME NEW d \in 0..(m + 1)
        PROVE  g[d] = IF d = 0 THEN 0 ELSE g[d - 1] + Len(docs[d]) + 1
    <3>1. CASE d = m + 1
      BY <3>1
    <3>2. CASE d # m + 1
      <4>1. d \in 0..m /\ g[d] = f[d]
        BY <3>2
      <4>2. f[d] = IF d = 0 THEN 0 ELSE f[d - 1] + Len(docs[d]) + 1
        BY <2>1, <4>1 DEF Bounding
      <4>3. d # 0 => g[d - 1] = f[d - 1]
        BY <4>1
      <4> QED BY <4>1, <4>2, <4>3
    <3> QED BY <3>1, <3>2
  <2>3. g = [d \in 0..(m + 1) |-> g[d]]
    OBVIOUS
  <2> HIDE DEF g
  <2>4. Bounding(g, docs, m + 1)
    BY <2>2, <2>3 DEF Bounding
  <2> QED BY <2>4
<1> HIDE DEF T
<1>3. \A m \in Nat : m \in T
  BY <1>1, <1>2, NatSet
<1>4. \E f : Bounding(f, docs, Len(docs))
  BY <1>3 DEF T
<1> QED BY <1>4 DEF Bounding, DocBounds

\* The documents follow each other, with a separator after each.
LEMMA BoundsFacts ==
    ASSUME NEW docs \in Seq(Seq(Bytes))
    PROVE  /\ DocBounds(docs) \in [0..Len(docs) -> Nat]
           /\ DocBounds(docs)[0] = 0
           /\ \A d \in 1..Len(docs) :
                DocBounds(docs)[d] = DocBounds(docs)[d - 1] + Len(docs[d]) + 1
           /\ \A d, e \in 0..Len(docs) : d < e => DocBounds(docs)[d] < DocBounds(docs)[e]
<1> DEFINE B == DocBounds(docs)
           D == Len(docs)
           L(d) == Len(docs[d])
<1>1. D \in Nat /\ \A d \in 1..D : L(d) \in Nat
  <2>1. D \in Nat
    OBVIOUS
  <2>2. ASSUME NEW d \in 1..D PROVE L(d) \in Nat
    <3>1. docs[d] \in Seq(Bytes)
      OBVIOUS
    <3> QED BY <3>1
  <2> QED BY <2>1, <2>2
<1>2. B = [d \in 0..D |-> IF d = 0 THEN 0 ELSE B[d - 1] + L(d) + 1]
  BY <1>1, BoundsExist DEF Bounding
<1> HIDE DEF B, D, L
<1>3. B[0] = 0
  BY <1>1, <1>2
<1>4. \A d \in 1..D : B[d] = B[d - 1] + L(d) + 1
  BY <1>1, <1>2
<1>5. \A d \in 0..D : B[d] \in Nat
  <2> DEFINE T == {m \in Nat : m <= D => B[m] \in Nat}
  <2>1. 0 \in T
    BY <1>3
  <2>2. ASSUME NEW m \in Nat, m \in T PROVE m + 1 \in T
    <3> SUFFICES ASSUME m + 1 <= D PROVE B[m + 1] \in Nat
      OBVIOUS
    <3>1. m + 1 \in 1..D /\ (m + 1) - 1 = m /\ m <= D
      BY <1>1
    <3>2. B[m] \in Nat /\ L(m + 1) \in Nat
      BY <1>1, <2>2, <3>1
    <3>3. B[m + 1] = B[m] + L(m + 1) + 1
      BY <1>4, <3>1
    <3> QED BY <3>2, <3>3
  <2> HIDE DEF T
  <2>3. \A m \in Nat : m \in T
    BY <2>1, <2>2, NatSet
  <2> QED BY <1>1, <2>3 DEF T
<1>6. B \in [0..D -> Nat]
  BY <1>2, <1>5
<1>7. \A d, e \in 0..D : d < e => B[d] < B[e]
  <2> DEFINE T == {m \in Nat : m <= D => \A d \in 0..D : d < m => B[d] < B[m]}
  <2>1. 0 \in T
    BY <1>1
  <2>2. ASSUME NEW m \in Nat, m \in T PROVE m + 1 \in T
    <3> SUFFICES ASSUME m + 1 <= D, NEW d \in 0..D, d < m + 1 PROVE B[d] < B[m + 1]
      OBVIOUS
    <3>1. m + 1 \in 1..D /\ (m + 1) - 1 = m /\ m \in 0..D
      BY <1>1
    <3>2. B[m + 1] = B[m] + L(m + 1) + 1
      BY <1>4, <3>1
    <3>3. B[m] \in Nat /\ L(m + 1) \in Nat /\ B[d] \in Nat
      BY <1>1, <1>5, <3>1
    <3>4. B[m] < B[m + 1]
      BY <3>2, <3>3
    <3>5. CASE d = m
      BY <3>4, <3>5
    <3>6. CASE d # m
      <4>1. d < m /\ m <= D
        BY <3>6, <1>1
      <4>2. B[d] < B[m]
        BY <2>2, <4>1
      <4> QED BY <3>2, <3>3, <4>2
    <3> QED BY <3>5, <3>6
  <2> HIDE DEF T
  <2>3. \A m \in Nat : m \in T
    BY <2>1, <2>2, NatSet
  <2> QED BY <1>1, <2>3 DEF T
<1> QED BY <1>3, <1>4, <1>6, <1>7 DEF B, D, L

\* docOf finds the document of a position.
LEMMA DocFound ==
    ASSUME NEW docs \in Seq(Seq(Bytes)), NEW p \in Nat, p < DocBounds(docs)[Len(docs)]
    PROVE  LET d == DocOf(DocBounds(docs), p) IN
           /\ d \in 0..(Len(docs) - 1)
           /\ DocBounds(docs)[d] <= p
           /\ p < DocBounds(docs)[d + 1]
<1> DEFINE B == DocBounds(docs)
           D == Len(docs)
           S == {d \in DOMAIN B : B[d] <= p}
           K == Cardinality(S)
<1>1. /\ D \in Nat /\ B \in [0..D -> Nat] /\ B[0] = 0
      /\ \A d, e \in 0..D : d < e => B[d] < B[e]
      /\ p < B[D]
  BY BoundsFacts
<1>2. DocOf(B, p) = K - 1
  BY DEF DocOf
<1> HIDE DEF B, D
<1>3. S \in SUBSET (0..D)
  BY <1>1
<1>4. ASSUME NEW x \in S, NEW y \in 0..D, y < x PROVE y \in S
  <2>1. x \in 0..D /\ B[x] <= p /\ B[y] < B[x] /\ B[x] \in Nat /\ B[y] \in Nat
    BY <1>1, <1>4
  <2>2. B[y] <= p
    BY <2>1
  <2> QED BY <1>1, <2>2
<1>5. 0 \in S /\ D \notin S
  <2>1. B[D] \in Nat /\ ~(B[D] <= p)
    BY <1>1
  <2> QED BY <1>1, <2>1
<1>6. \A x \in 0..D : x \in S <=> B[x] <= p
  BY <1>1
<1> HIDE DEF S
<1>7. K \in 0..(D + 1) /\ S = 0..(K - 1)
  BY <1>1, <1>3, <1>4, Segment
<1> HIDE DEF K
<1>8. K - 1 \in 0..(D - 1) /\ (K - 1) + 1 = K
  BY <1>1, <1>5, <1>7
<1>9. K - 1 \in S /\ K \notin S /\ K \in 0..D /\ K - 1 \in 0..D
  BY <1>1, <1>7, <1>8
<1>10. B[K - 1] <= p /\ ~(B[K] <= p)
  BY <1>6, <1>9
<1>11. B[K] \in Nat
  BY <1>1, <1>9
<1>12. p < B[(K - 1) + 1]
  BY <1>8, <1>10, <1>11
<1> QED BY <1>2, <1>8, <1>10, <1>12 DEF B, D

\* Folding a byte gives a byte.
LEMMA FoldType ==
    ASSUME NEW cf \in BOOLEAN, NEW x \in Bytes
    PROVE  Fold(cf, x) \in Bytes
<1>1. /\ ByteMax \in Nat /\ UpperLo \in Nat /\ UpperHi \in Nat /\ CaseShift \in Nat
      /\ UpperHi + CaseShift <= ByteMax
  BY ByteAssumption
<1>2. x \in UpperLo..UpperHi => x + CaseShift \in 0..ByteMax
  BY <1>1 DEF Bytes
<1> QED BY <1>2 DEF Fold, IsUpper, Bytes

\* The bytes of the corpus have the ids from 2 on, and the others none.
LEMMA AlphabetFacts ==
    ASSUME NEW docs \in Seq(Seq(Bytes)), NEW cf \in BOOLEAN
    PROVE  /\ Sigma(docs, cf) \in Nat /\ Sigma(docs, cf) >= 2
           /\ \A x \in Bytes : \/ ByteToId(docs, cf)[x] = -1
                               \/ ByteToId(docs, cf)[x] \in 2..(Sigma(docs, cf) - 1)
           /\ \A d \in 1..Len(docs) : \A j \in 1..Len(docs[d]) :
                /\ docs[d][j] \in Bytes
                /\ ByteToId(docs, cf)[docs[d][j]] \in 2..(Sigma(docs, cf) - 1)
<1> DEFINE P == Present(docs, cf)
           sigma == Sigma(docs, cf)
           b2i == ByteToId(docs, cf)
<1>1. ASSUME NEW d \in 1..Len(docs), NEW j \in 1..Len(docs[d])
      PROVE  docs[d][j] \in Bytes /\ Fold(cf, docs[d][j]) \in P
  <2>1. docs[d] \in Seq(Bytes)
    OBVIOUS
  <2>2. docs[d][j] \in Bytes
    BY <2>1
  <2>3. Fold(cf, docs[d][j]) \in P
    BY DEF Present
  <2> QED BY <2>2, <2>3
<1>2. P \in SUBSET (0..ByteMax)
  <2> SUFFICES ASSUME NEW y \in P PROVE y \in Bytes
    BY DEF Bytes
  <2>1. PICK d \in 1..Len(docs) : y \in {Fold(cf, docs[d][j]) : j \in 1..Len(docs[d])}
    BY DEF Present
  <2>2. PICK j \in 1..Len(docs[d]) : y = Fold(cf, docs[d][j])
    BY <2>1
  <2>3. docs[d][j] \in Bytes
    BY <1>1
  <2> QED BY <2>2, <2>3, FoldType
<1>3. ByteMax \in Nat
  BY ByteAssumption
<1>4. sigma = 2 + Cardinality(P)
  BY DEF Sigma
<1> HIDE DEF P, sigma
<1>5. Cardinality(P) \in Nat
  <2>1. IsFiniteSet(0..ByteMax)
    BY <1>3, FS_Interval
  <2>2. IsFiniteSet(P)
    BY <1>2, <2>1, FS_Subset
  <2> QED BY <2>2, FS_CardinalityType
<1>6. ASSUME NEW x \in P PROVE 2 + Cardinality(Below(P, x)) \in 2..(sigma - 1)
  <2>1. Cardinality(Below(P, x)) \in 0..(Cardinality(P) - 1)
    BY <1>2, <1>3, BelowOrder
  <2> QED BY <1>4, <1>5, <2>1
<1>7. ASSUME NEW x \in Bytes
      PROVE  b2i[x] = IF Fold(cf, x) \in P THEN 2 + Cardinality(Below(P, Fold(cf, x))) ELSE -1
  BY DEF ByteToId, P, Below
<1> HIDE DEF b2i
<1>8. ASSUME NEW x \in Bytes
      PROVE  /\ b2i[x] = -1 \/ b2i[x] \in 2..(sigma - 1)
             /\ Fold(cf, x) \in P => b2i[x] \in 2..(sigma - 1)
  <2>1. CASE Fold(cf, x) \in P
    BY <1>6, <1>7, <2>1
  <2>2. CASE Fold(cf, x) \notin P
    BY <1>7, <2>2
  <2> QED BY <2>1, <2>2
<1>9. sigma \in Nat /\ sigma >= 2
  BY <1>4, <1>5
<1>10. ASSUME NEW d \in 1..Len(docs), NEW j \in 1..Len(docs[d])
       PROVE  docs[d][j] \in Bytes /\ b2i[docs[d][j]] \in 2..(sigma - 1)
  <2>1. PICK x \in Bytes : x = docs[d][j]
    BY <1>1
  <2>2. Fold(cf, x) \in P
    BY <1>1, <2>1
  <2> QED BY <1>8, <2>1, <2>2
<1> QED BY <1>8, <1>9, <1>10 DEF sigma, b2i

\* The symbol text ends with its only sentinel.
LEMMA SymbolTextEnded ==
    ASSUME NEW docs \in Seq(Seq(Bytes)), NEW cf \in BOOLEAN
    PROVE  Ended(SymbolText(docs, ByteToId(docs, cf)), DocBounds(docs)[Len(docs)],
                 Sigma(docs, cf))
<1> DEFINE B == DocBounds(docs)
           n == B[Len(docs)]
           b2i == ByteToId(docs, cf)
           sigma == Sigma(docs, cf)
           t == SymbolText(docs, b2i)
           sym(p) == LET d == DocOf(B, p)
                         off == p - B[d]
                     IN IF off < Len(docs[d + 1]) THEN b2i[docs[d + 1][off + 1]] ELSE 1
<1>1. n \in Nat
  <2>1. B \in [0..Len(docs) -> Nat] /\ Len(docs) \in 0..Len(docs)
    BY BoundsFacts
  <2> HIDE DEF B
  <2> QED BY <2>1
<1>2. t = [p \in 0..n |-> IF p = n THEN 0 ELSE sym(p)]
  BY DEF SymbolText
<1>3. sigma \in Nat /\ sigma >= 2
  BY AlphabetFacts
<1>4. ASSUME NEW p \in 0..n, p # n PROVE sym(p) \in 1..(sigma - 1)
  <2> DEFINE d == DocOf(B, p)
             off == p - B[d]
  <2>1. p \in Nat /\ p < n
    BY <1>1, <1>4
  <2>2. d \in 0..(Len(docs) - 1) /\ B[d] <= p
    BY <2>1, DocFound
  <2>3. Len(docs) \in Nat /\ d + 1 \in 1..Len(docs) /\ d \in 0..Len(docs)
    <3>1. Len(docs) \in Nat
      OBVIOUS
    <3> HIDE DEF d
    <3> QED BY <2>2, <3>1
  <2>4. B[d] \in Nat
    <3>1. B \in [0..Len(docs) -> Nat]
      BY BoundsFacts
    <3> HIDE DEF B, d
    <3> QED BY <2>3, <3>1
  <2> HIDE DEF d
  <2>5. CASE off < Len(docs[d + 1])
    <3>1. PICK e \in 1..Len(docs) : e = d + 1
      BY <2>3
    <3>2. docs[e] \in Seq(Bytes) /\ Len(docs[e]) \in Nat
      OBVIOUS
    <3>3. PICK j \in 1..Len(docs[e]) : j = off + 1
      <4>1. off \in Nat /\ off < Len(docs[e])
        BY <2>1, <2>2, <2>4, <2>5, <3>1
      <4> HIDE DEF off
      <4> QED BY <3>2, <4>1
    <3>4. b2i[docs[e][j]] \in 2..(sigma - 1)
      BY AlphabetFacts
    <3>5. sym(p) = b2i[docs[e][j]]
      BY <2>5, <3>1, <3>3 DEF d
    <3> HIDE DEF sym, b2i, sigma
    <3> QED BY <1>3, <3>4, <3>5
  <2>6. CASE ~(off < Len(docs[d + 1]))
    <3>1. sym(p) = 1
      BY <2>6 DEF d
    <3> HIDE DEF sym
    <3> QED BY <1>3, <3>1
  <2> QED BY <2>5, <2>6
<1> HIDE DEF sym, t, n, sigma, B, b2i
<1>5. ASSUME NEW p \in 0..n PROVE t[p] \in 0..(sigma - 1) /\ (t[p] = 0 <=> p = n)
  <2>1. CASE p = n
    BY <1>2, <1>3, <2>1
  <2>2. CASE p # n
    <3>1. t[p] \in 1..(sigma - 1)
      BY <1>2, <1>4, <2>2
    <3> QED BY <2>2, <3>1
  <2> QED BY <2>1, <2>2
<1>6. t \in [0..n -> 0..(sigma - 1)]
  BY <1>2, <1>5
<1>7. Ended(t, n, sigma)
  BY <1>1, <1>3, <1>5, <1>6 DEF Ended
<1> QED BY <1>7 DEF t, n, sigma, B, b2i

-----------------------------------------------------------------------------
(***************************************************************************)
(* The object that a Build leaves.                                         *)
(***************************************************************************)

\* The text that Build indexes, and its suffix array.
TextOf(docs, cf) == SymbolText(docs, ByteToId(docs, cf))
ArrayOf(docs, cf) == SuffixArray(TextOf(docs, cf))

\* It serves the text of the documents.
LEMMA BuiltServes ==
    ASSUME NEW docs \in Seq(Seq(Bytes)), NEW cf \in BOOLEAN, NEW rate \in Nat \ {0}
    PROVE  /\ Serves(Built(docs, cf, rate), TextOf(docs, cf), ArrayOf(docs, cf))
           /\ Sampled(Built(docs, cf, rate), ArrayOf(docs, cf))
<1> DEFINE o == Built(docs, cf, rate)
           t == TextOf(docs, cf)
           sa == ArrayOf(docs, cf)
<1>1. /\ o.text_len_ = DocBounds(docs)[Len(docs)]
      /\ o.sigma_ = Sigma(docs, cf)
      /\ o.byte_to_id_ = ByteToId(docs, cf)
      /\ o.sa_sample_rate_ = rate
  BY DEF Built
<1>2. /\ o.wm_ = Bwt(t, sa)
      /\ o.c_ = CTable(Bwt(t, sa), o.sigma_)
      /\ o.first_ = Starts(Bwt(t, sa), o.sigma_, o.qlevels_)
  BY DEF Built, TextOf, ArrayOf
<1>3. /\ o.sampled_bv_ = SampledRows(sa, o.sa_sample_rate_)
      /\ o.sv_ = SampleVals(sa, o.sampled_bv_)
  BY DEF Built, TextOf, ArrayOf
<1> HIDE DEF o
<1>4. Ended(t, o.text_len_, o.sigma_)
  BY <1>1, SymbolTextEnded DEF TextOf
<1>5. Sorted(t, o.text_len_, sa)
  BY <1>4, SuffixArraySorts DEF ArrayOf
<1> HIDE DEF t, sa
<1>6. /\ o.sigma_ >= 2
      /\ \A x \in Bytes : \/ o.byte_to_id_[x] = -1
                          \/ o.byte_to_id_[x] \in 2..(o.sigma_ - 1)
  BY <1>1, AlphabetFacts
<1>7. \A x \in Bytes : \/ o.byte_to_id_[x] \in Int /\ o.byte_to_id_[x] < 0
                       \/ o.byte_to_id_[x] \in 2..(o.sigma_ - 1)
  BY <1>6
<1>8. Serves(o, t, sa)
  BY <1>2, <1>4, <1>5, <1>6, <1>7 DEF Serves
<1>9. Sampled(o, sa)
  BY <1>1, <1>3 DEF Sampled
<1> QED BY <1>8, <1>9 DEF o, t, sa

-----------------------------------------------------------------------------
(***************************************************************************)
(* Documents and the text: where a document lies in the text, and what its *)
(* bytes are there.                                                        *)
(***************************************************************************)

\* A symbol of the text by its document and its offset there.
LEMMA DocText ==
    ASSUME NEW docs \in Seq(Seq(Bytes)), NEW b2i, NEW d \in 0..(Len(docs) - 1),
           NEW off \in 0..Len(docs[d + 1])
    PROVE  LET B == DocBounds(docs)
               p == B[d] + off
           IN /\ p \in Nat /\ p < B[Len(docs)] /\ p < B[d + 1]
              /\ B[d] \in Nat /\ B[d + 1] = B[d] + Len(docs[d + 1]) + 1
              /\ DocOf(B, p) = d
              /\ SymbolText(docs, b2i)[p]
                   = IF off < Len(docs[d + 1]) THEN b2i[docs[d + 1][off + 1]] ELSE 1
<1> DEFINE B == DocBounds(docs)
           p == B[d] + off
           D == Len(docs)
           L == Len(docs[d + 1])
           e == DocOf(B, p)
<1>1. /\ B \in [0..D -> Nat] /\ B[0] = 0
      /\ \A x \in 1..D : B[x] = B[x - 1] + Len(docs[x]) + 1
      /\ \A x, y \in 0..D : x < y => B[x] < B[y]
  BY BoundsFacts
<1>2. D \in Nat /\ d + 1 \in 1..D /\ d \in 0..D /\ (d + 1) - 1 = d
  OBVIOUS
<1>3. docs[d + 1] \in Seq(Bytes)
  BY <1>2
<1>4. L \in Nat
  BY <1>3
<1>5. B[d] \in Nat /\ B[d + 1] \in Nat /\ B[D] \in Nat /\ B[d + 1] = B[d] + L + 1
  <2>1. B[d + 1] = B[(d + 1) - 1] + Len(docs[d + 1]) + 1
    BY <1>1, <1>2
  <2>2. d + 1 \in 0..D /\ D \in 0..D
    BY <1>2
  <2> QED BY <1>1, <1>2, <2>1, <2>2
<1>6. B[d + 1] <= B[D]
  <2>1. CASE d + 1 = D
    BY <1>5, <2>1
  <2>2. CASE d + 1 # D
    <3>1. d + 1 < D /\ d + 1 \in 0..D /\ D \in 0..D
      BY <1>2, <2>2
    <3>2. B[d + 1] < B[D]
      BY <1>1, <3>1
    <3> QED BY <1>5, <3>2
  <2> QED BY <2>1, <2>2
<1>7. p \in Nat /\ p < B[D] /\ p < B[d + 1] /\ B[d] <= p
  <2>1. off \in Nat /\ off <= L /\ L \in Nat
    BY <1>4
  <2>2. PICK x \in Nat, y \in Nat, z \in Nat, m \in Nat :
          x = B[d] /\ y = B[d + 1] /\ z = B[D] /\ m = L
    BY <1>4, <1>5
  <2>3. y = x + m + 1 /\ y <= z /\ off <= m
    BY <1>5, <1>6, <2>1, <2>2
  <2>4. x + off \in Nat /\ x + off < z /\ x + off < y /\ x <= x + off
    BY <2>1, <2>3
  <2> QED BY <2>2, <2>4
<1> HIDE DEF B, p
<1>8. e \in 0..(D - 1) /\ B[e] <= p /\ p < B[e + 1]
  BY <1>7, DocFound DEF B, e
<1>9. e = d
  <2> HIDE DEF e
  <2>1. B[e] \in Nat /\ B[e + 1] \in Nat /\ e \in Nat /\ d \in Nat
    <3>1. e \in 0..D /\ e + 1 \in 0..D /\ e \in Nat /\ d \in Nat
      BY <1>2, <1>8
    <3> QED BY <1>1, <3>1
  <2>2. CASE e < d
    <3>1. e + 1 = d \/ e + 1 < d
      BY <2>1, <2>2
    <3>2. e + 1 \in 0..D
      BY <1>8
    <3>3. e + 1 < d => B[e + 1] < B[d]
      BY <1>1, <1>2, <3>2
    <3> QED BY <1>5, <1>7, <1>8, <2>1, <3>1, <3>3
  <2>3. CASE d < e
    <3>1. d + 1 = e \/ d + 1 < e
      BY <2>1, <2>3
    <3>2. d + 1 \in 0..D /\ e \in 0..D
      BY <1>2, <1>8
    <3>3. d + 1 < e => B[d + 1] < B[e]
      BY <1>1, <3>2
    <3> QED BY <1>5, <1>7, <1>8, <2>1, <3>1, <3>3
  <2> QED BY <2>1, <2>2, <2>3
<1>10. p - B[d] = off
  BY <1>5 DEF p
<1>11. SymbolText(docs, b2i)[p] = IF off < L THEN b2i[docs[d + 1][off + 1]] ELSE 1
  <2>1. p \in 0..B[D] /\ p # B[D]
    BY <1>5, <1>7
  <2>2. SymbolText(docs, b2i)[p]
          = IF p - B[e] < Len(docs[e + 1]) THEN b2i[docs[e + 1][(p - B[e]) + 1]] ELSE 1
    BY <2>1 DEF SymbolText, B, e
  <2> QED BY <1>9, <1>10, <2>2
<1> QED BY <1>5, <1>7, <1>9, <1>11 DEF B, p, e

\* Every position but that of the sentinel has a document and an offset in it.
LEMMA DocCoord ==
    ASSUME NEW docs \in Seq(Seq(Bytes)), NEW p \in Nat, p < DocBounds(docs)[Len(docs)]
    PROVE  LET d == DocOf(DocBounds(docs), p) IN
           /\ d \in 0..(Len(docs) - 1)
           /\ DocBounds(docs)[d] \in Nat
           /\ p - DocBounds(docs)[d] \in 0..Len(docs[d + 1])
           /\ p = DocBounds(docs)[d] + (p - DocBounds(docs)[d])
<1> DEFINE B == DocBounds(docs)
           d == DocOf(B, p)
           D == Len(docs)
<1>1. /\ B \in [0..D -> Nat]
      /\ \A x \in 1..D : B[x] = B[x - 1] + Len(docs[x]) + 1
  BY BoundsFacts
<1>2. d \in 0..(D - 1) /\ B[d] <= p /\ p < B[d + 1]
  BY DocFound
<1> HIDE DEF d, B
<1>3. D \in Nat /\ d + 1 \in 1..D /\ d \in 0..D /\ (d + 1) - 1 = d
  BY <1>2
<1>4. docs[d + 1] \in Seq(Bytes) /\ Len(docs[d + 1]) \in Nat
  BY <1>3
<1>5. B[d] \in Nat /\ B[d + 1] = B[d] + Len(docs[d + 1]) + 1
  BY <1>1, <1>3
<1>6. p - B[d] \in 0..Len(docs[d + 1]) /\ p = B[d] + (p - B[d])
  <2>1. PICK x \in Nat, m \in Nat : x = B[d] /\ m = Len(docs[d + 1])
    BY <1>4, <1>5
  <2>2. x <= p /\ p < x + m + 1
    BY <1>2, <1>5, <2>1
  <2>3. p - x \in 0..m /\ p = x + (p - x)
    BY <2>2
  <2> QED BY <2>1, <2>3
<1> QED BY <1>2, <1>5, <1>6 DEF d, B

\* The bytes of the documents, folded, are the ones present.
LEMMA PresentFacts ==
    ASSUME NEW docs \in Seq(Seq(Bytes)), NEW cf \in BOOLEAN
    PROVE  /\ Present(docs, cf) \in SUBSET (0..ByteMax)
           /\ \A d \in 1..Len(docs) : \A j \in 1..Len(docs[d]) :
                docs[d][j] \in Bytes /\ Fold(cf, docs[d][j]) \in Present(docs, cf)
<1> DEFINE P == Present(docs, cf)
<1>1. ASSUME NEW d \in 1..Len(docs), NEW j \in 1..Len(docs[d])
      PROVE  docs[d][j] \in Bytes /\ Fold(cf, docs[d][j]) \in P
  <2>1. docs[d] \in Seq(Bytes)
    OBVIOUS
  <2>2. docs[d][j] \in Bytes
    BY <2>1
  <2>3. Fold(cf, docs[d][j]) \in P
    BY DEF Present
  <2> QED BY <2>2, <2>3
<1>2. P \in SUBSET (0..ByteMax)
  <2> SUFFICES ASSUME NEW y \in P PROVE y \in Bytes
    BY DEF Bytes
  <2>1. PICK d \in 1..Len(docs) : y \in {Fold(cf, docs[d][j]) : j \in 1..Len(docs[d])}
    BY DEF Present
  <2>2. PICK j \in 1..Len(docs[d]) : y = Fold(cf, docs[d][j])
    BY <2>1
  <2>3. docs[d][j] \in Bytes
    BY <1>1
  <2> QED BY <2>2, <2>3, FoldType
<1> QED BY <1>1, <1>2

\* Two bytes, of which one is in the corpus, have the same id if and only if
\* the fold makes them equal.
LEMMA SameId ==
    ASSUME NEW docs \in Seq(Seq(Bytes)), NEW cf \in BOOLEAN, NEW x \in Bytes, NEW y \in Bytes,
           Fold(cf, y) \in Present(docs, cf)
    PROVE  ByteToId(docs, cf)[x] = ByteToId(docs, cf)[y] <=> Fold(cf, x) = Fold(cf, y)
<1> DEFINE P == Present(docs, cf)
           b2i == ByteToId(docs, cf)
           B(z) == Cardinality(Below(P, z))
<1>1. P \in SUBSET (0..ByteMax) /\ ByteMax \in Nat
  BY PresentFacts, ByteAssumption
<1>2. ASSUME NEW z \in Bytes
      PROVE  b2i[z] = IF Fold(cf, z) \in P THEN 2 + B(Fold(cf, z)) ELSE -1
  BY DEF ByteToId, Below
<1> HIDE DEF P, b2i
<1>3. ASSUME NEW z \in P PROVE B(z) \in Nat /\ \A v \in P : v < z => B(v) < B(z)
  <2>1. B(z) \in 0..(Cardinality(P) - 1) /\ Cardinality(P) \in Nat
    BY <1>1, BelowOrder
  <2>2. \A v \in P : v < z => B(v) < B(z)
    BY <1>1, BelowOrder
  <2> QED BY <2>1, <2>2
<1> HIDE DEF B
<1>4. PICK v \in P : v = Fold(cf, y)
  BY DEF P
<1>5. b2i[y] = 2 + B(v)
  BY <1>2, <1>4
<1>6. CASE Fold(cf, x) \notin P
  <2>1. b2i[x] = -1
    BY <1>2, <1>6
  <2>2. 2 + B(v) # -1
    BY <1>3
  <2> QED BY <1>4, <1>5, <1>6, <2>1, <2>2 DEF b2i
<1>7. CASE Fold(cf, x) \in P
  <2>1. PICK u \in P : u = Fold(cf, x)
    BY <1>7
  <2>2. b2i[x] = 2 + B(u)
    BY <1>2, <1>7, <2>1
  <2>3. B(u) \in Nat /\ B(v) \in Nat /\ u \in Nat /\ v \in Nat
    BY <1>1, <1>3
  <2>4. u < v => B(u) < B(v)
    BY <1>3
  <2>5. v < u => B(v) < B(u)
    BY <1>3
  <2>6. 2 + B(u) = 2 + B(v) <=> u = v
    BY <2>3, <2>4, <2>5
  <2> QED BY <1>4, <1>5, <2>1, <2>2, <2>6 DEF b2i
<1> QED BY <1>6, <1>7

\* The fold sends a byte to the largest of those it makes equal.
LEMMA FoldLargest ==
    ASSUME NEW cf \in BOOLEAN, NEW x \in Bytes
    PROVE  Fold(cf, Fold(cf, x)) = Fold(cf, x) /\ x <= Fold(cf, x)
<1>1. /\ ByteMax \in Nat /\ UpperLo \in Nat /\ UpperHi \in Nat /\ CaseShift \in Nat
      /\ UpperHi < UpperLo + CaseShift
  BY ByteAssumption
<1>2. x \in Nat
  BY DEF Bytes
<1>3. x \in UpperLo..UpperHi => x + CaseShift \notin UpperLo..UpperHi
  BY <1>1, <1>2
<1>4. x <= x + CaseShift /\ x <= x
  BY <1>1, <1>2
<1> QED BY <1>3, <1>4 DEF Fold, IsUpper

\* The byte of the id of a byte of the corpus is that byte, folded.
LEMMA IdToByteFold ==
    ASSUME NEW docs \in Seq(Seq(Bytes)), NEW cf \in BOOLEAN, NEW x \in Bytes,
           Fold(cf, x) \in Present(docs, cf)
    PROVE  IdToByte(ByteToId(docs, cf), Sigma(docs, cf))[ByteToId(docs, cf)[x]] = Fold(cf, x)
<1> DEFINE b2i == ByteToId(docs, cf)
           sigma == Sigma(docs, cf)
           c == b2i[x]
           B == {y \in Bytes : b2i[y] > 0 /\ b2i[y] = c}
           f == Fold(cf, x)
<1>1. f \in Bytes
  BY FoldType
<1>2. \A y \in Bytes : b2i[y] = c <=> Fold(cf, y) = f
  BY SameId
<1>3. c \in 2..(sigma - 1) /\ sigma \in Nat
  <2>1. sigma \in Nat /\ (c = -1 \/ c \in 2..(sigma - 1))
    BY AlphabetFacts
  <2>2. c # -1
    <3>1. c = 2 + Cardinality(Below(Present(docs, cf), f))
      BY DEF ByteToId, Below
    <3>2. Present(docs, cf) \in SUBSET (0..ByteMax) /\ ByteMax \in Nat
      BY PresentFacts, ByteAssumption
    <3>3. Cardinality(Below(Present(docs, cf), f)) \in 0..(Cardinality(Present(docs, cf)) - 1)
      BY <3>2, BelowOrder
    <3> HIDE DEF c
    <3> QED BY <3>1, <3>3
  <2> QED BY <2>1, <2>2
<1>4. IdToByte(b2i, sigma)[c] = IF B = {} THEN 0 ELSE CHOOSE y \in B : \A z \in B : z <= y
  <2>1. c \in 0..(sigma - 1)
    BY <1>3
  <2> HIDE DEF c, b2i, sigma
  <2> QED BY <2>1 DEF IdToByte
<1>5. f \in B /\ \A z \in B : z <= f
  <2>1. Fold(cf, f) = f
    BY FoldLargest
  <2>2. b2i[f] = c
    BY <1>1, <1>2, <2>1
  <2>3. c > 0
    BY <1>3
  <2>4. ASSUME NEW z \in B PROVE z <= f
    <3>1. Fold(cf, z) = f
      BY <1>2
    <3> QED BY <3>1, FoldLargest
  <2> QED BY <1>1, <2>2, <2>3, <2>4
<1> HIDE DEF B, f
<1>6. ASSUME NEW y \in B, \A z \in B : z <= y PROVE y = f
  <2>1. y <= f /\ f <= y /\ y \in Nat /\ f \in Nat
    BY <1>1, <1>5, <1>6 DEF B, Bytes
  <2> QED BY <2>1
<1> QED BY <1>4, <1>5, <1>6 DEF f

-----------------------------------------------------------------------------
(***************************************************************************)
(* What the text spells: an occurrence of a pattern in a document is a place *)
(* of the text where its word stands.                                      *)
(***************************************************************************)

\* Pattern p occurs in document d at offset off, up to the fold.
Occurs(docs, cf, p, d, off) ==
    /\ off + Len(p) <= Len(docs[d + 1])
    /\ \A j \in 1..Len(p) : Fold(cf, docs[d + 1][off + j]) = Fold(cf, p[j])

\* w is the word of the ids of the bytes of p.
Spells(w, f, p) == Len(w) = Len(p) /\ \A j \in 1..Len(p) : w[j] = f[p[j]]

\* The symbols of a document are its bytes' ids, which no pattern byte outside
\* of it has, and 1 behind its end.
LEMMA SymbolFacts ==
    ASSUME NEW docs \in Seq(Seq(Bytes)), NEW cf \in BOOLEAN, NEW d \in 0..(Len(docs) - 1),
           NEW off \in 0..Len(docs[d + 1])
    PROVE  LET s == TextOf(docs, cf)[DocBounds(docs)[d] + off]
               doc == docs[d + 1]
           IN /\ Len(doc) \in Nat
              /\ s = 1 <=> off = Len(doc)
              /\ s \in Nat
              /\ \A x \in Bytes : ByteToId(docs, cf)[x] = s
                    <=> off < Len(doc) /\ Fold(cf, doc[off + 1]) = Fold(cf, x)
<1> DEFINE doc == docs[d + 1]
           L == Len(doc)
           b2i == ByteToId(docs, cf)
           s == TextOf(docs, cf)[DocBounds(docs)[d] + off]
<1>1. d + 1 \in 1..Len(docs) /\ doc \in Seq(Bytes)
  OBVIOUS
<1>2. L \in Nat /\ off \in Nat /\ off <= L
  BY <1>1
<1>3. s = IF off < L THEN b2i[doc[off + 1]] ELSE 1
  <2>1. SymbolText(docs, b2i)[DocBounds(docs)[d] + off] = IF off < L THEN b2i[doc[off + 1]] ELSE 1
    <3> HIDE DEF b2i
    <3> QED BY DocText
  <2> QED BY <2>1 DEF TextOf
<1>4. /\ Sigma(docs, cf) \in Nat
      /\ \A x \in Bytes : b2i[x] = -1 \/ b2i[x] \in 2..(Sigma(docs, cf) - 1)
  BY AlphabetFacts
<1>5. CASE off = L
  <2>1. s = 1 /\ ~(off < L)
    BY <1>2, <1>3, <1>5
  <2>2. ASSUME NEW x \in Bytes PROVE b2i[x] # 1
    <3>1. PICK S \in Nat : S = Sigma(docs, cf)
      BY <1>4
    <3>2. b2i[x] = -1 \/ b2i[x] \in 2..(S - 1)
      BY <1>4, <3>1
    <3> HIDE DEF b2i
    <3> QED BY <3>2
  <2> QED BY <1>2, <1>5, <2>1, <2>2
<1>6. CASE off < L
  <2>1. off + 1 \in 1..L
    BY <1>2, <1>6
  <2>2. doc[off + 1] \in Bytes /\ Fold(cf, doc[off + 1]) \in Present(docs, cf)
    BY <1>1, <2>1, PresentFacts
  <2>3. PICK y \in Bytes : y = doc[off + 1]
    BY <2>2
  <2>4. s = b2i[y]
    BY <1>3, <1>6, <2>3
  <2>5. b2i[y] \in 2..(Sigma(docs, cf) - 1)
    BY <1>1, <2>1, <2>3, AlphabetFacts
  <2>6. b2i[y] \in Nat /\ b2i[y] # 1
    BY <1>4, <2>5
  <2>7. \A x \in Bytes : b2i[x] = b2i[y] <=> Fold(cf, x) = Fold(cf, y)
    BY <2>2, <2>3, SameId
  <2>8. off # L
    BY <1>2, <1>6
  <2> HIDE DEF s, b2i, doc
  <2> QED BY <1>2, <1>6, <2>3, <2>4, <2>6, <2>7, <2>8 DEF s, b2i, doc
<1> QED BY <1>2, <1>5, <1>6

\* The domain of the text, and no pattern byte's id at its end.
LEMMA TextFacts ==
    ASSUME NEW docs \in Seq(Seq(Bytes)), NEW cf \in BOOLEAN
    PROVE  LET n == DocBounds(docs)[Len(docs)] IN
           /\ n \in Nat
           /\ DOMAIN TextOf(docs, cf) = 0..n
           /\ TextOf(docs, cf)[n] = 0
           /\ \A x \in Bytes : ByteToId(docs, cf)[x] # 0
<1>1. Ended(TextOf(docs, cf), DocBounds(docs)[Len(docs)], Sigma(docs, cf))
  BY SymbolTextEnded DEF TextOf
<1>2. \A x \in Bytes : ByteToId(docs, cf)[x] # 0
  BY AlphabetFacts
<1>3. DocBounds(docs)[Len(docs)] \in Nat
  BY <1>1 DEF Ended
<1> QED BY <1>1, <1>2, <1>3 DEF Ended

\* The word of a pattern stands in the text where the pattern occurs, and
\* nowhere else: it crosses no separator.
LEMMA WordStands ==
    ASSUME NEW docs \in Seq(Seq(Bytes)), NEW cf \in BOOLEAN, NEW p \in Seq(Bytes),
           NEW w, Spells(w, ByteToId(docs, cf), p),
           NEW d \in 0..(Len(docs) - 1), NEW off \in 0..Len(docs[d + 1])
    PROVE  StandsAt(TextOf(docs, cf), DocBounds(docs)[d] + off, w) <=> Occurs(docs, cf, p, d, off)
<1> DEFINE doc == docs[d + 1]
           L == Len(doc)
           n == Len(p)
           b2i == ByteToId(docs, cf)
           t == TextOf(docs, cf)
           b == DocBounds(docs)[d]
           pos == b + off
<1>1. doc \in Seq(Bytes)
  OBVIOUS
<1>2. L \in Nat /\ off \in Nat /\ off <= L /\ n \in Nat
  BY <1>1
<1>3. b \in Nat
  BY DocText
<1>4. \A j \in 1..n : p[j] \in Bytes
  OBVIOUS
<1>5. ASSUME NEW e \in 0..L
      PROVE  /\ b + e \in DOMAIN t
             /\ \A x \in Bytes : b2i[x] = t[b + e] <=> e < L /\ Fold(cf, doc[e + 1]) = Fold(cf, x)
  <2>1. \A x \in Bytes : b2i[x] = t[b + e] <=> e < L /\ Fold(cf, doc[e + 1]) = Fold(cf, x)
    BY SymbolFacts
  <2>2. b + e \in Nat /\ b + e < DocBounds(docs)[Len(docs)]
    BY DocText
  <2>3. DOMAIN t = 0..DocBounds(docs)[Len(docs)] /\ DocBounds(docs)[Len(docs)] \in Nat
    BY TextFacts
  <2>4. b + e \in DOMAIN t
    <3> HIDE DEF t, b
    <3> QED BY <2>2, <2>3
  <2> QED BY <2>1, <2>4
<1>6. Len(w) = n /\ \A j \in 1..n : w[j] = b2i[p[j]]
  BY DEF Spells
<1> HIDE DEF L, n, b2i, t, b, doc
<1>7. StandsAt(t, pos, w) <=> \A j \in 1..n : pos + j - 1 \in DOMAIN t /\ t[pos + j - 1] = b2i[p[j]]
  BY <1>6 DEF StandsAt
<1>8. Occurs(docs, cf, p, d, off)
        <=> off + n <= L /\ \A j \in 1..n : Fold(cf, doc[off + j]) = Fold(cf, p[j])
  BY DEF Occurs, n, L, doc
<1>9. ASSUME StandsAt(t, pos, w) PROVE Occurs(docs, cf, p, d, off)
  <2>1. off + n <= L
    <3> SUFFICES ASSUME ~(off + n <= L) PROVE FALSE
      OBVIOUS
    <3> DEFINE j == (L - off) + 1
    <3>1. j \in 1..n /\ pos + j - 1 = b + L /\ L \in 0..L
      BY <1>2, <1>3
    <3>2. t[pos + j - 1] = b2i[p[j]]
      BY <1>7, <1>9, <3>1
    <3>3. PICK x \in Bytes : x = p[j]
      BY <1>4, <3>1
    <3>4. b2i[x] = t[b + L]
      BY <3>1, <3>2, <3>3
    <3>5. L < L
      BY <1>5, <3>1, <3>4
    <3> QED BY <1>2, <3>5
  <2>2. ASSUME NEW j \in 1..n PROVE Fold(cf, doc[off + j]) = Fold(cf, p[j])
    <3> DEFINE e == off + j - 1
    <3>1. e \in 0..L /\ pos + j - 1 = b + e /\ e + 1 = off + j
      BY <1>2, <1>3, <2>1
    <3>2. t[pos + j - 1] = b2i[p[j]]
      BY <1>7, <1>9
    <3>3. PICK x \in Bytes : x = p[j]
      BY <1>4
    <3>4. b2i[x] = t[b + e]
      BY <3>1, <3>2, <3>3
    <3>5. Fold(cf, doc[e + 1]) = Fold(cf, x)
      BY <1>5, <3>1, <3>4
    <3> QED BY <3>1, <3>3, <3>5
  <2> QED BY <1>8, <2>1, <2>2
<1>10. ASSUME Occurs(docs, cf, p, d, off) PROVE StandsAt(t, pos, w)
  <2>1. ASSUME NEW j \in 1..n PROVE pos + j - 1 \in DOMAIN t /\ t[pos + j - 1] = b2i[p[j]]
    <3> DEFINE e == off + j - 1
    <3>0. off + n <= L /\ Fold(cf, doc[off + j]) = Fold(cf, p[j])
      BY <1>8, <1>10
    <3>1. e \in 0..L /\ pos + j - 1 = b + e /\ e + 1 = off + j /\ e < L
      BY <1>2, <1>3, <3>0
    <3>2. PICK x \in Bytes : x = p[j]
      BY <1>4
    <3>3. Fold(cf, doc[e + 1]) = Fold(cf, x)
      BY <3>0, <3>1, <3>2
    <3>4. b2i[x] = t[b + e] /\ b + e \in DOMAIN t
      BY <1>5, <3>1, <3>3
    <3> QED BY <3>1, <3>2, <3>4
  <2> QED BY <1>7, <2>1
<1> QED BY <1>9, <1>10 DEF t, b

\* A pattern that is not empty does not stand at the sentinel.
LEMMA SentinelStands ==
    ASSUME NEW docs \in Seq(Seq(Bytes)), NEW cf \in BOOLEAN, NEW p \in Seq(Bytes), p # <<>>,
           NEW w, Len(w) \in Nat, Len(w) >= Len(p), w[1] = ByteToId(docs, cf)[p[1]]
    PROVE  ~ StandsAt(TextOf(docs, cf), DocBounds(docs)[Len(docs)], w)
<1> DEFINE n == DocBounds(docs)[Len(docs)]
           t == TextOf(docs, cf)
<1>1. Len(p) \in Nat /\ Len(p) # 0
  OBVIOUS
<1>2. 1 \in 1..Len(p) /\ 1 \in 1..Len(w) /\ p[1] \in Bytes
  BY <1>1
<1>3. n \in Nat /\ t[n] = 0 /\ w[1] # 0
  BY <1>2, TextFacts
<1> HIDE DEF n, t
<1>4. n + 1 - 1 = n
  BY <1>3
<1>5. StandsAt(t, n, w) => t[n + 1 - 1] = w[1]
  BY <1>2 DEF StandsAt
<1> QED BY <1>3, <1>4, <1>5 DEF n, t

\* The word with a separator behind it stands where the pattern ends its
\* document.
LEMMA EndStands ==
    ASSUME NEW docs \in Seq(Seq(Bytes)), NEW cf \in BOOLEAN, NEW p \in Seq(Bytes),
           NEW w, Spells(w, ByteToId(docs, cf), p),
           NEW d \in 0..(Len(docs) - 1), NEW off \in 0..Len(docs[d + 1])
    PROVE  StandsAt(TextOf(docs, cf), DocBounds(docs)[d] + off, Append(w, 1))
             <=> Occurs(docs, cf, p, d, off) /\ off + Len(p) = Len(docs[d + 1])
<1> DEFINE L == Len(docs[d + 1])
           n == Len(p)
           t == TextOf(docs, cf)
           b == DocBounds(docs)[d]
           pos == b + off
           v == Append(w, 1)
<1>1. L \in Nat /\ off \in Nat /\ n \in Nat /\ b \in Nat
  <2>1. L \in Nat
    BY SymbolFacts
  <2>2. b \in Nat
    BY DocText
  <2> QED BY <2>1, <2>2
<1>2. Len(w) = n
  BY DEF Spells
<1>3. Len(v) = n + 1 /\ v[n + 1] = 1 /\ \A j \in 1..n : v[j] = w[j]
  BY <1>1, <1>2
<1>4. StandsAt(t, pos, w) <=> Occurs(docs, cf, p, d, off)
  BY WordStands
<1>5. ASSUME NEW e \in 0..L PROVE b + e \in DOMAIN t /\ (t[b + e] = 1 <=> e = L)
  <2>1. t[b + e] = 1 <=> e = L
    BY SymbolFacts
  <2>2. b + e \in Nat /\ b + e < DocBounds(docs)[Len(docs)]
    BY DocText
  <2>3. DOMAIN t = 0..DocBounds(docs)[Len(docs)] /\ DocBounds(docs)[Len(docs)] \in Nat
    BY TextFacts
  <2> HIDE DEF t, b
  <2> QED BY <2>1, <2>2, <2>3
<1>6. Occurs(docs, cf, p, d, off) => off + n <= L
  BY DEF Occurs
<1> HIDE DEF L, n, t, b, v
<1>7. /\ n + 1 \in 1..(n + 1) /\ pos + (n + 1) - 1 = b + (off + n)
      /\ \A j \in 1..n : j \in 1..(n + 1)
      /\ \A j \in 1..(n + 1) : j \in 1..n \/ j = n + 1
  BY <1>1
<1>8. StandsAt(t, pos, v) <=> /\ StandsAt(t, pos, w)
                             /\ b + (off + n) \in DOMAIN t /\ t[b + (off + n)] = 1
  <2>1. ASSUME StandsAt(t, pos, v)
        PROVE  StandsAt(t, pos, w) /\ b + (off + n) \in DOMAIN t /\ t[b + (off + n)] = 1
    <3>1. pos + (n + 1) - 1 \in DOMAIN t /\ t[pos + (n + 1) - 1] = 1
      BY <1>3, <1>7, <2>1 DEF StandsAt
    <3>2. StandsAt(t, pos, w)
      BY <1>2, <1>3, <1>7, <2>1 DEF StandsAt
    <3> QED BY <1>7, <3>1, <3>2
  <2>2. ASSUME StandsAt(t, pos, w), b + (off + n) \in DOMAIN t, t[b + (off + n)] = 1
        PROVE  StandsAt(t, pos, v)
    <3> SUFFICES ASSUME NEW j \in 1..(n + 1)
                 PROVE  pos + j - 1 \in DOMAIN t /\ t[pos + j - 1] = v[j]
      BY <1>3 DEF StandsAt
    <3>1. CASE j \in 1..n
      BY <1>2, <1>3, <2>2, <3>1 DEF StandsAt
    <3>2. CASE j = n + 1
      BY <1>3, <1>7, <2>2, <3>2
    <3> QED BY <1>7, <3>1, <3>2
  <2> QED BY <2>1, <2>2
<1>9. off + n <= L => off + n \in 0..L
  BY <1>1
<1>10. ASSUME off + n <= L PROVE /\ b + (off + n) \in DOMAIN t
                                 /\ t[b + (off + n)] = 1 <=> off + n = L
  BY <1>5, <1>9, <1>10
<1> QED BY <1>4, <1>6, <1>8, <1>10 DEF L, n, t, b, v

\* A position starts its document if and only if it is the first of the text or
\* a separator precedes it.
LEMMA DocStart ==
    ASSUME NEW docs \in Seq(Seq(Bytes)), NEW cf \in BOOLEAN, NEW p \in Nat,
           p < DocBounds(docs)[Len(docs)]
    PROVE  (p = 0 \/ TextOf(docs, cf)[p - 1] = 1)
             <=> p = DocBounds(docs)[DocOf(DocBounds(docs), p)]
<1> DEFINE B == DocBounds(docs)
           D == Len(docs)
           t == TextOf(docs, cf)
           d == DocOf(B, p)
<1>1. /\ d \in 0..(D - 1) /\ B[d] \in Nat /\ p - B[d] \in 0..Len(docs[d + 1])
  BY DocCoord
<1>2. /\ B \in [0..D -> Nat] /\ B[0] = 0 /\ D \in Nat
      /\ \A x \in 1..D : B[x] = B[x - 1] + Len(docs[x]) + 1
      /\ \A x, y \in 0..D : x < y => B[x] < B[y]
  BY BoundsFacts
<1>3. ASSUME p = B[d], p # 0 PROVE t[p - 1] = 1
  <2>1. d \in 1..D /\ d - 1 \in 0..(D - 1) /\ (d - 1) + 1 = d
    <3>1. d # 0
      BY <1>2, <1>3
    <3> HIDE DEF d
    <3> QED BY <1>1, <3>1
  <2>2. PICK e \in 0..(D - 1) : e = d - 1
    BY <2>1
  <2>3. PICK off \in 0..Len(docs[e + 1]) : off = Len(docs[e + 1])
    <3>1. e + 1 \in 1..D
      BY <2>2
    <3>2. docs[e + 1] \in Seq(Bytes)
      BY <3>1
    <3> QED BY <3>2
  <2>4. t[B[e] + off] = 1 /\ B[e] \in Nat /\ off \in Nat /\ B[e + 1] = B[e] + off + 1
    <3>1. t[B[e] + off] = 1
      BY <2>3, SymbolFacts
    <3>2. B[e] \in Nat /\ B[e + 1] = B[e] + Len(docs[e + 1]) + 1
      BY DocText
    <3>3. off \in Nat
      OBVIOUS
    <3> QED BY <2>3, <3>1, <3>2, <3>3
  <2>5. p - 1 = B[e] + off
    <3>1. e + 1 = d
      BY <2>1, <2>2
    <3> HIDE DEF B, d
    <3> QED BY <1>3, <2>4, <3>1
  <2> QED BY <2>4, <2>5
<1>4. ASSUME p = 0 PROVE p = B[d]
  <2> HIDE DEF B, d
  <2> QED BY <1>1, <1>4
<1>5. ASSUME p # 0, t[p - 1] = 1 PROVE p = B[d]
  <2>1. PICK x \in Nat : x = p - 1
    BY <1>5
  <2>2. x < B[D] /\ p < B[D] /\ B[D] \in Nat /\ p = x + 1
    BY <1>2, <2>1
  <2>3. PICK e \in 0..(D - 1) : e = DocOf(B, x)
    BY <2>2, DocCoord
  <2>4. PICK off \in 0..Len(docs[e + 1]) : off = x - B[e]
    BY <2>2, <2>3, DocCoord
  <2>5. B[e] \in Nat /\ off \in Nat /\ x = B[e] + off /\ B[e + 1] = B[e] + Len(docs[e + 1]) + 1
    <3>1. B[e] \in Nat /\ B[e + 1] = B[e] + Len(docs[e + 1]) + 1
      BY DocText
    <3>2. off \in Nat
      OBVIOUS
    <3> HIDE DEF B
    <3> QED BY <2>4, <3>1, <3>2
  <2>6. off = Len(docs[e + 1])
    BY <1>5, <2>1, <2>5, SymbolFacts
  <2>7. p = B[e + 1]
    <3> HIDE DEF B
    <3> QED BY <2>2, <2>5, <2>6
  <2>8. e + 1 \in 0..(D - 1)
    <3>1. e + 1 # D
      <4> HIDE DEF B
      <4> QED BY <2>2, <2>7
    <3> QED BY <1>2, <3>1
  <2>9. PICK f \in 0..(D - 1) : f = e + 1
    BY <2>8
  <2>10. 0 \in 0..Len(docs[f + 1])
    <3>1. f + 1 \in 1..D
      OBVIOUS
    <3>2. docs[f + 1] \in Seq(Bytes)
      BY <3>1
    <3> QED BY <3>2
  <2>11. DocOf(B, B[f] + 0) = f /\ B[f] \in Nat
    BY <2>10, DocText
  <2>12. B[f] + 0 = p
    <3> HIDE DEF B
    <3> QED BY <2>7, <2>9, <2>11
  <2> QED BY <2>7, <2>9, <2>11, <2>12
<1> QED BY <1>3, <1>4, <1>5 DEF t, B, d

-----------------------------------------------------------------------------
(***************************************************************************)
(* Rows and hits: the rows of an interval are the occurrences, one for one. *)
(***************************************************************************)

\* Document and offset of a position, and the pairs there are.
HitAt(docs, pos) == LET d == DocOf(DocBounds(docs), pos) IN <<d, pos - DocBounds(docs)[d]>>
Coords(docs) == {h \in (0..(Len(docs) - 1)) \X Nat : h[2] <= Len(docs[h[1] + 1])}

\* The hits of a word v are those of the pairs in H.
Hits(docs, cf, v, H) ==
    /\ H \subseteq Coords(docs)
    /\ ~ StandsAt(TextOf(docs, cf), DocBounds(docs)[Len(docs)], v)
    /\ \A d \in 0..(Len(docs) - 1) : \A off \in 0..Len(docs[d + 1]) :
         StandsAt(TextOf(docs, cf), DocBounds(docs)[d] + off, v) <=> <<d, off>> \in H

\* R is a set of rows, one for each of the pairs in H.
HitRows(docs, sa, R, H) ==
    /\ IsFiniteSet(R)
    /\ \A r \in R : /\ r \in 0..DocBounds(docs)[Len(docs)]
                    /\ sa[r] \in Nat /\ sa[r] < DocBounds(docs)[Len(docs)]
                    /\ HitAt(docs, sa[r]) \in H
    /\ \A r, x \in R : HitAt(docs, sa[r]) = HitAt(docs, sa[x]) => r = x
    /\ \A h \in H : \E r \in R : HitAt(docs, sa[r]) = h

\* The rows of the word are those of its hits.
LEMMA RowHits ==
    ASSUME NEW docs \in Seq(Seq(Bytes)), NEW cf \in BOOLEAN, NEW sa,
           Sorted(TextOf(docs, cf), DocBounds(docs)[Len(docs)], sa),
           NEW v, NEW H, Hits(docs, cf, v, H)
    PROVE  HitRows(docs, sa, RowsOf(TextOf(docs, cf), sa, v), H)
<1> DEFINE t == TextOf(docs, cf)
           B == DocBounds(docs)
           D == Len(docs)
           n == B[D]
           R == RowsOf(t, sa, v)
<1>1. n \in Nat /\ D \in Nat
  BY TextFacts
<1>2. /\ DOMAIN sa = 0..n /\ \A r \in 0..n : sa[r] \in 0..n
      /\ \A q \in 0..n : \E r \in 0..n : sa[r] = q
      /\ \A r, x \in 0..n : sa[r] = sa[x] => r = x
  BY DEF Sorted
<1>3. ASSUME NEW r \in R PROVE r \in 0..n /\ sa[r] \in Nat /\ sa[r] < n /\ StandsAt(t, sa[r], v)
  <2>1. r \in 0..n /\ StandsAt(t, sa[r], v) /\ sa[r] \in 0..n
    BY <1>2 DEF RowsOf
  <2>2. ~ StandsAt(t, n, v)
    BY DEF Hits
  <2>3. sa[r] # n
    BY <2>1, <2>2
  <2> HIDE DEF n
  <2> QED BY <1>1, <2>1, <2>3
<1>4. ASSUME NEW pos \in Nat, pos < n, StandsAt(t, pos, v)
      PROVE  HitAt(docs, pos) \in H
  <2> DEFINE e == DocOf(B, pos)
  <2>1. PICK d \in 0..(D - 1) : d = e
    BY <1>4, DocCoord
  <2>2. PICK off \in 0..Len(docs[d + 1]) : off = pos - B[d]
    BY <1>4, <2>1, DocCoord
  <2>3. pos = B[d] + off
    BY <1>4, <2>1, <2>2, DocCoord
  <2>4. <<d, off>> \in H
    BY <1>4, <2>3 DEF Hits
  <2> QED BY <2>1, <2>2, <2>4 DEF HitAt
<1>5. ASSUME NEW pos \in Nat, pos < n
      PROVE pos = B[HitAt(docs, pos)[1]] + HitAt(docs, pos)[2]
  BY <1>5, DocCoord DEF HitAt
<1>6. ASSUME NEW r \in R, NEW x \in R, HitAt(docs, sa[r]) = HitAt(docs, sa[x]) PROVE r = x
  <2>1. sa[r] = sa[x]
    BY <1>3, <1>5, <1>6
  <2> QED BY <1>2, <1>3, <2>1
<1>7. ASSUME NEW h \in H PROVE \E r \in R : HitAt(docs, sa[r]) = h
  <2>1. h \in Coords(docs)
    BY DEF Hits
  <2>2. PICK d \in 0..(D - 1) : d = h[1]
    BY <2>1 DEF Coords
  <2>3. PICK off \in 0..Len(docs[d + 1]) : off = h[2]
    <3>1. h[2] \in Nat /\ h[2] <= Len(docs[d + 1])
      BY <2>1, <2>2 DEF Coords
    <3>2. d + 1 \in 1..D
      OBVIOUS
    <3>3. docs[d + 1] \in Seq(Bytes)
      BY <3>2
    <3>4. Len(docs[d + 1]) \in Nat
      BY <3>3
    <3> QED BY <3>1, <3>4
  <2>4. h = <<d, off>>
    BY <2>1, <2>2, <2>3 DEF Coords
  <2> DEFINE pos == B[d] + off
  <2>5. /\ pos \in Nat /\ pos < n /\ DocOf(B, pos) = d /\ B[d] \in Nat
    BY DocText
  <2>6. HitAt(docs, pos) = h
    <3>1. pos - B[d] = off
      <4> HIDE DEF B
      <4> QED BY <2>5
    <3> QED BY <2>4, <2>5, <3>1 DEF HitAt
  <2>7. StandsAt(t, pos, v)
    BY <2>4 DEF Hits
  <2>8. pos \in 0..n
    <3> HIDE DEF pos, n
    <3> QED BY <1>1, <2>5
  <2>9. PICK r \in 0..n : sa[r] = pos
    BY <1>2, <2>8
  <2>10. r \in R
    BY <1>2, <2>7, <2>9 DEF RowsOf
  <2> QED BY <2>6, <2>9, <2>10
<1>8. IsFiniteSet(R)
  <2>1. R \in SUBSET (0..n)
    BY <1>3
  <2>2. IsFiniteSet(0..n)
    BY <1>1, FS_Interval
  <2> QED BY <2>1, <2>2, FS_Subset
<1>9. ASSUME NEW r \in R PROVE HitAt(docs, sa[r]) \in H
  <2>1. PICK pos \in Nat : pos = sa[r]
    BY <1>3
  <2> QED BY <1>3, <1>4, <2>1
<1> HIDE DEF R
<1> QED BY <1>3, <1>6, <1>7, <1>8, <1>9 DEF HitRows, R

\* There are as many of the one as of the other.
LEMMA RowCount ==
    ASSUME NEW docs \in Seq(Seq(Bytes)), NEW cf \in BOOLEAN, NEW sa,
           Sorted(TextOf(docs, cf), DocBounds(docs)[Len(docs)], sa),
           NEW v, NEW H, Hits(docs, cf, v, H)
    PROVE  IsFiniteSet(H) /\ Cardinality(RowsOf(TextOf(docs, cf), sa, v)) = Cardinality(H)
<1> DEFINE R == RowsOf(TextOf(docs, cf), sa, v)
           f == [r \in R |-> HitAt(docs, sa[r])]
<1>1. HitRows(docs, sa, R, H)
  BY RowHits
<1> HIDE DEF R
<1>2. f \in [R -> H]
  BY <1>1 DEF HitRows
<1>3. \A x, y \in R : f[x] = f[y] => x = y
  BY <1>1 DEF HitRows
<1>4. \A z \in H : \E x \in R : f[x] = z
  BY <1>1 DEF HitRows
<1>5. IsFiniteSet(R)
  BY <1>1 DEF HitRows
<1> HIDE DEF f
<1>6. f \in Bijection(R, H)
  BY <1>2, <1>3, <1>4 DEF Bijection, Injection, Surjection, IsInjective
<1>7. ExistsBijection(R, H)
  BY <1>6 DEF ExistsBijection
<1>8. IsFiniteSet(H) /\ Cardinality(H) = Cardinality(R)
  BY <1>5, <1>7, FS_Bijection
<1> QED BY <1>8 DEF R

\* The rows and the hits of document d.
RowsIn(docs, sa, R, d) == {r \in R : DocOf(DocBounds(docs), sa[r]) = d}
HitsIn(H, d) == {h \in H : h[1] = d}

\* The same for each document.
LEMMA DocCount ==
    ASSUME NEW docs, NEW sa, NEW R, NEW H, HitRows(docs, sa, R, H), NEW d
    PROVE  Cardinality(RowsIn(docs, sa, R, d)) = Cardinality(HitsIn(H, d))
<1> DEFINE X == {r \in R : DocOf(DocBounds(docs), sa[r]) = d}
           Y == {h \in H : h[1] = d}
           g == [r \in X |-> HitAt(docs, sa[r])]
<1>1. \A r \in R : HitAt(docs, sa[r])[1] = DocOf(DocBounds(docs), sa[r])
  BY DEF HitAt
<1>2. g \in [X -> Y]
  BY <1>1 DEF HitRows
<1>3. \A x, y \in X : g[x] = g[y] => x = y
  BY DEF HitRows
<1>4. \A z \in Y : \E x \in X : g[x] = z
  BY <1>1 DEF HitRows
<1>5. IsFiniteSet(X)
  BY FS_Subset DEF HitRows
<1> HIDE DEF g, X, Y
<1>6. g \in Bijection(X, Y)
  BY <1>2, <1>3, <1>4 DEF Bijection, Injection, Surjection, IsInjective
<1>7. ExistsBijection(X, Y)
  BY <1>6 DEF ExistsBijection
<1>8. Cardinality(Y) = Cardinality(X)
  BY <1>5, <1>7, FS_Bijection
<1> QED BY <1>8 DEF X, Y, RowsIn, HitsIn

\* Where pattern p occurs, and where it ends its document.
Occurring(docs, cf, p) == {h \in Coords(docs) : Occurs(docs, cf, p, h[1], h[2])}
Ending(docs, cf, p) ==
    {h \in Occurring(docs, cf, p) : h[2] + Len(p) = Len(docs[h[1] + 1])}

\* A pair of a document and an offset in it.
LEMMA CoordPair ==
    ASSUME NEW docs \in Seq(Seq(Bytes)), NEW d \in 0..(Len(docs) - 1), NEW off \in 0..Len(docs[d + 1])
    PROVE  <<d, off>> \in Coords(docs) /\ off \in Nat /\ Len(docs[d + 1]) \in Nat
<1>1. d + 1 \in 1..Len(docs)
  OBVIOUS
<1>2. docs[d + 1] \in Seq(Bytes)
  BY <1>1
<1>3. Len(docs[d + 1]) \in Nat
  BY <1>2
<1> HIDE <1>2
<1>4. off \in Nat /\ off <= Len(docs[d + 1])
  BY <1>3
<1>5. <<d, off>> \in (0..(Len(docs) - 1)) \X Nat
  BY <1>4
<1> QED BY <1>3, <1>4, <1>5 DEF Coords

\* Searching finds the occurrences, and with the separator behind the pattern
\* those at the end of a document.
LEMMA WordHits ==
    ASSUME NEW docs \in Seq(Seq(Bytes)), NEW cf \in BOOLEAN, NEW p \in Seq(Bytes), p # <<>>,
           NEW w, Spells(w, ByteToId(docs, cf), p)
    PROVE  /\ Hits(docs, cf, w, Occurring(docs, cf, p))
           /\ Hits(docs, cf, Append(w, 1), Ending(docs, cf, p))
<1> DEFINE t == TextOf(docs, cf)
           n == DocBounds(docs)[Len(docs)]
           H == Occurring(docs, cf, p)
           E == Ending(docs, cf, p)
<1>1. Len(p) \in Nat /\ 1 \in 1..Len(p) /\ Len(w) = Len(p) /\ w[1] = ByteToId(docs, cf)[p[1]]
  BY DEF Spells
<1>2. Len(Append(w, 1)) = Len(p) + 1 /\ Append(w, 1)[1] = w[1]
  BY <1>1
<1>3. ~ StandsAt(t, n, w)
  BY <1>1, SentinelStands
<1>4. ~ StandsAt(t, n, Append(w, 1))
  <2>1. Len(Append(w, 1)) \in Nat /\ Len(Append(w, 1)) >= Len(p)
    BY <1>1, <1>2
  <2> QED BY <1>1, <1>2, <2>1, SentinelStands
<1>5. ASSUME NEW d \in 0..(Len(docs) - 1), NEW off \in 0..Len(docs[d + 1])
      PROVE  /\ StandsAt(t, DocBounds(docs)[d] + off, w) <=> <<d, off>> \in H
             /\ StandsAt(t, DocBounds(docs)[d] + off, Append(w, 1)) <=> <<d, off>> \in E
  <2>1. <<d, off>> \in Coords(docs)
    BY CoordPair
  <2>2. <<d, off>> \in H <=> Occurs(docs, cf, p, d, off)
    BY <2>1 DEF Occurring
  <2>3. <<d, off>> \in E <=> <<d, off>> \in H /\ off + Len(p) = Len(docs[d + 1])
    BY DEF Ending
  <2>4. StandsAt(t, DocBounds(docs)[d] + off, w) <=> Occurs(docs, cf, p, d, off)
    BY WordStands
  <2>5. StandsAt(t, DocBounds(docs)[d] + off, Append(w, 1))
          <=> Occurs(docs, cf, p, d, off) /\ off + Len(p) = Len(docs[d + 1])
    BY EndStands
  <2> QED BY <2>2, <2>3, <2>4, <2>5
<1>6. H \subseteq Coords(docs) /\ E \subseteq Coords(docs)
  BY DEF Occurring, Ending
<1> HIDE DEF t, n, H, E
<1>7. Hits(docs, cf, w, H)
  BY <1>3, <1>5, <1>6 DEF Hits, t, n
<1>8. Hits(docs, cf, Append(w, 1), E)
  BY <1>4, <1>5, <1>6 DEF Hits, t, n
<1> QED BY <1>7, <1>8 DEF H, E

\* The symbol before the first position of a document is the sentinel or a
\* separator, and no other position has one before it.
LEMMA BwtStart ==
    ASSUME NEW docs \in Seq(Seq(Bytes)), NEW cf \in BOOLEAN, NEW sa,
           Sorted(TextOf(docs, cf), DocBounds(docs)[Len(docs)], sa),
           NEW r \in 0..DocBounds(docs)[Len(docs)], sa[r] < DocBounds(docs)[Len(docs)]
    PROVE  LET b == Bwt(TextOf(docs, cf), sa)[r] IN
           /\ b = 0 <=> sa[r] = 0
           /\ b = 0 \/ b = 1 <=> HitAt(docs, sa[r])[2] = 0
<1> DEFINE t == TextOf(docs, cf)
           n == DocBounds(docs)[Len(docs)]
           b == Bwt(t, sa)[r]
<1>1. DOMAIN sa = 0..n /\ sa[r] \in 0..n
  BY DEF Sorted
<1>2. n \in Nat /\ \A q \in 0..n : t[q] = 0 <=> q = n
  BY SymbolTextEnded DEF Ended, TextOf
<1>3. PICK q \in Nat : q = sa[r] /\ q < n
  BY <1>1, <1>2
<1>4. b = IF q = 0 THEN 0 ELSE t[q - 1]
  BY <1>1, <1>3 DEF Bwt
<1>5. q # 0 => q - 1 \in 0..n /\ q - 1 # n
  BY <1>2, <1>3
<1>6. b = 0 <=> q = 0
  BY <1>2, <1>4, <1>5
<1>7. (q = 0 \/ t[q - 1] = 1) <=> q = DocBounds(docs)[DocOf(DocBounds(docs), q)]
  BY <1>3, DocStart
<1>8. HitAt(docs, q)[2] = q - DocBounds(docs)[DocOf(DocBounds(docs), q)]
      /\ DocBounds(docs)[DocOf(DocBounds(docs), q)] \in Nat
  BY <1>3, DocCoord DEF HitAt
<1>9. HitAt(docs, q)[2] = 0 <=> q = DocBounds(docs)[DocOf(DocBounds(docs), q)]
  <2> DEFINE z == DocBounds(docs)[DocOf(DocBounds(docs), q)]
  <2> HIDE DEF z
  <2>1. z \in Nat /\ HitAt(docs, q)[2] = q - z
    BY <1>8 DEF z
  <2>2. q - z = 0 <=> q = z
    BY <2>1
  <2> QED BY <2>1, <2>2 DEF z
<1> HIDE DEF t, b
<1>10. b = 0 \/ b = 1 <=> q = 0 \/ t[q - 1] = 1
  BY <1>4, <1>6
<1> QED BY <1>3, <1>6, <1>7, <1>9, <1>10 DEF t, b

\* The documents that start with the pattern.
Starting(docs, cf, p) == {d \in 0..(Len(docs) - 1) : Occurs(docs, cf, p, d, 0)}

\* The rows that a sentinel or a separator precedes.
Heads(bwt, R) == {r \in R : bwt[r] = 0 \/ bwt[r] = 1}
Leads(bwt, R) == \E r \in R : bwt[r] = 0

\* CountPrefixDocs: each of them has one row of the pattern that a sentinel or a
\* separator precedes.
LEMMA PrefixCount ==
    ASSUME NEW docs \in Seq(Seq(Bytes)), NEW cf \in BOOLEAN, NEW p \in Seq(Bytes), p # <<>>,
           NEW w, Spells(w, ByteToId(docs, cf), p), NEW sa,
           Sorted(TextOf(docs, cf), DocBounds(docs)[Len(docs)], sa)
    PROVE  /\ Cardinality(Heads(Bwt(TextOf(docs, cf), sa), RowsOf(TextOf(docs, cf), sa, w)))
                = Cardinality(Starting(docs, cf, p))
           /\ Leads(Bwt(TextOf(docs, cf), sa), RowsOf(TextOf(docs, cf), sa, w))
                <=> 0 \in Starting(docs, cf, p)
<1> DEFINE R == RowsOf(TextOf(docs, cf), sa, w)
           bwt == Bwt(TextOf(docs, cf), sa)
           H == Occurring(docs, cf, p)
           X == {r \in R : bwt[r] = 0 \/ bwt[r] = 1}
           Y == Starting(docs, cf, p)
           g == [r \in X |-> HitAt(docs, sa[r])[1]]
           n == DocBounds(docs)[Len(docs)]
<1>0. Hits(docs, cf, w, H)
  BY WordHits
<1> HIDE DEF H
<1>1. HitRows(docs, sa, R, H)
  BY <1>0, RowHits
<1>2. \A r \in R : r \in 0..n /\ sa[r] \in Nat /\ sa[r] < n /\ HitAt(docs, sa[r]) \in H
  BY <1>1 DEF HitRows
<1>3. \A h \in H : \E r \in R : HitAt(docs, sa[r]) = h
  BY <1>1 DEF HitRows
<1>4. IsFiniteSet(R) /\ \A r, x \in R : HitAt(docs, sa[r]) = HitAt(docs, sa[x]) => r = x
  BY <1>1 DEF HitRows
<1>5. \A r \in R : /\ bwt[r] = 0 <=> sa[r] = 0
                   /\ bwt[r] = 0 \/ bwt[r] = 1 <=> HitAt(docs, sa[r])[2] = 0
  BY <1>2, BwtStart
<1>6. \A r \in R : HitAt(docs, sa[r]) = <<HitAt(docs, sa[r])[1], HitAt(docs, sa[r])[2]>>
  BY DEF HitAt
<1>7. ASSUME NEW d PROVE <<d, 0>> \in H <=> d \in Y
  <2>1. ASSUME NEW e \in 0..(Len(docs) - 1) PROVE <<e, 0>> \in Coords(docs)
    <3>1. e + 1 \in 1..Len(docs)
      OBVIOUS
    <3>2. docs[e + 1] \in Seq(Bytes)
      BY <3>1
    <3>3. 0 \in 0..Len(docs[e + 1])
      BY <3>2
    <3> QED BY <3>3, CoordPair
  <2>2. <<d, 0>> \in Coords(docs) => d \in 0..(Len(docs) - 1)
    BY DEF Coords
  <2> QED BY <2>1, <2>2 DEF H, Occurring, Starting
<1> HIDE DEF R, bwt, n
<1>8. g \in [X -> Y]
  <2> SUFFICES ASSUME NEW r \in X PROVE HitAt(docs, sa[r])[1] \in Y
    OBVIOUS
  <2>1. HitAt(docs, sa[r])[2] = 0 /\ HitAt(docs, sa[r]) \in H
    BY <1>2, <1>5
  <2>2. <<HitAt(docs, sa[r])[1], 0>> \in H
    BY <1>6, <2>1
  <2> QED BY <1>7, <2>2
<1>9. ASSUME NEW r \in X, NEW x \in X, g[r] = g[x] PROVE r = x
  <2>1. HitAt(docs, sa[r])[2] = 0 /\ HitAt(docs, sa[x])[2] = 0
    BY <1>5
  <2>2. HitAt(docs, sa[r]) = HitAt(docs, sa[x])
    BY <1>6, <1>9, <2>1
  <2> QED BY <1>4, <2>2
<1>10. ASSUME NEW d \in Y PROVE \E r \in X : g[r] = d
  <2>1. <<d, 0>> \in H
    BY <1>7
  <2>2. PICK r \in R : HitAt(docs, sa[r]) = <<d, 0>>
    BY <1>3, <2>1
  <2>3. HitAt(docs, sa[r])[2] = 0 /\ HitAt(docs, sa[r])[1] = d
    BY <2>2
  <2>4. r \in X
    BY <1>5, <2>3
  <2> QED BY <2>3, <2>4
<1>11. IsFiniteSet(X)
  BY <1>4, FS_Subset
<1>12. (\E r \in R : bwt[r] = 0) <=> 0 \in Y
  <2>1. ASSUME NEW r \in R, bwt[r] = 0 PROVE 0 \in Y
    <3>1. sa[r] = 0 /\ HitAt(docs, sa[r])[2] = 0 /\ HitAt(docs, sa[r]) \in H /\ sa[r] < n
      BY <1>2, <1>5, <2>1
    <3>2. DocBounds(docs)[DocOf(DocBounds(docs), 0)] = 0 /\ DocOf(DocBounds(docs), 0) \in 0..(Len(docs) - 1)
      <4>1. 0 - DocBounds(docs)[DocOf(DocBounds(docs), 0)] = 0
        BY <3>1 DEF HitAt
      <4>2. DocBounds(docs)[DocOf(DocBounds(docs), 0)] \in Nat /\ DocOf(DocBounds(docs), 0) \in 0..(Len(docs) - 1)
        <5>1. 0 < DocBounds(docs)[Len(docs)]
          BY <3>1 DEF n
        <5> QED BY <5>1, DocCoord
      <4> QED BY <4>1, <4>2
    <3>3. DocOf(DocBounds(docs), 0) = 0
      <4> DEFINE e == DocOf(DocBounds(docs), 0)
                 B == DocBounds(docs)
      <4>1. e \in 0..(Len(docs) - 1) /\ B[e] = 0
        BY <3>2
      <4> HIDE DEF e
      <4>2. B[0] = 0 /\ (\A x, y \in 0..Len(docs) : x < y => B[x] < B[y])
        BY BoundsFacts
      <4>3. e \in 0..Len(docs) /\ 0 \in 0..Len(docs) /\ e \in Nat
        BY <4>1
      <4>4. 0 < e => B[0] < B[e]
        BY <4>2, <4>3
      <4>5. ~(0 < e)
        BY <4>1, <4>2, <4>4
      <4>6. e = 0
        BY <4>3, <4>5
      <4> QED BY <4>6 DEF e
    <3>4. HitAt(docs, sa[r])[1] = 0
      BY <3>1, <3>3 DEF HitAt
    <3>5. <<0, 0>> \in H
      BY <1>6, <3>1, <3>4
    <3> QED BY <1>7, <3>5
  <2>2. ASSUME 0 \in Y PROVE \E r \in R : bwt[r] = 0
    <3>1. <<0, 0>> \in H
      BY <1>7, <2>2
    <3>2. PICK r \in R : HitAt(docs, sa[r]) = <<0, 0>>
      BY <1>3, <3>1
    <3>3. sa[r] \in Nat /\ sa[r] < n
      BY <1>2
    <3>4. DocOf(DocBounds(docs), sa[r]) = 0 /\ sa[r] - DocBounds(docs)[0] = 0
      BY <3>2 DEF HitAt
    <3>5. DocBounds(docs)[0] = 0
      BY BoundsFacts
    <3>6. sa[r] = 0
      BY <3>3, <3>4, <3>5
    <3> QED BY <1>5, <3>6
  <2> QED BY <2>1, <2>2
<1> HIDE DEF X, Y, g
<1>13. g \in Bijection(X, Y)
  BY <1>8, <1>9, <1>10 DEF Bijection, Injection, Surjection, IsInjective
<1>14. ExistsBijection(X, Y)
  BY <1>13 DEF ExistsBijection
<1>15. Cardinality(Y) = Cardinality(X)
  BY <1>11, <1>14, FS_Bijection
<1> QED BY <1>12, <1>15 DEF X, Y, R, bwt, Heads, Leads

\* The documents that start behind the first symbol of the rows.
NextDocs(docs, sa, R) == {DocOf(DocBounds(docs), sa[r] + 1) : r \in R}

\* LocatePrefixDocs: the rows of the word with a separator in front are those
\* of the documents that start with the pattern, document 0 excepted.
LEMMA PrefixRows ==
    ASSUME NEW docs \in Seq(Seq(Bytes)), NEW cf \in BOOLEAN, NEW p \in Seq(Bytes), p # <<>>,
           NEW w, Spells(w, ByteToId(docs, cf), p), NEW v, Fronted(v, 1, w), NEW sa,
           Sorted(TextOf(docs, cf), DocBounds(docs)[Len(docs)], sa)
    PROVE  NextDocs(docs, sa, RowsOf(TextOf(docs, cf), sa, v))
             = Starting(docs, cf, p) \ {0}
<1> DEFINE t == TextOf(docs, cf)
           B == DocBounds(docs)
           D == Len(docs)
           n == B[D]
           R == RowsOf(t, sa, v)
           Y == Starting(docs, cf, p)
<1>1. /\ DOMAIN sa = 0..n /\ \A r \in 0..n : sa[r] \in 0..n
      /\ \A q \in 0..n : \E r \in 0..n : sa[r] = q
  BY DEF Sorted
<1>2. n \in Nat /\ B[0] = 0 /\ D \in Nat
  BY TextFacts, BoundsFacts
<1>3. ASSUME NEW q \in 0..n
      PROVE  StandsAt(t, q, v) <=> t[q] = 1 /\ q + 1 \in 0..n /\ StandsAt(t, q + 1, w)
  <2>1. Ended(t, n, Sigma(docs, cf))
    BY SymbolTextEnded DEF TextOf
  <2>2. 1 \in 1..(Sigma(docs, cf) - 1)
    BY AlphabetFacts
  <2> HIDE DEF t, n
  <2> QED BY <2>1, <2>2, StandsStep
<1>4. ~ StandsAt(t, n, w)
  BY WordHits DEF Hits
<1>5. ASSUME NEW r \in R PROVE DocOf(B, sa[r] + 1) \in Y \ {0}
  <2>1. r \in 0..n /\ StandsAt(t, sa[r], v)
    BY <1>1 DEF RowsOf
  <2>2. PICK q \in 0..n : q = sa[r]
    BY <1>1, <2>1
  <2>3. t[q] = 1 /\ q + 1 \in 0..n /\ StandsAt(t, q + 1, w)
    BY <1>3, <2>1, <2>2
  <2>4. q + 1 # n
    BY <1>4, <2>3
  <2>5. PICK x \in Nat : x = q + 1 /\ x < n /\ x - 1 = q /\ x # 0
    <3> HIDE DEF n
    <3> QED BY <1>2, <2>3, <2>4
  <2>6. PICK e \in 0..(D - 1) : e = DocOf(B, x)
    BY <2>5, DocCoord
  <2>7. x = B[e]
    BY <2>3, <2>5, <2>6, DocStart
  <2>8. 0 \in 0..Len(docs[e + 1])
    <3>1. e + 1 \in 1..D
      OBVIOUS
    <3>2. docs[e + 1] \in Seq(Bytes)
      BY <3>1
    <3> QED BY <3>2
  <2>9. B[e] + 0 = x
    <3> HIDE DEF B
    <3> QED BY <2>5, <2>7
  <2>10. Occurs(docs, cf, p, e, 0)
    <3>1. StandsAt(t, B[e] + 0, w)
      BY <2>3, <2>5, <2>9
    <3> QED BY <2>8, <3>1, WordStands
  <2>11. e # 0
    BY <1>2, <2>5, <2>7
  <2> QED BY <2>2, <2>5, <2>6, <2>10, <2>11 DEF Starting
<1>6. ASSUME NEW e \in Y \ {0} PROVE \E r \in R : DocOf(B, sa[r] + 1) = e
  <2>1. e \in 0..(D - 1) /\ e # 0 /\ Occurs(docs, cf, p, e, 0)
    BY DEF Starting
  <2>2. 0 \in 0..Len(docs[e + 1])
    <3>1. e + 1 \in 1..D
      BY <2>1
    <3>2. docs[e + 1] \in Seq(Bytes)
      BY <3>1
    <3> QED BY <3>2
  <2>3. DocOf(B, B[e] + 0) = e /\ B[e] + 0 < n /\ B[e] \in Nat
    BY <2>1, <2>2, DocText
  <2>4. StandsAt(t, B[e] + 0, w)
    BY <2>1, <2>2, WordStands
  <2>5. PICK x \in Nat : x = B[e]
    BY <2>3
  <2>6. x = B[e] + 0
    BY <2>5
  <2>7. DocOf(B, x) = e /\ x < n /\ StandsAt(t, x, w)
    BY <2>3, <2>4, <2>6
  <2>8. x # 0
    <3>1. \A a, b \in 0..D : a < b => B[a] < B[b]
      BY BoundsFacts
    <3>2. 0 < e /\ 0 \in 0..D /\ e \in 0..D
      BY <1>2, <2>1
    <3>3. B[0] < B[e]
      BY <3>1, <3>2
    <3> QED BY <1>2, <2>5, <3>3
  <2>9. t[x - 1] = 1
    BY <2>5, <2>7, <2>8, DocStart
  <2>10. x - 1 \in 0..n /\ (x - 1) + 1 = x /\ x \in 0..n
    <3> HIDE DEF n
    <3> QED BY <1>2, <2>7, <2>8
  <2>11. StandsAt(t, x - 1, v)
    BY <1>3, <2>7, <2>9, <2>10
  <2>12. PICK r \in 0..n : sa[r] = x - 1
    BY <1>1, <2>10
  <2>13. r \in R
    BY <1>1, <2>11, <2>12 DEF RowsOf
  <2> QED BY <2>7, <2>10, <2>12, <2>13
<1> HIDE DEF R, Y, B
<1>7. {DocOf(B, sa[r] + 1) : r \in R} = Y \ {0}
  BY <1>5, <1>6
<1> QED BY <1>7 DEF R, Y, B, NextDocs

-----------------------------------------------------------------------------
(***************************************************************************)
(* Counts over intervals of rows.                                          *)
(***************************************************************************)

\* The ranks at the ends of an interval differ by what is in it.
LEMMA RankBetween ==
    ASSUME NEW s, NEW c, NEW lo \in Nat, NEW hi \in Nat, lo <= hi
    PROVE  /\ RankIn(s, c, lo) \in Nat /\ RankIn(s, c, hi) \in Nat
           /\ CountIn(s, c, lo, hi) \in Nat
           /\ RankIn(s, c, hi) = RankIn(s, c, lo) + CountIn(s, c, lo, hi)
<1>1. RankIn(s, c, lo) = CountIn(s, c, 0, lo) /\ RankIn(s, c, hi) = CountIn(s, c, 0, hi)
  BY DEF RankIn, CountIn
<1>2. /\ CountIn(s, c, 0, lo) \in Nat /\ CountIn(s, c, 0, hi) \in Nat
      /\ CountIn(s, c, lo, hi) \in Nat
  BY CountInType
<1>3. CountIn(s, c, 0, hi) = CountIn(s, c, 0, lo) + CountIn(s, c, lo, hi)
  BY CountInSplit
<1> QED BY <1>1, <1>2, <1>3

\* Two symbols are counted together, and one is met if its rank grows.
LEMMA RankPair ==
    ASSUME NEW s, NEW lo \in Nat, NEW hi \in Nat, lo <= hi
    PROVE  /\ (RankIn(s, 0, hi) + RankIn(s, 1, hi)) - (RankIn(s, 0, lo) + RankIn(s, 1, lo))
                = Cardinality(Heads(s, lo..(hi - 1)))
           /\ RankIn(s, 0, lo) < RankIn(s, 0, hi) <=> Leads(s, lo..(hi - 1))
<1> DEFINE A == {r \in lo..(hi - 1) : s[r] = 0}
           C == {r \in lo..(hi - 1) : s[r] = 1}
           U == {r \in lo..(hi - 1) : s[r] = 0 \/ s[r] = 1}
<1>1. /\ RankIn(s, 0, lo) \in Nat /\ RankIn(s, 0, hi) \in Nat
      /\ RankIn(s, 0, hi) = RankIn(s, 0, lo) + Cardinality(A)
  BY RankBetween DEF CountIn
<1>2. /\ RankIn(s, 1, lo) \in Nat /\ RankIn(s, 1, hi) \in Nat
      /\ RankIn(s, 1, hi) = RankIn(s, 1, lo) + Cardinality(C)
  BY RankBetween DEF CountIn
<1>3. U = A \cup C /\ A \cap C = {}
  OBVIOUS
<1>4. IsFiniteSet(U) /\ IsFiniteSet(A)
  <2>1. IsFiniteSet(lo..(hi - 1))
    BY FS_Interval
  <2> QED BY <2>1, FS_Subset
<1> HIDE DEF A, C, U
<1>5. Cardinality(U) = Cardinality(A) + Cardinality(C) /\ Cardinality(A) \in Nat /\ Cardinality(C) \in Nat
  BY <1>3, <1>4, CardParts
<1>6. Cardinality(A) = 0 <=> A = {}
  BY <1>4, FS_EmptySet
<1>7. (RankIn(s, 0, hi) + RankIn(s, 1, hi)) - (RankIn(s, 0, lo) + RankIn(s, 1, lo)) = Cardinality(U)
  BY <1>1, <1>2, <1>5
<1>8. RankIn(s, 0, lo) < RankIn(s, 0, hi) <=> Cardinality(A) # 0
  BY <1>1, <1>5
<1>9. A # {} <=> \E r \in lo..(hi - 1) : s[r] = 0
  BY DEF A
<1> QED BY <1>6, <1>7, <1>8, <1>9 DEF U, Heads, Leads

\* The bag of the values that f has from a up to b.
Gather(f, a, b) == [y \in {f[r] : r \in a..(b - 1)} |->
                      Cardinality({r \in a..(b - 1) : f[r] = y})]

\* Pushing the values one after the other gathers them.
LEMMA GatherStep ==
    ASSUME NEW f, NEW a \in Nat, NEW b \in Nat, a <= b
    PROVE  Push(Gather(f, a, b), f[b]) = Gather(f, a, b + 1)
<1> DEFINE V(c) == {f[r] : r \in a..(c - 1)}
           G == Gather(f, a, b)
<1>1. \A r : r \in a..((b + 1) - 1) <=> r \in a..(b - 1) \/ r = b
  OBVIOUS
<1>2. V(b + 1) = V(b) \cup {f[b]}
  BY <1>1
<1>3. DOMAIN G = V(b) /\ \A y \in V(b) : G[y] = CountIn(f, y, a, b)
  BY DEF Gather, CountIn
<1>4. Gather(f, a, b + 1) = [y \in V(b + 1) |-> CountIn(f, y, a, b + 1)]
  BY DEF Gather, CountIn
<1>5. ASSUME NEW y
      PROVE  CountIn(f, y, a, b + 1) = CountIn(f, y, a, b) + (IF y = f[b] THEN 1 ELSE 0)
  <2>1. CountIn(f, y, a, b + 1) = CountIn(f, y, a, b) + CountIn(f, y, b, b + 1)
    BY CountInSplit
  <2>2. b..((b + 1) - 1) = {b}
    OBVIOUS
  <2>3. CASE y = f[b]
    <3>1. {j \in b..((b + 1) - 1) : f[j] = y} = {b}
      BY <2>2, <2>3
    <3>2. CountIn(f, y, b, b + 1) = 1
      BY <3>1, FS_Singleton DEF CountIn
    <3> QED BY <2>1, <2>3, <3>2
  <2>4. CASE y # f[b]
    <3>1. {j \in b..((b + 1) - 1) : f[j] = y} = {}
      BY <2>2, <2>4
    <3>2. CountIn(f, y, b, b + 1) = 0
      BY <3>1, FS_EmptySet DEF CountIn
    <3> QED BY <2>1, <2>4, <3>2
  <2> QED BY <2>3, <2>4
<1>6. ASSUME NEW y, y \notin V(b) PROVE CountIn(f, y, a, b) = 0
  <2>1. {j \in a..(b - 1) : f[j] = y} = {}
    BY <1>6
  <2> QED BY <2>1, FS_EmptySet DEF CountIn
<1> HIDE DEF G, V
<1>7. Push(G, f[b]) = [y \in V(b) \cup {f[b]} |->
                         (IF y \in V(b) THEN G[y] ELSE 0) + (IF y = f[b] THEN 1 ELSE 0)]
  BY <1>3 DEF Push
<1>8. ASSUME NEW y \in V(b + 1)
      PROVE  (IF y \in V(b) THEN G[y] ELSE 0) + (IF y = f[b] THEN 1 ELSE 0)
               = CountIn(f, y, a, b + 1)
  BY <1>3, <1>5, <1>6
<1> QED BY <1>2, <1>4, <1>7, <1>8 DEF G
=============================================================================
