------------------------ MODULE WaveletMatrix4Proofs ------------------------
(***************************************************************************)
(* For every alphabet, number of levels, sequence and query: each level is *)
(* a stable partition of the one before, a descent is at every level where *)
(* the partitions put its positions, and rank, access, map2, map_zero and  *)
(* map_batch return what SymbolRank defines.  The lemmas before the matrix *)
(* are the algebra behind it: the keys of the partitions order the         *)
(* positions strictly, PlaceAt is the rank of a position in that order,    *)
(* one level of a descent takes PlaceAt to PlaceAt one level down, and the *)
(* digits of a symbol determine it.                                        *)
(***************************************************************************)
EXTENDS WaveletMatrix4, FiniteSetTheorems, TLAPS

-----------------------------------------------------------------------------
(***************************************************************************)
(* Division.                                                               *)
(***************************************************************************)

\* Division with remainder.
LEMMA DivMod ==
    ASSUME NEW x \in Nat, NEW d \in Nat \ {0}
    PROVE  /\ x \div d \in Nat
           /\ x % d \in 0..(d - 1)
           /\ x = (x \div d) * d + (x % d)
  OBVIOUS

\* The quotient is the only one with a remainder below d.
LEMMA DivUnique ==
    ASSUME NEW x \in Nat, NEW d \in Nat \ {0}, NEW q \in Nat,
           q * d <= x, x < q * d + d
    PROVE  x \div d = q
  OBVIOUS

-----------------------------------------------------------------------------
(***************************************************************************)
(* Counting and induction.                                                 *)
(***************************************************************************)

\* Counting by parts: a set in two disjoint parts.
LEMMA CardParts ==
    ASSUME NEW A, NEW B, NEW U, IsFiniteSet(U), U = A \cup B, A \cap B = {}
    PROVE  /\ Cardinality(U) = Cardinality(A) + Cardinality(B)
           /\ Cardinality(A) \in Nat /\ Cardinality(B) \in Nat
<1>1. A \subseteq U /\ B \subseteq U
  OBVIOUS
<1>2. IsFiniteSet(A) /\ IsFiniteSet(B)
  BY <1>1, FS_Subset
<1>3. Cardinality(A) \in Nat /\ Cardinality(B) \in Nat
  BY <1>2, FS_CardinalityType
<1>4. Cardinality(A \cup B) = Cardinality(A) + Cardinality(B) - Cardinality(A \cap B)
  BY <1>2, FS_Union
<1>5. Cardinality(A \cap B) = 0
  BY FS_EmptySet
<1> QED BY <1>3, <1>4, <1>5

\* Induction for a set of natural numbers.
LEMMA NatSet ==
    ASSUME NEW T, 0 \in T, \A m \in Nat : m \in T => m + 1 \in T
    PROVE  \A m \in Nat : m \in T
<1> DEFINE F == {m \in Nat : m \notin T}
<1>1. SUFFICES ASSUME F # {} PROVE FALSE
  OBVIOUS
<1>2. PICK x \in F : \A y \in F : ~(<<y, x>> \in OpToRel(<, Nat))
  BY <1>1, WFMin, NatLessThanWellFounded
<1>3. x \in Nat /\ x # 0 /\ x - 1 \in Nat /\ x - 1 \notin T
  <2>1. x \in Nat /\ x \notin T /\ x # 0
    OBVIOUS
  <2>2. x - 1 \in Nat /\ (x - 1) + 1 = x
    BY <2>1
  <2> QED BY <2>1, <2>2
<1>4. <<x - 1, x>> \in OpToRel(<, Nat)
  BY <1>3 DEF OpToRel
<1> QED BY <1>2, <1>3, <1>4

-----------------------------------------------------------------------------
(***************************************************************************)
(* The powers of four.                                                     *)
(***************************************************************************)

\* f is the table of the powers below 4^(m + 1).
Table(f, m) ==
    /\ f \in [0..m -> Nat \ {0}]
    /\ f[0] = 1
    /\ \A x \in 1..m : f[x] = 4 * f[x - 1]

\* A table of every length exists.
LEMMA TableExists == \A m \in Nat : \E f : Table(f, m)
<1> DEFINE T == {m \in Nat : \E f : Table(f, m)}
<1>1. 0 \in T
  <2>1. Table([x \in 0..0 |-> 1], 0)
    BY DEF Table
  <2> QED BY <2>1
<1>2. ASSUME NEW m \in Nat, m \in T PROVE m + 1 \in T
  <2>1. PICK f : Table(f, m)
    BY <1>2
  <2> DEFINE g == [x \in 0..(m + 1) |-> IF x = m + 1 THEN 4 * f[m] ELSE f[x]]
  <2>2. Table(g, m + 1)
    <3>1. \A x \in 0..m : f[x] \in Nat \ {0}
      BY <2>1 DEF Table
    <3>2. 4 * f[m] \in Nat \ {0}
      BY <3>1
    <3>3. g \in [0..(m + 1) -> Nat \ {0}]
      BY <3>1, <3>2
    <3>4. g[0] = 1
      BY <2>1 DEF Table
    <3>5. ASSUME NEW x \in 1..(m + 1) PROVE g[x] = 4 * g[x - 1]
      <4>1. CASE x = m + 1
        <5>1. x - 1 \in 0..(m + 1) /\ x - 1 # m + 1 /\ x - 1 = m
          BY <4>1
        <5> QED BY <4>1, <5>1
      <4>2. CASE x # m + 1
        <5>1. x - 1 \in 0..(m + 1) /\ x - 1 # m + 1 /\ x \in 1..m /\ x \in 0..(m + 1)
          BY <4>2
        <5> QED BY <4>2, <5>1, <2>1 DEF Table
      <4> QED BY <4>1, <4>2
    <3> HIDE DEF g
    <3> QED BY <3>3, <3>4, <3>5 DEF Table
  <2> QED BY <2>2
<1> HIDE DEF T
<1>3. \A m \in Nat : m \in T
  BY <1>1, <1>2, NatSet
<1> QED BY <1>3 DEF T

\* Two tables agree where both are defined.
LEMMA TableUnique ==
    ASSUME NEW f, NEW g, NEW m \in Nat, NEW p \in Nat, Table(f, m), Table(g, p)
    PROVE  \A x \in Nat : x <= m /\ x <= p => f[x] = g[x]
<1> DEFINE T == {x \in Nat : x <= m /\ x <= p => f[x] = g[x]}
<1>1. 0 \in T
  BY DEF Table
<1>2. ASSUME NEW x \in Nat, x \in T PROVE x + 1 \in T
  <2>1. SUFFICES ASSUME x + 1 <= m, x + 1 <= p PROVE f[x + 1] = g[x + 1]
    OBVIOUS
  <2>2. f[x] = g[x]
    BY <1>2, <2>1
  <2>3. x + 1 \in 1..m /\ x + 1 \in 1..p /\ (x + 1) - 1 = x
    BY <2>1
  <2> QED BY <2>2, <2>3 DEF Table
<1> HIDE DEF T
<1>3. \A x \in Nat : x \in T
  BY <1>1, <1>2, NatSet
<1> QED BY <1>3 DEF T

\* The recursive definition of Pow4 defines a function.
LEMMA Pow4Def ==
    /\ Pow4 = [x \in Nat |-> IF x = 0 THEN 1 ELSE 4 * Pow4[x - 1]]
    /\ \A x \in Nat : Pow4[x] \in Nat \ {0}
<1> DEFINE tab(m) == CHOOSE f : Table(f, m)
           P == [x \in Nat |-> tab(x)[x]]
<1>1. ASSUME NEW m \in Nat PROVE Table(tab(m), m)
  BY TableExists
<1> HIDE DEF tab
<1>2. ASSUME NEW x \in Nat PROVE P[x] \in Nat \ {0}
  BY <1>1 DEF Table
<1>3. ASSUME NEW x \in Nat PROVE P[x] = IF x = 0 THEN 1 ELSE 4 * P[x - 1]
  <2>1. CASE x = 0
    BY <2>1, <1>1 DEF Table
  <2>2. CASE x # 0
    <3>1. x - 1 \in Nat /\ x \in 1..x /\ x - 1 <= x /\ x - 1 <= x - 1
      BY <2>2
    <3>2. tab(x)[x] = 4 * tab(x)[x - 1]
      BY <1>1, <3>1 DEF Table
    <3>3. tab(x)[x - 1] = tab(x - 1)[x - 1]
      BY <1>1, <3>1, TableUnique
    <3> QED BY <2>2, <3>1, <3>2, <3>3
  <2> QED BY <2>1, <2>2
<1>4. P = [x \in Nat |-> IF x = 0 THEN 1 ELSE 4 * P[x - 1]]
  <2>1. P = [x \in Nat |-> P[x]]
    OBVIOUS
  <2> HIDE DEF P
  <2> QED BY <2>1, <1>3
<1> HIDE DEF P
<1>5. Pow4 = [x \in Nat |-> IF x = 0 THEN 1 ELSE 4 * Pow4[x - 1]]
  BY <1>4 DEF Pow4
<1> DEFINE T == {x \in Nat : Pow4[x] \in Nat \ {0}}
<1>6. 0 \in T
  BY <1>5
<1>7. ASSUME NEW x \in Nat, x \in T PROVE x + 1 \in T
  <2>1. Pow4[x + 1] = 4 * Pow4[x]
    BY <1>5
  <2> HIDE DEF Pow4
  <2> QED BY <1>7, <2>1
<1> HIDE DEF T
<1>8. \A x \in Nat : x \in T
  BY <1>6, <1>7, NatSet
<1> QED BY <1>5, <1>8 DEF T

\* The powers of four are positive and each is four times the one before.
LEMMA Pow4Facts ==
    /\ Pow4[0] = 1
    /\ \A x \in Nat : Pow4[x] \in Nat \ {0} /\ Pow4[x + 1] = 4 * Pow4[x]
<1>1. Pow4[0] = 1
  BY Pow4Def
<1>2. ASSUME NEW x \in Nat PROVE Pow4[x + 1] = 4 * Pow4[x]
  <2>1. x + 1 \in Nat /\ x + 1 # 0 /\ (x + 1) - 1 = x
    OBVIOUS
  <2>2. Pow4[x + 1] = IF x + 1 = 0 THEN 1 ELSE 4 * Pow4[(x + 1) - 1]
    BY <2>1, Pow4Def
  <2> QED BY <2>1, <2>2
<1> QED BY <1>1, <1>2, Pow4Def

-----------------------------------------------------------------------------
(***************************************************************************)
(* Digits, and the order that the first d partitions put symbols in.       *)
(***************************************************************************)

\* A digit is a two-bit number.
LEMMA DigitType ==
    ASSUME NEW a \in Nat, NEW q \in Nat, NEW x \in 0..(q - 1)
    PROVE  Digit(a, x, q) \in 0..3
<1>1. q - 1 - x \in Nat
  OBVIOUS
<1>2. Pow4[q - 1 - x] \in Nat \ {0}
  BY <1>1, Pow4Facts
<1>3. a \div Pow4[q - 1 - x] \in Nat
  BY <1>2, DivMod
<1> DEFINE y == a \div Pow4[q - 1 - x]
<1> HIDE DEF y
<1>4. y % 4 \in 0..3
  BY <1>3 DEF y
<1> QED BY <1>4 DEF Digit, y

\* One more partition: its digit decides, and where it does not the earlier
\* ones do.
LEMMA KeyStep ==
    ASSUME NEW a \in Nat, NEW c \in Nat, NEW q \in Nat, NEW d \in 0..(q - 1)
    PROVE  /\ Before(a, c, d + 1, q) <=> \/ Digit(a, d, q) < Digit(c, d, q)
                                         \/ /\ Digit(a, d, q) = Digit(c, d, q)
                                            /\ Before(a, c, d, q)
           /\ Alike(a, c, d + 1, q) <=> Alike(a, c, d, q) /\ Digit(a, d, q) = Digit(c, d, q)
<1>0. /\ d + 1 \in Nat /\ (d + 1) - 1 = d /\ d \in 0..d
      /\ 0..d = 0..(d - 1) \cup {d}
      /\ (d + 1)..d = {}
      /\ \A x \in 0..(d - 1) : (x + 1)..d = (x + 1)..(d - 1) \cup {d}
  OBVIOUS
<1>1. Alike(a, c, d + 1, q) <=> Alike(a, c, d, q) /\ Digit(a, d, q) = Digit(c, d, q)
  BY <1>0 DEF Alike
<1>2. ASSUME Before(a, c, d + 1, q)
      PROVE  \/ Digit(a, d, q) < Digit(c, d, q)
             \/ Digit(a, d, q) = Digit(c, d, q) /\ Before(a, c, d, q)
  <2>1. PICK x \in 0..d : /\ Digit(a, x, q) < Digit(c, x, q)
                          /\ \A y \in (x + 1)..d : Digit(a, y, q) = Digit(c, y, q)
    BY <1>0, <1>2 DEF Before
  <2>2. CASE x = d
    BY <2>1, <2>2
  <2>3. CASE x # d
    <3>1. x \in 0..(d - 1)
      BY <2>3
    <3> QED BY <1>0, <2>1, <3>1 DEF Before
  <2> QED BY <2>2, <2>3
<1>3. ASSUME Digit(a, d, q) < Digit(c, d, q) PROVE Before(a, c, d + 1, q)
  BY <1>0, <1>3 DEF Before
<1>4. ASSUME Digit(a, d, q) = Digit(c, d, q), Before(a, c, d, q)
      PROVE  Before(a, c, d + 1, q)
  <2>1. PICK x \in 0..(d - 1) :
              /\ Digit(a, x, q) < Digit(c, x, q)
              /\ \A y \in (x + 1)..(d - 1) : Digit(a, y, q) = Digit(c, y, q)
    BY <1>4 DEF Before
  <2>2. \A y \in (x + 1)..d : Digit(a, y, q) = Digit(c, y, q)
    BY <1>0, <1>4, <2>1
  <2> QED BY <1>0, <2>1, <2>2 DEF Before
<1> QED BY <1>1, <1>2, <1>3, <1>4

\* Before is a strict order of the classes of Alike, and a total one.
Ordered(a, b, c, d, q) ==
    /\ ~ (Before(a, b, d, q) /\ Alike(a, b, d, q))
    /\ ~ (Before(a, b, d, q) /\ Before(b, a, d, q))
    /\ Before(a, b, d, q) \/ Before(b, a, d, q) \/ Alike(a, b, d, q)
    /\ Alike(a, b, d, q) => Alike(b, a, d, q)
    /\ Alike(a, b, d, q) /\ Alike(b, c, d, q) => Alike(a, c, d, q)
    /\ Before(a, b, d, q) /\ Before(b, c, d, q) => Before(a, c, d, q)
    /\ Alike(a, b, d, q) /\ Before(b, c, d, q) => Before(a, c, d, q)
    /\ Before(a, b, d, q) /\ Alike(b, c, d, q) => Before(a, c, d, q)

\* Before is a strict order of the symbols in which the alike ones are not
\* ordered, and which does not tell them apart.
LEMMA KeyOrder ==
    ASSUME NEW q \in Nat, NEW d \in 0..q, NEW a \in Nat, NEW b \in Nat, NEW c \in Nat
    PROVE  Ordered(a, b, c, d, q)
<1> DEFINE T == {x \in Nat : x <= q => \A a1, b1, c1 \in Nat : Ordered(a1, b1, c1, x, q)}
<1>1. 0 \in T
  <2>1. \A a1, b1 \in Nat : ~ Before(a1, b1, 0, q) /\ Alike(a1, b1, 0, q)
    BY DEF Before, Alike
  <2> QED BY <2>1 DEF Ordered
<1>2. ASSUME NEW x \in Nat, x \in T PROVE x + 1 \in T
  <2>1. SUFFICES ASSUME x + 1 <= q, NEW a1 \in Nat, NEW b1 \in Nat, NEW c1 \in Nat
                 PROVE  Ordered(a1, b1, c1, x + 1, q)
    OBVIOUS
  <2>2. x \in 0..(q - 1) /\ x <= q
    BY <2>1
  <2>3. \A a2, b2, c2 \in Nat : Ordered(a2, b2, c2, x, q)
    BY <1>2, <2>2
  <2> DEFINE da == Digit(a1, x, q)
             db == Digit(b1, x, q)
             dc == Digit(c1, x, q)
  <2>4. da \in Int /\ db \in Int /\ dc \in Int
    BY <2>2, DigitType
  <2>5. /\ Before(a1, b1, x + 1, q) <=> da < db \/ (da = db /\ Before(a1, b1, x, q))
        /\ Before(b1, a1, x + 1, q) <=> db < da \/ (db = da /\ Before(b1, a1, x, q))
        /\ Before(b1, c1, x + 1, q) <=> db < dc \/ (db = dc /\ Before(b1, c1, x, q))
        /\ Before(a1, c1, x + 1, q) <=> da < dc \/ (da = dc /\ Before(a1, c1, x, q))
    BY <2>2, KeyStep
  <2>6. /\ Alike(a1, b1, x + 1, q) <=> Alike(a1, b1, x, q) /\ da = db
        /\ Alike(b1, a1, x + 1, q) <=> Alike(b1, a1, x, q) /\ db = da
        /\ Alike(b1, c1, x + 1, q) <=> Alike(b1, c1, x, q) /\ db = dc
        /\ Alike(a1, c1, x + 1, q) <=> Alike(a1, c1, x, q) /\ da = dc
    BY <2>2, KeyStep
  <2>7. Ordered(a1, b1, c1, x, q)
    BY <2>3
  <2> HIDE DEF da, db, dc
  <2>8. /\ ~ (Before(a1, b1, x + 1, q) /\ Alike(a1, b1, x + 1, q))
        /\ ~ (Before(a1, b1, x + 1, q) /\ Before(b1, a1, x + 1, q))
        /\ Before(a1, b1, x + 1, q) \/ Before(b1, a1, x + 1, q) \/ Alike(a1, b1, x + 1, q)
        /\ Alike(a1, b1, x + 1, q) => Alike(b1, a1, x + 1, q)
    BY <2>4, <2>5, <2>6, <2>7 DEF Ordered
  <2>9. /\ Alike(a1, b1, x + 1, q) /\ Alike(b1, c1, x + 1, q) => Alike(a1, c1, x + 1, q)
        /\ Before(a1, b1, x + 1, q) /\ Before(b1, c1, x + 1, q) => Before(a1, c1, x + 1, q)
        /\ Alike(a1, b1, x + 1, q) /\ Before(b1, c1, x + 1, q) => Before(a1, c1, x + 1, q)
        /\ Before(a1, b1, x + 1, q) /\ Alike(b1, c1, x + 1, q) => Before(a1, c1, x + 1, q)
    BY <2>4, <2>5, <2>6, <2>7 DEF Ordered
  <2> QED BY <2>8, <2>9 DEF Ordered
<1> HIDE DEF T
<1>3. \A x \in Nat : x \in T
  BY <1>1, <1>2, NatSet
<1>4. d \in Nat /\ d <= q
  OBVIOUS
<1> QED BY <1>3, <1>4 DEF T

-----------------------------------------------------------------------------
(***************************************************************************)
(* PlaceAt is a rank.                                                      *)
(***************************************************************************)

\* The positions that d partitions put before position i, taken with symbol c.
Ahead(s, c, i, d, q) ==
    {j \in DOMAIN s : Before(s[j], c, d, q) \/ (Alike(s[j], c, d, q) /\ j < i)}

\* Where d partitions put position x of s.
Spot(s, x, d, q) == PlaceAt(s, s[x], x, d, q)

\* The sequences of n symbols.
Arrays(n) == [0..(n - 1) -> Nat]

\* The place of position i is the number of positions ahead of it.
LEMMA PlaceIsRank ==
    ASSUME NEW n \in Nat, NEW s \in Arrays(n), NEW q \in Nat, NEW d \in 0..q,
           NEW c \in Nat, NEW i \in 0..n
    PROVE  /\ IsFiniteSet(Ahead(s, c, i, d, q))
           /\ PlaceAt(s, c, i, d, q) = Cardinality(Ahead(s, c, i, d, q))
           /\ PlaceAt(s, c, i, d, q) \in 0..n
<1> DEFINE U == Ahead(s, c, i, d, q)
           A == {j \in DOMAIN s : Before(s[j], c, d, q)}
           B == {j \in 0..(i - 1) : Alike(s[j], c, d, q)}
<1>1. IsFiniteSet(0..(n - 1)) /\ Cardinality(0..(n - 1)) = n
  BY FS_Interval
<1>2. U \subseteq 0..(n - 1)
  BY DEF Ahead, Arrays
<1>3. IsFiniteSet(U) /\ Cardinality(U) <= n /\ Cardinality(U) \in Nat
  BY <1>1, <1>2, FS_Subset, FS_CardinalityType
<1>4. U = A \cup B
  <2>1. DOMAIN s = 0..(n - 1)
    BY DEF Arrays
  <2>2. \A j : j \in 0..(i - 1) <=> j \in 0..(n - 1) /\ j < i
    OBVIOUS
  <2> QED BY <2>1, <2>2 DEF Ahead
<1>5. A \cap B = {}
  <2>1. \A j \in 0..(n - 1) : s[j] \in Nat
    BY DEF Arrays
  <2>2. \A j \in 0..(n - 1) : ~ (Before(s[j], c, d, q) /\ Alike(s[j], c, d, q))
    BY <2>1, KeyOrder DEF Ordered
  <2> QED BY <2>2
<1> HIDE DEF U, A, B
<1>6. Cardinality(U) = Cardinality(A) + Cardinality(B)
  BY <1>3, <1>4, <1>5, CardParts
<1>7. PlaceAt(s, c, i, d, q) = Cardinality(A) + Cardinality(B)
  BY DEF PlaceAt, A, B
<1> QED BY <1>3, <1>6, <1>7 DEF U

\* The same for a position and its own symbol.
LEMMA SpotIsRank ==
    ASSUME NEW n \in Nat, NEW s \in Arrays(n), NEW q \in Nat, NEW d \in 0..q,
           NEW x \in 0..(n - 1)
    PROVE  /\ IsFiniteSet(Ahead(s, s[x], x, d, q))
           /\ Spot(s, x, d, q) = Cardinality(Ahead(s, s[x], x, d, q))
<1>1. x \in 0..n
  OBVIOUS
<1>2. PICK c \in Nat : c = s[x]
  BY DEF Arrays
<1>3. IsFiniteSet(Ahead(s, c, x, d, q))
  BY <1>1, PlaceIsRank
<1>4. PlaceAt(s, c, x, d, q) = Cardinality(Ahead(s, c, x, d, q))
  BY <1>1, PlaceIsRank
<1> QED BY <1>2, <1>3, <1>4 DEF Spot

\* Of two places, the one with the smaller key and position is the smaller.
LEMMA PlaceOrder ==
    ASSUME NEW n \in Nat, NEW s \in Arrays(n), NEW q \in Nat, NEW d \in 0..q,
           NEW c \in Nat, NEW i \in 0..n, NEW x \in 0..(n - 1)
    PROVE  /\ Spot(s, x, d, q) \in 0..(n - 1)
           /\ Spot(s, x, d, q) < PlaceAt(s, c, i, d, q) <=> x \in Ahead(s, c, i, d, q)
<1> DEFINE X == Ahead(s, s[x], x, d, q)
           C == Ahead(s, c, i, d, q)
<1>0. /\ \A j \in 0..(n - 1) : s[j] \in Nat
      /\ x \in 0..n /\ DOMAIN s = 0..(n - 1)
  BY DEF Arrays
<1>1. /\ IsFiniteSet(X) /\ Spot(s, x, d, q) = Cardinality(X) /\ Cardinality(X) \in Nat
      /\ IsFiniteSet(C) /\ PlaceAt(s, c, i, d, q) = Cardinality(C) /\ Cardinality(C) \in Nat
  <2>2. IsFiniteSet(X) /\ Spot(s, x, d, q) = Cardinality(X)
    BY SpotIsRank
  <2>3. IsFiniteSet(C) /\ PlaceAt(s, c, i, d, q) = Cardinality(C)
    <3>1. PlaceAt(s, c, i, d, q) = Cardinality(Ahead(s, c, i, d, q))
      BY PlaceIsRank
    <3>2. IsFiniteSet(Ahead(s, c, i, d, q))
      BY PlaceIsRank
    <3> QED BY <3>1, <3>2
  <2> HIDE DEF X, C
  <2> QED BY <2>2, <2>3, FS_CardinalityType
<1>2. x \notin X
  <2>1. ~ Before(s[x], s[x], d, q)
    BY <1>0, KeyOrder DEF Ordered
  <2> QED BY <2>1, <1>0 DEF Ahead
<1>3. Spot(s, x, d, q) \in 0..(n - 1)
  <2>1. X \subseteq 0..(n - 1) /\ X # 0..(n - 1)
    BY <1>0, <1>2 DEF Ahead
  <2>2. IsFiniteSet(0..(n - 1)) /\ Cardinality(0..(n - 1)) = n
    BY FS_Interval
  <2>3. Cardinality(X) <= n /\ Cardinality(X) # n
    BY <2>1, <2>2, FS_Subset
  <2> QED BY <1>1, <2>3
<1>4. ASSUME x \in C PROVE Spot(s, x, d, q) < PlaceAt(s, c, i, d, q)
  <2>1. ASSUME NEW j \in X PROVE j \in C
    <3>1. j \in 0..(n - 1) /\ s[j] \in Nat /\ s[x] \in Nat
      BY <1>0, <2>1 DEF Ahead
    <3>2. Ordered(s[j], s[x], c, d, q)
      BY <3>1, KeyOrder
    <3>3. Before(s[j], s[x], d, q) \/ (Alike(s[j], s[x], d, q) /\ j < x)
      BY <2>1 DEF Ahead
    <3>4. Before(s[x], c, d, q) \/ (Alike(s[x], c, d, q) /\ x < i)
      BY <1>4 DEF Ahead
    <3>5. j < x /\ x < i => j < i
      BY <3>1
    <3>6. Before(s[j], c, d, q) \/ (Alike(s[j], c, d, q) /\ j < i)
      BY <3>2, <3>3, <3>4, <3>5 DEF Ordered
    <3> QED BY <3>1, <3>6, <1>0 DEF Ahead
  <2>2. X \subseteq C /\ X # C
    BY <2>1, <1>2, <1>4
  <2>3. Cardinality(X) <= Cardinality(C) /\ Cardinality(X) # Cardinality(C)
    BY <2>2, <1>1, FS_Subset
  <2> QED BY <1>1, <2>3
<1>5. ASSUME x \notin C PROVE PlaceAt(s, c, i, d, q) <= Spot(s, x, d, q)
  <2>1. ASSUME NEW j \in C PROVE j \in X
    <3>1. j \in 0..(n - 1) /\ s[j] \in Nat /\ s[x] \in Nat
      BY <1>0, <2>1 DEF Ahead
    <3>2. Ordered(s[j], c, s[x], d, q) /\ Ordered(s[x], c, s[x], d, q)
      BY <3>1, KeyOrder
    <3>3. Before(s[j], c, d, q) \/ (Alike(s[j], c, d, q) /\ j < i)
      BY <2>1 DEF Ahead
    <3>4. ~ Before(s[x], c, d, q) /\ ~ (Alike(s[x], c, d, q) /\ x < i)
      BY <1>5, <1>0 DEF Ahead
    <3>5. j < i /\ ~ (x < i) => j < x
      BY <3>1
    <3>6. Alike(s[x], c, d, q) => Alike(c, s[x], d, q)
      BY <3>2 DEF Ordered
    <3>7. Before(s[j], s[x], d, q) \/ (Alike(s[j], s[x], d, q) /\ j < x)
      BY <3>2, <3>3, <3>4, <3>5, <3>6 DEF Ordered
    <3> QED BY <3>1, <3>7, <1>0 DEF Ahead
  <2>2. C \subseteq X
    BY <2>1
  <2>3. Cardinality(C) <= Cardinality(X)
    BY <2>2, <1>1, FS_Subset
  <2> QED BY <1>1, <2>3
<1> HIDE DEF X, C
<1>6. Spot(s, x, d, q) < PlaceAt(s, c, i, d, q) <=> x \in C
  BY <1>1, <1>4, <1>5
<1> QED BY <1>3, <1>6 DEF C

\* d partitions permute the positions of s.
Permutes(n, s, d, q) ==
    /\ \A x \in 0..(n - 1) : Spot(s, x, d, q) \in 0..(n - 1)
    /\ \A x, y \in 0..(n - 1) : Spot(s, x, d, q) = Spot(s, y, d, q) => x = y
    /\ \A y \in 0..(n - 1) : \E x \in 0..(n - 1) : Spot(s, x, d, q) = y

\* Partitioning permutes the positions.
LEMMA SpotBijective ==
    ASSUME NEW n \in Nat, NEW s \in Arrays(n), NEW q \in Nat, NEW d \in 0..q
    PROVE  Permutes(n, s, d, q)
<1> DEFINE f == [x \in 0..(n - 1) |-> Spot(s, x, d, q)]
<1>0. /\ \A x \in 0..(n - 1) : s[x] \in Nat /\ x \in 0..n
      /\ DOMAIN s = 0..(n - 1)
  BY DEF Arrays
<1>1. \A x \in 0..(n - 1) : Spot(s, x, d, q) \in 0..(n - 1)
  <2>1. 0 \in Nat /\ 0 \in 0..n
    OBVIOUS
  <2> QED BY <2>1, PlaceOrder
<1>2. ASSUME NEW x \in 0..(n - 1), NEW y \in 0..(n - 1), x # y
      PROVE  Spot(s, x, d, q) # Spot(s, y, d, q)
  <2>1. Ordered(s[x], s[y], s[x], d, q)
    BY <1>0, KeyOrder
  <2>2. x \in Ahead(s, s[y], y, d, q) \/ y \in Ahead(s, s[x], x, d, q)
    <3>1. x < y \/ y < x
      BY <1>2
    <3> QED BY <2>1, <3>1, <1>0 DEF Ordered, Ahead
  <2>3. Spot(s, x, d, q) < Spot(s, y, d, q) \/ Spot(s, y, d, q) < Spot(s, x, d, q)
    <3>1. x \in Ahead(s, s[y], y, d, q) => Spot(s, x, d, q) < Spot(s, y, d, q)
      BY <1>0, PlaceOrder DEF Spot
    <3>2. y \in Ahead(s, s[x], x, d, q) => Spot(s, y, d, q) < Spot(s, x, d, q)
      BY <1>0, PlaceOrder DEF Spot
    <3> QED BY <2>2, <3>1, <3>2
  <2> QED BY <1>1, <2>3
<1>3. f \in Injection(0..(n - 1), 0..(n - 1))
  <2>1. f \in [0..(n - 1) -> 0..(n - 1)]
    BY <1>1
  <2>2. \A x, y \in 0..(n - 1) : f[x] = f[y] => x = y
    BY <1>2
  <2> QED BY <2>1, <2>2 DEF Injection, IsInjective
<1>4. IsFiniteSet(0..(n - 1))
  BY FS_Interval
<1>5. f \in Surjection(0..(n - 1), 0..(n - 1))
  BY <1>3, <1>4, FS_Injection
<1>6. \A y \in 0..(n - 1) : \E x \in 0..(n - 1) : Spot(s, x, d, q) = y
  BY <1>5 DEF Surjection
<1> QED BY <1>1, <1>2, <1>6 DEF Permutes

\* d partitions take the positions in A to those in B.
Carries(n, s, d, q, A, B) == \A x \in 0..(n - 1) : x \in A <=> Spot(s, x, d, q) \in B

\* The image of a set of positions under the partitioning is as large.
LEMMA SpotImage ==
    ASSUME NEW n \in Nat, NEW s \in Arrays(n), NEW q \in Nat, NEW d \in 0..q,
           NEW A \in SUBSET (0..(n - 1)), NEW B \in SUBSET (0..(n - 1)),
           Carries(n, s, d, q, A, B)
    PROVE  Cardinality(A) = Cardinality(B)
<1> DEFINE f == [x \in A |-> Spot(s, x, d, q)]
<1>1. /\ \A x, y \in 0..(n - 1) : Spot(s, x, d, q) = Spot(s, y, d, q) => x = y
      /\ \A y \in 0..(n - 1) : \E x \in 0..(n - 1) : Spot(s, x, d, q) = y
  <2>1. Permutes(n, s, d, q)
    BY SpotBijective
  <2> QED BY <2>1 DEF Permutes
<1>2. f \in [A -> B]
  BY DEF Carries
<1>3. \A x, y \in A : f[x] = f[y] => x = y
  BY <1>1
<1>4. \A y \in B : \E x \in A : f[x] = y
  BY <1>1 DEF Carries
<1> HIDE DEF f
<1>5. f \in Bijection(A, B)
  BY <1>2, <1>3, <1>4 DEF Bijection, Injection, Surjection, IsInjective
<1>6. IsFiniteSet(A)
  <2>1. IsFiniteSet(0..(n - 1))
    BY FS_Interval
  <2> QED BY <2>1, FS_Subset
<1> QED BY <1>5, <1>6, FS_Bijection DEF ExistsBijection

-----------------------------------------------------------------------------
(***************************************************************************)
(* One level of a descent.                                                 *)
(***************************************************************************)

\* L holds digit d of every position of s, where d partitions put it.
IsLevel(L, n, s, d, q) ==
    \A x \in 0..(n - 1) : L[Spot(s, x, d, q)] = Digit(s[x], d, q)

\* Positions of s whose digit of level d is below y: where the group of y starts.
Smaller(s, y, d, q) == {j \in DOMAIN s : Digit(s[j], d, q) < y}

\* Positions of s whose digit of level d is y, and positions of a level with it.
Having(s, y, d, q) == {j \in DOMAIN s : Digit(s[j], d, q) = y}
Holding(L, n, y) == {x \in 0..(n - 1) : L[x] = y}

\* A digit's occurrences in a level are its occurrences in s.
LEMMA LevelCount ==
    ASSUME NEW n \in Nat, NEW s \in Arrays(n), NEW q \in Nat, NEW d \in 0..q,
           NEW L, IsLevel(L, n, s, d, q), NEW y
    PROVE  Cardinality(Holding(L, n, y)) = Cardinality(Having(s, y, d, q))
<1> DEFINE A == {j \in 0..(n - 1) : Digit(s[j], d, q) = y}
           B == {x \in 0..(n - 1) : L[x] = y}
<1>1. ASSUME NEW x \in 0..(n - 1) PROVE x \in A <=> Spot(s, x, d, q) \in B
  <2>1. Spot(s, x, d, q) \in 0..(n - 1)
    BY SpotBijective DEF Permutes
  <2> QED BY <2>1 DEF IsLevel
<1>2. A \in SUBSET (0..(n - 1)) /\ B \in SUBSET (0..(n - 1))
  OBVIOUS
<1> HIDE DEF A, B
<1>3. Cardinality(A) = Cardinality(B)
  <2>1. Carries(n, s, d, q, A, B)
    BY <1>1 DEF Carries
  <2> QED BY <1>2, <2>1, SpotImage
<1>4. A = Having(s, y, d, q) /\ B = Holding(L, n, y)
  BY DEF A, B, Having, Holding, Arrays
<1> QED BY <1>3, <1>4

\* The start of the digit's group and the digit's rank in the level take a
\* place to the place one level down.
LEMMA PlaceStep ==
    ASSUME NEW n \in Nat, NEW s \in Arrays(n), NEW q \in Nat, NEW d \in 0..(q - 1),
           NEW L, IsLevel(L, n, s, d, q), NEW c \in Nat, NEW i \in 0..n
    PROVE  Cardinality(Smaller(s, Digit(c, d, q), d, q))
             + RankIn(L, Digit(c, d, q), PlaceAt(s, c, i, d, q))
             = PlaceAt(s, c, i, d + 1, q)
<1> DEFINE y == Digit(c, d, q)
           p == PlaceAt(s, c, i, d, q)
           S == Smaller(s, y, d, q)
           A == {x \in Ahead(s, c, i, d, q) : Digit(s[x], d, q) = y}
           B == {x \in 0..(p - 1) : L[x] = y}
           U == Ahead(s, c, i, d + 1, q)
<1>0. /\ d \in 0..q /\ d + 1 \in 0..q /\ DOMAIN s = 0..(n - 1)
      /\ \A x \in 0..(n - 1) : s[x] \in Nat
  BY DEF Arrays
<1>1. p \in 0..n
  BY <1>0, PlaceIsRank
<1>2. Cardinality(A) = Cardinality(B)
  <2>1. A \in SUBSET (0..(n - 1))
    BY <1>0 DEF Ahead
  <2>2. B \in SUBSET (0..(n - 1))
    BY <1>1
  <2>3. ASSUME NEW x \in 0..(n - 1) PROVE x \in A <=> Spot(s, x, d, q) \in B
    <3>1. /\ Spot(s, x, d, q) \in 0..(n - 1)
          /\ Spot(s, x, d, q) < p <=> x \in Ahead(s, c, i, d, q)
      BY <1>0, PlaceOrder
    <3>2. L[Spot(s, x, d, q)] = Digit(s[x], d, q)
      BY DEF IsLevel
    <3>3. Spot(s, x, d, q) \in 0..(p - 1) <=> Spot(s, x, d, q) < p
      BY <1>1, <3>1
    <3> QED BY <3>1, <3>2, <3>3
  <2> HIDE DEF A, B
  <2>4. PICK e \in 0..q : e = d
    OBVIOUS
  <2>5. Carries(n, s, e, q, A, B)
    BY <2>3, <2>4 DEF Carries
  <2> QED BY <2>1, <2>2, <2>5, SpotImage
<1>3. U = S \cup A /\ S \cap A = {}
  <2>1. ASSUME NEW x \in 0..(n - 1)
        PROVE  /\ x \in U <=> x \in S \/ x \in A
               /\ ~ (x \in S /\ x \in A)
    <3>1. /\ Before(s[x], c, d + 1, q)
               <=> (Digit(s[x], d, q) < y \/ (Digit(s[x], d, q) = y /\ Before(s[x], c, d, q)))
          /\ Alike(s[x], c, d + 1, q) <=> Alike(s[x], c, d, q) /\ Digit(s[x], d, q) = y
      <4>1. \A a \in Nat :
              /\ Before(a, c, d + 1, q)
                   <=> (Digit(a, d, q) < y \/ (Digit(a, d, q) = y /\ Before(a, c, d, q)))
              /\ Alike(a, c, d + 1, q) <=> Alike(a, c, d, q) /\ Digit(a, d, q) = y
        BY KeyStep
      <4> QED BY <1>0, <4>1
    <3>2. Digit(s[x], d, q) \in Int /\ y \in Int
      BY <1>0, DigitType
    <3>3. ~ (Digit(s[x], d, q) < y /\ Digit(s[x], d, q) = y)
      BY <3>2
    <3> HIDE DEF y
    <3>4. x \in S <=> Digit(s[x], d, q) < y
      BY <1>0 DEF Smaller
    <3>5. x \in U <=> \/ Before(s[x], c, d + 1, q)
                      \/ Alike(s[x], c, d + 1, q) /\ x < i
      BY <1>0 DEF Ahead
    <3>6. x \in A <=> /\ Digit(s[x], d, q) = y
                      /\ Before(s[x], c, d, q) \/ (Alike(s[x], c, d, q) /\ x < i)
      BY <1>0 DEF Ahead
    <3> HIDE DEF S, U, A
    <3> QED BY <3>1, <3>3, <3>4, <3>5, <3>6, Zenon
  <2>2. U \subseteq 0..(n - 1) /\ S \subseteq 0..(n - 1) /\ A \subseteq 0..(n - 1)
    BY <1>0 DEF Ahead, Smaller
  <2> HIDE DEF S, U, A
  <2> QED BY <2>1, <2>2
<1>4. IsFiniteSet(U) /\ PlaceAt(s, c, i, d + 1, q) = Cardinality(U)
  <2>0. PICK e \in 0..q : e = d + 1
    BY <1>0
  <2>1. PlaceAt(s, c, i, e, q) = Cardinality(Ahead(s, c, i, e, q))
    BY PlaceIsRank
  <2>2. IsFiniteSet(Ahead(s, c, i, e, q))
    BY PlaceIsRank
  <2> QED BY <2>0, <2>1, <2>2
<1>5. RankIn(L, y, p) = Cardinality(B)
  BY DEF RankIn
<1> HIDE DEF S, A, B, U, y, p
<1>6. Cardinality(U) = Cardinality(S) + Cardinality(A)
  BY <1>3, <1>4, CardParts
<1>7. Cardinality(S) + RankIn(L, y, p) = PlaceAt(s, c, i, d + 1, q)
  BY <1>2, <1>4, <1>5, <1>6
<1> QED BY <1>7 DEF S, y, p

-----------------------------------------------------------------------------
(***************************************************************************)
(* The digits of a symbol determine it.                                    *)
(***************************************************************************)

\* The first digits of a symbol, as a number.
Prefix(a, d, q) == a \div Pow4[q - d]

\* One more digit, as access reads it.
LEMMA PrefixStep ==
    ASSUME NEW a \in Nat, NEW q \in Nat, NEW d \in 0..(q - 1)
    PROVE  /\ Prefix(a, d, q) \in Nat
           /\ Prefix(a, d + 1, q) = Prefix(a, d, q) * 4 + Digit(a, d, q)
<1> DEFINE P == Pow4[q - 1 - d]
           u == a \div P
           v == u \div 4
           w == u % 4
           r == a % P
<1>1. q - 1 - d \in Nat /\ q - (d + 1) = q - 1 - d /\ q - d = (q - 1 - d) + 1
  OBVIOUS
<1>2. P \in Nat \ {0} /\ Pow4[q - d] = 4 * P
  BY <1>1, Pow4Facts
<1>3. Prefix(a, d + 1, q) = u /\ Prefix(a, d, q) = a \div (4 * P) /\ Digit(a, d, q) = w
  BY <1>1, <1>2 DEF Prefix, Digit
<1>4. u \in Nat /\ r \in 0..(P - 1) /\ a = u * P + r
  <2> HIDE DEF P
  <2> QED BY <1>2, DivMod
<1>5. v \in Nat /\ w \in 0..3 /\ u = v * 4 + w
  <2> HIDE DEF u
  <2> QED BY <1>4
<1> HIDE DEF P, u, v, w, r
<1>6. a \div (4 * P) = v
  <2>1. 4 * P \in Nat \ {0}
    BY <1>2
  <2>2. a = v * (4 * P) + (w * P + r)
    <3>1. u * P = v * (4 * P) + w * P
      <4>1. (v * 4 + w) * P = v * (4 * P) + w * P
        BY <1>2, <1>5
      <4> QED BY <4>1, <1>5
    <3>2. v * (4 * P) \in Nat /\ w * P \in Nat /\ r \in Nat
      BY <1>2, <1>4, <1>5
    <3> QED BY <1>4, <3>1, <3>2
  <2>3. w * P + r < 4 * P /\ w * P + r \in Nat
    BY <1>2, <1>4, <1>5
  <2> DEFINE R == w * P + r
             Q == 4 * P
             V == v * Q
  <2> HIDE DEF R, Q
  <2>4. V \in Nat /\ R \in Nat /\ Q \in Nat \ {0} /\ a = V + R /\ R < Q
    BY <1>5, <2>1, <2>2, <2>3 DEF R, Q
  <2>5. v * Q <= a /\ a < v * Q + Q
    <3>1. V <= a /\ a < V + Q
      <4> HIDE DEF V
      <4> QED BY <2>4
    <3> QED BY <3>1
  <2>6. a \div Q = v
    BY <2>4, <2>5, <1>5, DivUnique
  <2> QED BY <2>6 DEF Q
<1> QED BY <1>3, <1>5, <1>6

\* Before the first digit there is nothing, and after the last one the symbol.
LEMMA PrefixEnds ==
    ASSUME NEW q \in Nat, NEW a \in 0..(Pow4[q] - 1)
    PROVE  a \in Nat /\ Prefix(a, 0, q) = 0 /\ Prefix(a, q, q) = a
<1>1. Pow4[q] \in Nat \ {0} /\ Pow4[0] = 1 /\ q - q = 0 /\ q - 0 = q
  BY Pow4Facts
<1> DEFINE P == Pow4[q]
<1>2. a \in Nat /\ P \in Nat \ {0} /\ 0 * P <= a /\ a < 0 * P + P
  BY <1>1
<1>3. a \div P = 0
  <2> HIDE DEF P
  <2> QED BY <1>2, DivUnique
<1>4. a \div 1 = a
  BY <1>2
<1> QED BY <1>1, <1>2, <1>3, <1>4 DEF Prefix

\* Prefixes stay below their power of four.
LEMMA PrefixBound ==
    ASSUME NEW q \in Nat, NEW a \in 0..(Pow4[q] - 1), NEW d \in 0..q
    PROVE  Prefix(a, d, q) \in 0..Pow4[q]
<1>1. q - d \in Nat /\ Pow4[q - d] \in Nat \ {0} /\ Pow4[q] \in Nat \ {0}
  BY Pow4Facts
<1> DEFINE P == Pow4[q - d]
           u == a \div P
<1>2. a \in Nat /\ a <= Pow4[q] /\ u \in Nat /\ u * P <= a
  <2>1. a \in Nat /\ a <= Pow4[q] /\ P \in Nat \ {0}
    BY <1>1
  <2> DEFINE r == a % P
             m == u * P
  <2>2. u \in Nat /\ r \in 0..(P - 1) /\ a = m + r
    <3> HIDE DEF P
    <3> QED BY <2>1, DivMod
  <2>3. m \in Nat
    <3> HIDE DEF P, u
    <3> QED BY <2>1, <2>2
  <2>4. m <= a
    <3> HIDE DEF P, m, r
    <3> QED BY <2>1, <2>2, <2>3
  <2> QED BY <2>1, <2>2, <2>4
<1>3. u <= u * P
  <2>1. P \in Nat /\ P >= 1
    BY <1>1
  <2> HIDE DEF P, u
  <2> QED BY <2>1, <1>2
<1>4. u * P \in Nat
  BY <1>1, <1>2
<1>5. u <= Pow4[q]
  <2> DEFINE m == u * P
  <2>1. u <= m /\ m <= a /\ m \in Nat
    BY <1>2, <1>3, <1>4
  <2> HIDE DEF m, u
  <2> QED BY <1>1, <1>2, <2>1
<1>6. Prefix(a, d, q) = u
  BY DEF Prefix
<1> HIDE DEF u
<1> QED BY <1>1, <1>2, <1>5, <1>6

\* Symbols with the same digits are equal.
LEMMA AlikePrefix ==
    ASSUME NEW q \in Nat, NEW a \in 0..(Pow4[q] - 1), NEW c \in 0..(Pow4[q] - 1)
    PROVE  Alike(a, c, q, q) <=> a = c
<1> DEFINE T == {d \in Nat : d <= q /\ Alike(a, c, d, q) => Prefix(a, d, q) = Prefix(c, d, q)}
<1>0. a \in Nat /\ c \in Nat
  BY PrefixEnds
<1>1. 0 \in T
  BY PrefixEnds
<1>2. ASSUME NEW d \in Nat, d \in T PROVE d + 1 \in T
  <2>1. SUFFICES ASSUME d + 1 <= q, Alike(a, c, d + 1, q)
                 PROVE  Prefix(a, d + 1, q) = Prefix(c, d + 1, q)
    OBVIOUS
  <2>2. d \in 0..(q - 1) /\ d <= q
    BY <2>1
  <2>3. Alike(a, c, d, q) /\ Digit(a, d, q) = Digit(c, d, q)
    BY <1>0, <2>1, <2>2, KeyStep
  <2>4. Prefix(a, d, q) = Prefix(c, d, q)
    BY <1>2, <2>2, <2>3
  <2> QED BY <1>0, <2>2, <2>3, <2>4, PrefixStep
<1> HIDE DEF T
<1>3. \A d \in Nat : d \in T
  BY <1>1, <1>2, NatSet
<1>4. Alike(a, c, q, q) => Prefix(a, q, q) = Prefix(c, q, q)
  <2>1. q \in T /\ q <= q
    BY <1>3
  <2> QED BY <2>1 DEF T
<1>5. Alike(a, a, q, q)
  BY DEF Alike
<1> QED BY <1>4, <1>5, PrefixEnds

\* After all the partitions a place is where map2 sends it: behind the smaller
\* groups, and behind the symbol's own occurrences so far.
LEMMA PlaceIsMapPos ==
    ASSUME NEW q \in Nat, NEW n \in Nat, NEW s \in [0..(n - 1) -> 0..(Pow4[q] - 1)],
           NEW c \in 0..(Pow4[q] - 1), NEW i \in 0..n
    PROVE  /\ PlaceAt(s, c, i, q, q) = MapPos(s, c, i, q)
           /\ GroupStart(s, c, q) \in Nat /\ RankIn(s, c, i) \in Nat
           /\ i = 0 => RankIn(s, c, i) = 0
<1>1. \A j \in 0..(i - 1) : s[j] \in 0..(Pow4[q] - 1)
  OBVIOUS
<1>2. \A j \in 0..(i - 1) : Alike(s[j], c, q, q) <=> s[j] = c
  BY <1>1, AlikePrefix
<1>3. {j \in 0..(i - 1) : Alike(s[j], c, q, q)} = {j \in 0..(i - 1) : s[j] = c}
  BY <1>2
<1>4. PlaceAt(s, c, i, q, q) = MapPos(s, c, i, q)
  BY <1>3 DEF PlaceAt, MapPos, GroupStart, RankIn
<1>5. IsFiniteSet(0..(n - 1)) /\ IsFiniteSet(0..(i - 1))
  BY FS_Interval
<1>6. GroupStart(s, c, q) \in Nat
  <2> DEFINE A == {j \in DOMAIN s : Before(s[j], c, q, q)}
  <2>1. A \subseteq 0..(n - 1)
    OBVIOUS
  <2> HIDE DEF A
  <2>2. Cardinality(A) \in Nat
    BY <1>5, <2>1, FS_Subset, FS_CardinalityType
  <2> QED BY <2>2 DEF A, GroupStart
<1>7. RankIn(s, c, i) \in Nat /\ (i = 0 => RankIn(s, c, i) = 0)
  <2> DEFINE B == {j \in 0..(i - 1) : s[j] = c}
  <2>1. B \subseteq 0..(i - 1) /\ (i = 0 => B = {})
    OBVIOUS
  <2> HIDE DEF B
  <2>2. Cardinality(B) \in Nat /\ (i = 0 => Cardinality(B) = 0)
    BY <1>5, <2>1, FS_Subset, FS_CardinalityType, FS_EmptySet
  <2> QED BY <2>2 DEF B, RankIn
<1> QED BY <1>4, <1>6, <1>7

\* Nothing is before a position but the positions before it, until the first
\* partition.
LEMMA PlaceZero ==
    ASSUME NEW s, NEW c, NEW i \in Nat, NEW q
    PROVE  PlaceAt(s, c, i, 0, q) = i
<1>1. 0..(0 - 1) = {}
  OBVIOUS
<1>2. {j \in DOMAIN s : Before(s[j], c, 0, q)} = {}
  BY <1>1 DEF Before
<1>3. {j \in 0..(i - 1) : Alike(s[j], c, 0, q)} = 0..(i - 1)
  BY <1>1 DEF Alike
<1>4. Cardinality(0..(i - 1)) = i /\ Cardinality({}) = 0
  BY FS_Interval, FS_EmptySet
<1>5. PlaceAt(s, c, i, 0, q) = Cardinality({}) + Cardinality(0..(i - 1))
  BY <1>2, <1>3 DEF PlaceAt
<1> QED BY <1>4, <1>5

\* Where the group of the next digit starts.
LEMMA SmallerStep ==
    ASSUME NEW n \in Nat, NEW s \in Arrays(n), NEW q \in Nat, NEW d \in 0..(q - 1),
           NEW y \in 0..3
    PROVE  /\ Cardinality(Smaller(s, y, d, q)) \in 0..n
           /\ Cardinality(Smaller(s, 0, d, q)) = 0
           /\ Cardinality(Smaller(s, y + 1, d, q))
                = Cardinality(Smaller(s, y, d, q)) + Cardinality(Having(s, y, d, q))
<1> DEFINE A == Smaller(s, y, d, q)
           B == Having(s, y, d, q)
           U == Smaller(s, y + 1, d, q)
<1>0. DOMAIN s = 0..(n - 1) /\ \A j \in 0..(n - 1) : s[j] \in Nat
  BY DEF Arrays
<1>1. \A j \in 0..(n - 1) : Digit(s[j], d, q) \in 0..3
  BY <1>0, DigitType
<1>2. IsFiniteSet(0..(n - 1)) /\ Cardinality(0..(n - 1)) = n
  BY FS_Interval
<1>3. A \subseteq 0..(n - 1) /\ U \subseteq 0..(n - 1) /\ Smaller(s, 0, d, q) = {}
  BY <1>0, <1>1 DEF Smaller
<1>4. U = A \cup B /\ A \cap B = {}
  <2>1. ASSUME NEW j \in 0..(n - 1)
        PROVE  /\ Digit(s[j], d, q) < y + 1 <=> (Digit(s[j], d, q) < y \/ Digit(s[j], d, q) = y)
               /\ ~ (Digit(s[j], d, q) < y /\ Digit(s[j], d, q) = y)
    BY <1>1
  <2> QED BY <1>0, <2>1 DEF Smaller, Having
<1> HIDE DEF A, B, U
<1>5. IsFiniteSet(U) /\ IsFiniteSet(A) /\ Cardinality(A) <= n /\ Cardinality(A) \in Nat
  <2>1. A \in SUBSET (0..(n - 1)) /\ U \in SUBSET (0..(n - 1))
    BY <1>3
  <2>2. IsFiniteSet(A) /\ Cardinality(A) <= Cardinality(0..(n - 1))
    BY <1>2, <2>1, FS_Subset
  <2>3. IsFiniteSet(U)
    BY <1>2, <2>1, FS_Subset
  <2>4. Cardinality(A) \in Nat
    BY <2>2, FS_CardinalityType
  <2> QED BY <1>2, <2>2, <2>3, <2>4
<1>6. Cardinality(U) = Cardinality(A) + Cardinality(B)
  BY <1>4, <1>5, CardParts
<1>7. Cardinality(A) \in 0..n
  BY <1>5
<1>8. Cardinality(Smaller(s, 0, d, q)) = 0
  BY <1>3, FS_EmptySet
<1> QED BY <1>6, <1>7, <1>8 DEF A, B, U

-----------------------------------------------------------------------------
(***************************************************************************)
(* The matrix.                                                             *)
(***************************************************************************)
Ops == {"rank", "map2", "map_zero", "access", "map_batch"}
Lanes == [c : Nat, p1 : Nat, p2 : Nat, lo : Nat, hi : Nat]
Levels == 0..(qlevels_ - 1)

\* The matrix is made of the caller's sequence.
Shape ==
    /\ n_ \in Nat /\ qlevels_ \in Nat /\ syms \subseteq 0..(Pow4[qlevels_] - 1)
    /\ seq \in [0..(n_ - 1) -> syms]
    /\ DOMAIN qv_ = Levels /\ DOMAIN start_ = Levels
    /\ \A x \in Levels : start_[x] \in [0..3 -> 0..n_]
    /\ cur \in [0..(n_ - 1) -> syms] /\ l \in 0..qlevels_
    /\ pc \in {"new", "build", "ready", "descend", "done"}
    /\ pc = "new" => qlevels_ = 0

\* The levels built so far hold the digits where the partitions put them, and
\* the start of every digit's group.
Exact(x) ==
    /\ IsLevel(qv_[x], n_, seq, x, qlevels_)
    /\ \A d \in 0..3 : start_[x][d] = Cardinality(Smaller(seq, d, x, qlevels_))
LevelsExact ==
    \A x \in Levels : (pc = "build" => x < l) => Exact(x)

\* The query under way, if any.
Asked ==
    /\ lanes \in Seq(Lanes)
    /\ pc \notin {"descend", "done"} => lanes = <<>> /\ k = 1 /\ sym = 0 /\ op = "none"
    /\ pc \in {"descend", "done"} =>
         /\ op \in Ops /\ k \in 1..Len(lanes) /\ (l = qlevels_ => k = 1)
         /\ \A j \in 1..Len(lanes) :
              /\ lanes[j].p1 \in 0..n_ /\ lanes[j].p2 \in 0..n_
              /\ op # "access" => lanes[j].c \in syms
              /\ op \in {"rank", "map_zero"} => lanes[j].p1 = 0
         /\ op # "access" => sym = 0
         /\ op = "access" => Len(lanes) = 1 /\ lanes[1].p1 \in 0..(n_ - 1)
    /\ pc = "done" => l = qlevels_

\* How far lane j is.
LevelOfLane(j) == IF j < k THEN l + 1 ELSE l
LanesExact ==
    (pc \in {"descend", "done"} /\ op # "access") =>
        \A j \in 1..Len(lanes) :
            /\ lanes[j].lo = PlaceAt(seq, lanes[j].c, lanes[j].p1, LevelOfLane(j), qlevels_)
            /\ lanes[j].hi = PlaceAt(seq, lanes[j].c, lanes[j].p2, LevelOfLane(j), qlevels_)

\* access follows its position, and has read its symbol's digits so far.
AccessExact ==
    (pc \in {"descend", "done"} /\ op = "access") =>
        /\ lanes[1].lo = Spot(seq, lanes[1].p1, l, qlevels_)
        /\ lanes[1].hi = Spot(seq, lanes[1].p1, l, qlevels_)
        /\ sym = Prefix(seq[lanes[1].p1], l, qlevels_)

IInv == /\ Shape /\ LevelsExact /\ PartitionIsStable
        /\ Asked /\ LanesExact /\ AccessExact

-----------------------------------------------------------------------------
(***************************************************************************)
(* The construction.                                                       *)
(***************************************************************************)

\* Symbols are numbers, and the sequence is one of SymbolRank's.
LEMMA SeqFacts ==
    ASSUME Shape
    PROVE  /\ n_ \in Nat /\ qlevels_ \in Nat /\ seq \in Arrays(n_)
           /\ seq \in [0..(n_ - 1) -> 0..(Pow4[qlevels_] - 1)]
           /\ syms \subseteq Nat
           /\ \A x \in Levels : x \in 0..qlevels_ /\ x \in 0..(qlevels_ - 1)
<1> DEFINE m == Pow4[qlevels_]
<1>1. m \in Nat \ {0}
  BY Pow4Facts DEF Shape
<1> HIDE DEF m
<1>2. 0..(m - 1) \subseteq Nat
  BY <1>1
<1>3. syms \subseteq 0..(m - 1) /\ seq \in [0..(n_ - 1) -> syms]
  BY DEF Shape, m
<1>4. seq \in [0..(n_ - 1) -> 0..(m - 1)] /\ seq \in Arrays(n_) /\ syms \subseteq Nat
  BY <1>2, <1>3 DEF Arrays
<1>5. n_ \in Nat /\ qlevels_ \in Nat
  BY DEF Shape
<1>6. \A x \in Levels : x \in 0..qlevels_ /\ x \in 0..(qlevels_ - 1)
  BY <1>5 DEF Levels
<1> QED BY <1>4, <1>5, <1>6 DEF m

\* The level that a step of the constructor writes.
LEMMA NewLevel ==
    ASSUME Shape, PartitionIsStable, pc = "build", l < qlevels_
    PROVE  /\ IsLevel(Digits, n_, seq, l, qlevels_)
           /\ \A d \in 0..3 : Starts[d] = Cardinality(Smaller(seq, d, l, qlevels_))
           /\ Starts \in [0..3 -> 0..n_]
<1>0. /\ n_ \in Nat /\ qlevels_ \in Nat /\ seq \in Arrays(n_)
      /\ l \in 0..(qlevels_ - 1) /\ l \in 0..qlevels_
  BY SeqFacts DEF Shape
<1>1. IsLevel(Digits, n_, seq, l, qlevels_)
  <2>1. ASSUME NEW x \in 0..(n_ - 1)
        PROVE  Digits[Spot(seq, x, l, qlevels_)] = Digit(seq[x], l, qlevels_)
    <3>1. Spot(seq, x, l, qlevels_) \in 0..(n_ - 1)
      BY <1>0, SpotBijective DEF Permutes
    <3>2. cur[Spot(seq, x, l, qlevels_)] = seq[x]
      BY DEF PartitionIsStable, Spot
    <3> QED BY <3>1, <3>2 DEF Digits
  <2> QED BY <2>1 DEF IsLevel
<1> DEFINE C(d) == Cardinality(Smaller(seq, d, l, qlevels_))
<1>2. ASSUME NEW d \in 0..3
      PROVE  C(d) \in 0..n_ /\ C(0) = 0 /\ C(d + 1) = C(d) + Hist(d)
  <2>1. Cardinality(Holding(Digits, n_, d)) = Cardinality(Having(seq, d, l, qlevels_))
    BY <1>0, <1>1, LevelCount
  <2>2. Hist(d) = Cardinality(Having(seq, d, l, qlevels_))
    BY <2>1 DEF Hist, Holding
  <2>3. C(d) \in 0..n_
    BY <1>0, SmallerStep
  <2>4. C(0) = 0
    BY <1>0, SmallerStep
  <2>5. C(d + 1) = C(d) + Cardinality(Having(seq, d, l, qlevels_))
    BY <1>0, SmallerStep
  <2> QED BY <2>2, <2>3, <2>4, <2>5
<1> HIDE DEF C
<1>3. /\ C(0) = 0 /\ C(1) = C(0) + Hist(0) /\ C(2) = C(1) + Hist(1) /\ C(3) = C(2) + Hist(2)
      /\ \A d \in 0..3 : C(d) \in 0..n_
  <2>1. 0 \in 0..3 /\ 1 \in 0..3 /\ 2 \in 0..3 /\ 0 + 1 = 1 /\ 1 + 1 = 2 /\ 2 + 1 = 3
    OBVIOUS
  <2> QED BY <1>2, <2>1
<1>4. /\ Starts[0] = 0 /\ Starts[1] = Hist(0) /\ Starts[2] = Hist(0) + Hist(1)
      /\ Starts[3] = Hist(0) + Hist(1) + Hist(2)
  BY DEF Starts
<1>5. C(1) \in Nat /\ C(2) \in Nat /\ C(3) \in Nat
  BY <1>0, <1>3
<1>6. Hist(0) \in Int /\ Hist(1) \in Int /\ Hist(2) \in Int
  <2>1. ASSUME NEW d \in 0..3 PROVE Hist(d) \in Nat
    <3> DEFINE A == {x \in 0..(n_ - 1) : Digits[x] = d}
    <3>1. IsFiniteSet(0..(n_ - 1)) /\ A \subseteq 0..(n_ - 1)
      BY <1>0, FS_Interval
    <3> HIDE DEF A
    <3>2. Cardinality(A) \in Nat
      BY <3>1, FS_Subset, FS_CardinalityType
    <3> QED BY <3>2 DEF Hist, A
  <2> QED BY <2>1
<1>7. Starts[0] = C(0) /\ Starts[1] = C(1) /\ Starts[2] = C(2) /\ Starts[3] = C(3)
  BY <1>3, <1>4, <1>5, <1>6
<1>8. \A d \in 0..3 : Starts[d] = C(d)
  <2>1. \A d \in 0..3 : d = 0 \/ d = 1 \/ d = 2 \/ d = 3
    OBVIOUS
  <2> QED BY <1>7, <2>1
<1>9. Starts \in [0..3 -> 0..n_]
  <2>1. DOMAIN Starts = 0..3 /\ Starts = [d \in 0..3 |-> Starts[d]]
    BY DEF Starts
  <2> QED BY <2>1, <1>3, <1>8
<1> QED BY <1>1, <1>8, <1>9 DEF C

\* The scatter takes the sequence from one partition to the next.
LEMMA Scatter ==
    ASSUME Shape, PartitionIsStable, pc = "build", l < qlevels_
    PROVE  LET new == [y \in 0..(n_ - 1) |-> cur[CHOOSE x \in 0..(n_ - 1) : Cursor(x) = y]] IN
           /\ new \in [0..(n_ - 1) -> syms]
           /\ \A x \in 0..(n_ - 1) : new[PlaceAt(seq, seq[x], x, l + 1, qlevels_)] = seq[x]
<1> DEFINE pick(y) == CHOOSE x \in 0..(n_ - 1) : Cursor(x) = y
           at(x) == Spot(seq, x, l, qlevels_)
           to(x) == Spot(seq, x, l + 1, qlevels_)
<1>0. /\ n_ \in Nat /\ qlevels_ \in Nat /\ seq \in Arrays(n_)
      /\ l \in 0..(qlevels_ - 1) /\ l \in 0..qlevels_ /\ l + 1 \in 0..qlevels_
      /\ \A x \in 0..(n_ - 1) : seq[x] \in Nat /\ x \in 0..n_
  BY SeqFacts DEF Shape
<1>1. /\ IsLevel(Digits, n_, seq, l, qlevels_)
      /\ \A d \in 0..3 : Starts[d] = Cardinality(Smaller(seq, d, l, qlevels_))
  BY NewLevel
<1>2. /\ \A x \in 0..(n_ - 1) : at(x) \in 0..(n_ - 1)
      /\ \A y \in 0..(n_ - 1) : \E x \in 0..(n_ - 1) : at(x) = y
  <2>1. Permutes(n_, seq, l, qlevels_)
    BY <1>0, SpotBijective
  <2> QED BY <2>1 DEF Permutes
<1>3. /\ \A x \in 0..(n_ - 1) : to(x) \in 0..(n_ - 1)
      /\ \A x, y \in 0..(n_ - 1) : to(x) = to(y) => x = y
      /\ \A y \in 0..(n_ - 1) : \E x \in 0..(n_ - 1) : to(x) = y
  <2>1. PICK d \in 0..qlevels_ : d = l + 1
    BY <1>0
  <2>2. Permutes(n_, seq, d, qlevels_)
    BY <1>0, SpotBijective
  <2> QED BY <2>1, <2>2 DEF Permutes
<1>4. ASSUME NEW x \in 0..(n_ - 1) PROVE Cursor(at(x)) = to(x)
  <2>1. Digits[at(x)] = Digit(seq[x], l, qlevels_)
    BY <1>1 DEF IsLevel
  <2>2. PICK c \in Nat : c = seq[x]
    BY <1>0
  <2>3. Cardinality(Smaller(seq, Digit(c, l, qlevels_), l, qlevels_))
          + RankIn(Digits, Digit(c, l, qlevels_), PlaceAt(seq, c, x, l, qlevels_))
          = PlaceAt(seq, c, x, l + 1, qlevels_)
    <3>1. x \in 0..n_ /\ IsLevel(Digits, n_, seq, l, qlevels_)
      BY <1>0, <1>1
    <3>2. n_ \in Nat /\ qlevels_ \in Nat /\ seq \in Arrays(n_) /\ l \in 0..(qlevels_ - 1)
      BY <1>0
    <3> QED BY <3>1, <3>2, PlaceStep
  <2>4. Digit(c, l, qlevels_) \in 0..3
    BY <1>0, DigitType
  <2> QED BY <1>1, <2>1, <2>2, <2>3, <2>4 DEF Cursor, Spot
<1>5. \A x \in 0..(n_ - 1) : cur[at(x)] = seq[x]
  BY DEF PartitionIsStable, Spot
<1> HIDE DEF at, to
<1>6. ASSUME NEW x \in 0..(n_ - 1) PROVE pick(to(x)) = at(x)
  <2>1. at(x) \in 0..(n_ - 1) /\ Cursor(at(x)) = to(x)
    BY <1>2, <1>4
  <2>2. pick(to(x)) \in 0..(n_ - 1) /\ Cursor(pick(to(x))) = to(x)
    BY <2>1
  <2> HIDE DEF pick
  <2>3. PICK y \in 0..(n_ - 1) : at(y) = pick(to(x))
    BY <1>2, <2>2
  <2>4. to(y) = to(x)
    BY <1>4, <2>2, <2>3
  <2> QED BY <1>3, <2>3, <2>4
<1> HIDE DEF pick
<1>7. \A x \in 0..(n_ - 1) : cur[pick(to(x))] = seq[x] /\ pick(to(x)) \in 0..(n_ - 1)
  BY <1>2, <1>5, <1>6
<1> DEFINE new == [y \in 0..(n_ - 1) |-> cur[pick(y)]]
<1>8. \A x \in 0..(n_ - 1) : new[to(x)] = seq[x]
  BY <1>3, <1>7
<1>9. new \in [0..(n_ - 1) -> syms]
  <2>1. ASSUME NEW y \in 0..(n_ - 1) PROVE cur[pick(y)] \in syms
    <3>1. PICK x \in 0..(n_ - 1) : to(x) = y
      BY <1>3
    <3>2. pick(y) \in 0..(n_ - 1)
      BY <1>7, <3>1
    <3> QED BY <3>2 DEF Shape
  <2> QED BY <2>1
<1> HIDE DEF new
<1>10. \A x \in 0..(n_ - 1) : new[PlaceAt(seq, seq[x], x, l + 1, qlevels_)] = seq[x]
  BY <1>8 DEF to, Spot
<1> QED BY <1>9, <1>10 DEF new, pick

\* The invariant holds before the constructor.
LEMMA InitInv == Init => IInv
<1> SUFFICES ASSUME Init PROVE IInv
  OBVIOUS
<1>1. 0..(0 - 1) = {} /\ qlevels_ = 0 /\ n_ = 0 /\ syms = {} /\ pc = "new" /\ l = 0
  BY DEF Init
<1>2. <<>> \in [{} -> {}] /\ DOMAIN <<>> = {}
  OBVIOUS
<1>3. seq \in [0..(n_ - 1) -> syms] /\ cur \in [0..(n_ - 1) -> syms]
  BY <1>1, <1>2 DEF Init
<1>4. Levels = {} /\ DOMAIN qv_ = Levels /\ DOMAIN start_ = Levels
  BY <1>1, <1>2 DEF Init, Levels
<1>5. Shape
  BY <1>1, <1>3, <1>4 DEF Shape
<1>6. lanes = <<>> /\ k = 1 /\ sym = 0 /\ op = "none" /\ lanes \in Seq(Lanes)
  BY DEF Init
<1>7. Asked
  BY <1>1, <1>6 DEF Asked
<1> QED
  BY <1>1, <1>4, <1>5, <1>7
  DEF IInv, LevelsExact, PartitionIsStable, LanesExact, AccessExact

\* The constructor takes a sequence and has no level yet.
LEMMA ConstructStep ==
    ASSUME IInv, NEW a \in Alphabets, NEW n \in 0..MaxLength, NEW s \in [0..(n - 1) -> a.syms],
           Construct(s, n, a)
    PROVE  IInv'
<1>1. /\ a.q \in Nat \ {0} /\ a.syms \subseteq 0..(Pow4[a.q] - 1)
      /\ n \in Nat
  BY AlphabetAssumption
<1>2. /\ seq' = s /\ cur' = s /\ n_' = n /\ syms' = a.syms /\ qlevels_' = a.q /\ l' = 0
      /\ pc' = "build" /\ UNCHANGED <<op, lanes, k, sym>> /\ pc = "new"
      /\ qv_' = [x \in 0..(a.q - 1) |-> <<>>]
      /\ start_' = [x \in 0..(a.q - 1) |-> [d \in 0..3 |-> 0]]
  BY DEF Construct, query
<1>3. Levels' = 0..(a.q - 1)
  BY <1>2 DEF Levels
<1>4. /\ DOMAIN qv_' = 0..(a.q - 1) /\ DOMAIN start_' = 0..(a.q - 1)
      /\ \A x \in 0..(a.q - 1) : start_'[x] \in [0..3 -> 0..n]
  <2>1. 0 \in 0..n
    BY <1>1
  <2> QED BY <1>2, <2>1
<1>5. Shape'
  <2>1. n_' \in Nat /\ qlevels_' \in Nat /\ syms' \subseteq 0..(Pow4[qlevels_'] - 1)
    BY <1>1, <1>2
  <2>2. seq' \in [0..(n_' - 1) -> syms'] /\ cur' \in [0..(n_' - 1) -> syms']
    BY <1>2
  <2>3. l' \in 0..qlevels_' /\ pc' \in {"new", "build", "ready", "descend", "done"} /\ pc' # "new"
    BY <1>1, <1>2
  <2> QED BY <1>2, <1>3, <1>4, <2>1, <2>2, <2>3 DEF Shape
<1>6. LevelsExact'
  <2>1. \A x \in 0..(a.q - 1) : ~ (x < 0)
    BY <1>1
  <2> QED BY <1>2, <1>3, <2>1 DEF LevelsExact
<1>7. PartitionIsStable'
  <2>1. ASSUME NEW x \in 0..(n - 1) PROVE PlaceAt(s, s[x], x, 0, a.q) = x
    <3>1. x \in Nat
      BY <1>1
    <3> QED BY <3>1, PlaceZero
  <2> QED BY <1>2, <2>1 DEF PartitionIsStable
<1>8. Asked' /\ LanesExact' /\ AccessExact'
  BY <1>2 DEF IInv, Asked, LanesExact, AccessExact
<1> QED BY <1>5, <1>6, <1>7, <1>8 DEF IInv

\* One level more is built over the sequence as the partitions so far left it.
LEMMA BuildLevelStep ==
    ASSUME IInv, BuildLevel
    PROVE  IInv'
<1>1. /\ pc = "build" /\ l < qlevels_ /\ l' = l + 1
      /\ UNCHANGED <<seq, syms, n_, qlevels_, op, lanes, k, sym, pc>>
      /\ qv_' = [qv_ EXCEPT ![l] = Digits] /\ start_' = [start_ EXCEPT ![l] = Starts]
      /\ cur' = [y \in 0..(n_ - 1) |-> cur[CHOOSE x \in 0..(n_ - 1) : Cursor(x) = y]]
  BY DEF BuildLevel, query
<1>2. Shape /\ PartitionIsStable /\ n_ \in Nat /\ qlevels_ \in Nat /\ l \in Levels /\ l \in Nat
  <2>1. Shape /\ PartitionIsStable
    BY DEF IInv
  <2>2. n_ \in Nat /\ qlevels_ \in Nat /\ l \in 0..qlevels_
    BY <2>1 DEF Shape
  <2>3. l \in Levels /\ l \in Nat
    BY <1>1, <2>2 DEF Levels
  <2> QED BY <2>1, <2>2, <2>3
<1>3. /\ IsLevel(Digits, n_, seq, l, qlevels_)
      /\ \A d \in 0..3 : Starts[d] = Cardinality(Smaller(seq, d, l, qlevels_))
      /\ Starts \in [0..3 -> 0..n_]
  BY <1>1, <1>2, NewLevel
<1>4. /\ cur' \in [0..(n_ - 1) -> syms]
      /\ \A x \in 0..(n_ - 1) : cur'[PlaceAt(seq, seq[x], x, l + 1, qlevels_)] = seq[x]
  BY <1>1, <1>2, Scatter
<1>5. /\ Levels' = Levels
      /\ qv_'[l] = Digits /\ \A x \in Levels : x # l => qv_'[x] = qv_[x]
      /\ start_'[l] = Starts /\ \A x \in Levels : x # l => start_'[x] = start_[x]
      /\ DOMAIN qv_' = Levels /\ DOMAIN start_' = Levels
  BY <1>1, <1>2 DEF Shape, Levels
<1>6. Shape'
  <2>1. \A x \in Levels : start_'[x] \in [0..3 -> 0..n_]
    BY <1>2, <1>3, <1>5 DEF Shape
  <2>2. l' \in 0..qlevels_
    BY <1>1, <1>2
  <2> QED BY <1>1, <1>2, <1>4, <1>5, <2>1, <2>2 DEF Shape
<1>7. LevelsExact'
  <2>1. ASSUME NEW x \in Levels, x < l + 1 PROVE Exact(x)'
    <3>1. CASE x = l
      <4>1. /\ IsLevel(qv_'[x], n_, seq, x, qlevels_)
            /\ \A d \in 0..3 : start_'[x][d] = Cardinality(Smaller(seq, d, x, qlevels_))
        BY <1>3, <1>5, <3>1
      <4> QED BY <1>1, <4>1 DEF Exact
    <3>2. CASE x # l
      <4>1. x < l
        BY <1>2, <2>1, <3>2 DEF Levels
      <4>2. Exact(x)
        BY <4>1 DEF IInv, LevelsExact
      <4> QED BY <1>1, <1>5, <3>2, <4>2 DEF Exact
    <3> QED BY <3>1, <3>2
  <2> QED BY <1>1, <1>5, <2>1 DEF LevelsExact
<1>8. PartitionIsStable'
  BY <1>1, <1>4 DEF PartitionIsStable
<1>9. Asked' /\ LanesExact' /\ AccessExact'
  BY <1>1 DEF IInv, Asked, LanesExact, AccessExact
<1> QED BY <1>6, <1>7, <1>8, <1>9 DEF IInv

\* Once it is built the matrix does not change.
LEMMA MatrixKept ==
    ASSUME IInv, UNCHANGED matrix, pc # "new", pc = "build" => l = qlevels_,
           pc' \in {"ready", "descend", "done"}, l' \in 0..qlevels_
    PROVE  Shape' /\ LevelsExact' /\ PartitionIsStable'
<1>1. UNCHANGED <<seq, syms, n_, qlevels_, qv_, start_, cur>> /\ Levels' = Levels
  BY DEF matrix, Levels
<1>2. Shape'
  BY <1>1 DEF IInv, Shape
<1>3. LevelsExact'
  <2>1. ASSUME NEW x \in Levels PROVE Exact(x)
    <3>1. pc = "build" => x < l
      BY DEF IInv, Shape, Levels
    <3> QED BY <3>1 DEF IInv, LevelsExact
  <2>2. \A x \in Levels : Exact(x)'
    BY <1>1, <2>1 DEF Exact
  <2> QED BY <1>1, <2>2 DEF LevelsExact
<1>4. PartitionIsStable'
  BY DEF PartitionIsStable
<1> QED BY <1>2, <1>3, <1>4

\* The constructor ends when all levels are built.
LEMMA BuildEndStep ==
    ASSUME IInv, BuildEnd
    PROVE  IInv'
<1>1. /\ pc = "build" /\ l = qlevels_ /\ pc' = "ready" /\ l' = l /\ UNCHANGED matrix
      /\ UNCHANGED <<op, lanes, k, sym>>
  BY DEF BuildEnd, query
<1>2. l' \in 0..qlevels_
  BY <1>1 DEF IInv, Shape
<1>3. Shape' /\ LevelsExact' /\ PartitionIsStable'
  BY <1>1, <1>2, MatrixKept
<1>4. Asked' /\ LanesExact' /\ AccessExact'
  BY <1>1 DEF IInv, Asked, LanesExact, AccessExact
<1> QED BY <1>3, <1>4 DEF IInv

-----------------------------------------------------------------------------
(***************************************************************************)
(* The queries.                                                            *)
(***************************************************************************)

\* What the callers of the matrix pass: positions of the sequence, symbols of
\* its alphabet, and for access a position that holds a symbol.
Valid(o, ls) ==
    /\ o \in Ops /\ ls \in Seq(Lanes) /\ Len(ls) >= 1
    /\ \A j \in 1..Len(ls) :
         /\ ls[j].p1 \in 0..n_ /\ ls[j].p2 \in 0..n_
         /\ ls[j].lo = ls[j].p1 /\ ls[j].hi = ls[j].p2
         /\ o # "access" => ls[j].c \in syms
         /\ o \in {"rank", "map_zero"} => ls[j].p1 = 0
    /\ o = "access" => Len(ls) = 1 /\ ls[1].p1 \in 0..(n_ - 1) /\ ls[1].p2 = ls[1].p1

\* A call starts its lanes at the positions it was given.
LEMMA CallStep ==
    ASSUME IInv, NEW o, NEW ls, Valid(o, ls), Call(o, ls)
    PROVE  IInv'
<1>1. /\ pc = "ready" /\ op' = o /\ lanes' = ls /\ k' = 1 /\ sym' = 0 /\ l' = 0
      /\ pc' = "descend" /\ UNCHANGED matrix
  BY DEF Call
<1>2. UNCHANGED <<seq, syms, n_, qlevels_>> /\ n_ \in Nat /\ qlevels_ \in Nat
  BY <1>1 DEF matrix, IInv, Shape
<1>3. l' \in 0..qlevels_ /\ Len(ls) \in Nat /\ k' \in 1..Len(ls)
  BY <1>1, <1>2 DEF Valid
<1>4. Shape' /\ LevelsExact' /\ PartitionIsStable'
  BY <1>1, <1>3, MatrixKept
<1>5. Asked'
  BY <1>1, <1>2, <1>3 DEF Asked, Valid
<1>6. LanesExact'
  <2>1. ASSUME NEW j \in 1..Len(ls), NEW c
        PROVE  /\ ls[j].lo = PlaceAt(seq, c, ls[j].p1, 0, qlevels_)
               /\ ls[j].hi = PlaceAt(seq, c, ls[j].p2, 0, qlevels_)
    <3>1. ls[j].p1 \in Nat /\ ls[j].p2 \in Nat /\ ls[j].lo = ls[j].p1 /\ ls[j].hi = ls[j].p2
      BY <1>2 DEF Valid
    <3> QED BY <3>1, PlaceZero
  <2>2. \A j \in 1..Len(ls) : LevelOfLane(j)' = 0
    <3>1. \A j \in 1..Len(ls) : ~ (j < 1)
      BY <1>3
    <3> QED BY <1>1, <3>1 DEF LevelOfLane
  <2> QED BY <1>1, <1>2, <2>1, <2>2 DEF LanesExact
<1>7. AccessExact'
  <2>1. SUFFICES ASSUME o = "access"
                 PROVE  /\ ls[1].lo = Spot(seq, ls[1].p1, 0, qlevels_)
                        /\ ls[1].hi = Spot(seq, ls[1].p1, 0, qlevels_)
                        /\ 0 = Prefix(seq[ls[1].p1], 0, qlevels_)
    BY <1>1, <1>2 DEF AccessExact
  <2>2. /\ 1 \in 1..Len(ls) /\ ls[1].p1 \in 0..(n_ - 1) /\ ls[1].p2 = ls[1].p1
        /\ ls[1].lo = ls[1].p1 /\ ls[1].hi = ls[1].p1
    <3>1. 1 \in 1..Len(ls)
      BY <2>1 DEF Valid
    <3> QED BY <2>1, <3>1 DEF Valid
  <2>3. PICK x \in 0..(n_ - 1) : x = ls[1].p1
    BY <2>2
  <2>4. x \in Nat
    BY <1>2
  <2>5. Spot(seq, x, 0, qlevels_) = x
    BY <2>4, PlaceZero DEF Spot
  <2>6. Prefix(seq[x], 0, qlevels_) = 0
    <3>1. PICK a \in 0..(Pow4[qlevels_] - 1) : a = seq[x]
      BY SeqFacts DEF IInv
    <3>2. Prefix(a, 0, qlevels_) = 0
      BY <1>2, PrefixEnds
    <3> QED BY <3>1, <3>2
  <2> QED BY <2>2, <2>3, <2>5, <2>6
<1> QED BY <1>4, <1>5, <1>6, <1>7 DEF IInv

\* A lane of the caller's.
LEMMA LaneValid ==
    ASSUME IInv, NEW x \in Nat, NEW a \in 0..n_, NEW b \in 0..n_
    PROVE  /\ Lane(x, a, b) \in Lanes
           /\ Lane(x, a, b).c = x /\ Lane(x, a, b).p1 = a /\ Lane(x, a, b).p2 = b
           /\ Lane(x, a, b).lo = a /\ Lane(x, a, b).hi = b
<1>1. n_ \in Nat /\ a \in Nat /\ b \in Nat
  BY DEF IInv, Shape
<1> QED BY <1>1 DEF Lane, Lanes

\* Every call that Next allows is such a call.
LEMMA OneLane ==
    ASSUME IInv, NEW o \in Ops, NEW x \in Nat, NEW a \in 0..n_, NEW b \in 0..n_,
           o # "access" => x \in syms,
           o \in {"rank", "map_zero"} => a = 0,
           o = "access" => a \in 0..(n_ - 1) /\ b = a,
           Call(o, <<Lane(x, a, b)>>)
    PROVE  IInv'
<1> DEFINE v == Lane(x, a, b)
<1>1. /\ v \in Lanes /\ v.c = x /\ v.p1 = a /\ v.p2 = b /\ v.lo = a /\ v.hi = b
  BY LaneValid
<1> HIDE DEF v
<1>2. <<v>> \in Seq(Lanes) /\ Len(<<v>>) = 1 /\ <<v>>[1] = v
  BY <1>1
<1>3. \A j \in 1..Len(<<v>>) : <<v>>[j] = v
  BY <1>2
<1>4. Valid(o, <<v>>)
  BY <1>1, <1>2, <1>3 DEF Valid
<1>5. Call(o, <<v>>)
  BY DEF v
<1> QED BY <1>4, <1>5, CallStep

\* A batch of two lanes is a call whose lanes are valid.
LEMMA TwoLanes ==
    ASSUME IInv, NEW x \in syms, NEW y \in syms, NEW b \in 0..n_,
           MapBatch(<<Lane(x, 0, b), Lane(y, b, n_)>>)
    PROVE  IInv'
<1> DEFINE v == Lane(x, 0, b)
           w == Lane(y, b, n_)
<1>0. n_ \in Nat /\ 0 \in 0..n_ /\ n_ \in 0..n_ /\ x \in Nat /\ y \in Nat
  BY SeqFacts DEF IInv, Shape
<1>1. /\ v \in Lanes /\ v.c = x /\ v.p1 = 0 /\ v.p2 = b /\ v.lo = 0 /\ v.hi = b
  BY <1>0, LaneValid
<1>2. /\ w \in Lanes /\ w.c = y /\ w.p1 = b /\ w.p2 = n_ /\ w.lo = b /\ w.hi = n_
  BY <1>0, LaneValid
<1> HIDE DEF v, w
<1>3. <<v, w>> \in Seq(Lanes) /\ Len(<<v, w>>) = 2 /\ <<v, w>>[1] = v /\ <<v, w>>[2] = w
  BY <1>1, <1>2
<1>4. \A j \in 1..Len(<<v, w>>) : <<v, w>>[j] = v \/ <<v, w>>[j] = w
  BY <1>3
<1> DEFINE ls == <<v, w>>
<1>5. Valid("map_batch", ls)
  <2> HIDE DEF ls
  <2>1. ls \in Seq(Lanes) /\ Len(ls) = 2 /\ \A j \in 1..Len(ls) : ls[j] = v \/ ls[j] = w
    BY <1>3, <1>4 DEF ls
  <2> QED BY <1>0, <1>1, <1>2, <2>1 DEF Valid, Ops
<1>6. Call("map_batch", ls)
  BY DEF v, w, MapBatch
<1> HIDE DEF ls
<1> QED BY <1>5, <1>6, CallStep

\* Lane m of ls has moved.
Moved(ls, m, a, b) == [ls EXCEPT ![m].lo = a, ![m].hi = b]

\* A lane moves, and the others stay.
LEMMA LaneMove ==
    ASSUME NEW ls \in Seq(Lanes), NEW m \in 1..Len(ls), NEW a \in Nat, NEW b \in Nat
    PROVE  LET new == Moved(ls, m, a, b) IN
           /\ new \in Seq(Lanes) /\ Len(new) = Len(ls)
           /\ \A j \in 1..Len(ls) : j # m => new[j] = ls[j]
           /\ new[m].c = ls[m].c /\ new[m].p1 = ls[m].p1 /\ new[m].p2 = ls[m].p2
           /\ new[m].lo = a /\ new[m].hi = b
<1> DEFINE v == [ls[m] EXCEPT !.lo = a, !.hi = b]
<1>1. ls[m] \in Lanes
  OBVIOUS
<1>2. /\ v \in Lanes /\ v.c = ls[m].c /\ v.p1 = ls[m].p1 /\ v.p2 = ls[m].p2
      /\ v.lo = a /\ v.hi = b
  BY <1>1 DEF Lanes
<1>3. Moved(ls, m, a, b) = [ls EXCEPT ![m] = v]
  BY DEF Moved
<1> HIDE DEF v
<1>4. LET new == [ls EXCEPT ![m] = v] IN
      /\ new \in Seq(Lanes) /\ Len(new) = Len(ls)
      /\ \A j \in 1..Len(ls) : j # m => new[j] = ls[j]
      /\ new[m] = v
  BY <1>2
<1> QED BY <1>2, <1>3, <1>4

\* One level down, for the digit of a symbol c that has been followed from
\* position i.
LEMMA DownExact ==
    ASSUME IInv, pc = "descend", l < qlevels_, NEW c \in Nat, NEW i \in 0..n_
    PROVE  /\ Digit(c, l, qlevels_) \in 0..3
           /\ Down(Digit(c, l, qlevels_), PlaceAt(seq, c, i, l, qlevels_))
                = PlaceAt(seq, c, i, l + 1, qlevels_)
           /\ PlaceAt(seq, c, i, l + 1, qlevels_) \in 0..n_
<1>1. /\ n_ \in Nat /\ qlevels_ \in Nat /\ seq \in Arrays(n_)
  BY SeqFacts DEF IInv
<1>2. l \in 0..(qlevels_ - 1) /\ l + 1 \in 0..qlevels_ /\ l \in Levels
  BY <1>1 DEF IInv, Shape, Levels
<1>3. Exact(l)
  BY <1>2 DEF IInv, LevelsExact
<1>4. Digit(c, l, qlevels_) \in 0..3
  BY <1>1, <1>2, DigitType
<1>5. start_[l][Digit(c, l, qlevels_)]
        = Cardinality(Smaller(seq, Digit(c, l, qlevels_), l, qlevels_))
  BY <1>3, <1>4 DEF Exact
<1>6. IsLevel(qv_[l], n_, seq, l, qlevels_)
  BY <1>3 DEF Exact
<1>7. Cardinality(Smaller(seq, Digit(c, l, qlevels_), l, qlevels_))
        + RankIn(qv_[l], Digit(c, l, qlevels_), PlaceAt(seq, c, i, l, qlevels_))
        = PlaceAt(seq, c, i, l + 1, qlevels_)
  BY <1>1, <1>2, <1>6, PlaceStep
<1>8. PlaceAt(seq, c, i, l + 1, qlevels_) \in 0..n_
  BY <1>1, <1>2, PlaceIsRank
<1> QED BY <1>4, <1>5, <1>7, <1>8 DEF Down

\* A lane of rank, map2, map_zero or map_batch goes down.
LEMMA LaneDescends ==
    ASSUME IInv, Descend, op # "access"
    PROVE  Asked' /\ LanesExact' /\ AccessExact'
<1> DEFINE x == lanes[k]
           d == Digit(x.c, l, qlevels_)
           a == Down(d, x.lo)
           b == Down(d, x.hi)
           next == k < Len(lanes)
<1>1. /\ pc = "descend" /\ l < qlevels_ /\ UNCHANGED matrix /\ op' = op /\ pc' = pc /\ sym' = sym
      /\ lanes' = [lanes EXCEPT ![k].lo = a, ![k].hi = b]
      /\ next => k' = k + 1 /\ l' = l
      /\ ~ next => k' = 1 /\ l' = l + 1
  BY DEF Descend
<1>2. /\ lanes \in Seq(Lanes) /\ Len(lanes) \in Nat /\ k \in 1..Len(lanes)
      /\ UNCHANGED <<seq, syms, n_, qlevels_>> /\ n_ \in Nat /\ qlevels_ \in Nat /\ l \in Nat
  BY <1>1 DEF IInv, Asked, Shape, matrix
<1>3. x.c \in Nat /\ x.p1 \in 0..n_ /\ x.p2 \in 0..n_
  <2>1. x.c \in syms /\ x.p1 \in 0..n_ /\ x.p2 \in 0..n_
    BY <1>1, <1>2 DEF IInv, Asked
  <2> QED BY <2>1, SeqFacts DEF IInv
<1>4. /\ x.lo = PlaceAt(seq, x.c, x.p1, l, qlevels_)
      /\ x.hi = PlaceAt(seq, x.c, x.p2, l, qlevels_)
  <2>1. LevelOfLane(k) = l
    BY <1>2 DEF LevelOfLane
  <2> QED BY <1>1, <1>2, <2>1 DEF IInv, LanesExact
<1>5. /\ a = PlaceAt(seq, x.c, x.p1, l + 1, qlevels_) /\ a \in Nat
      /\ b = PlaceAt(seq, x.c, x.p2, l + 1, qlevels_) /\ b \in Nat
  <2>1. PICK c \in Nat : c = x.c
    BY <1>3
  <2>2. PICK i \in 0..n_ : i = x.p1
    BY <1>3
  <2>3. PICK j \in 0..n_ : j = x.p2
    BY <1>3
  <2>4. /\ Down(Digit(c, l, qlevels_), PlaceAt(seq, c, i, l, qlevels_))
             = PlaceAt(seq, c, i, l + 1, qlevels_)
        /\ PlaceAt(seq, c, i, l + 1, qlevels_) \in 0..n_
    BY <1>1, DownExact
  <2>5. /\ Down(Digit(c, l, qlevels_), PlaceAt(seq, c, j, l, qlevels_))
             = PlaceAt(seq, c, j, l + 1, qlevels_)
        /\ PlaceAt(seq, c, j, l + 1, qlevels_) \in 0..n_
    BY <1>1, DownExact
  <2> HIDE DEF x
  <2>6. /\ a = PlaceAt(seq, x.c, x.p1, l + 1, qlevels_)
        /\ b = PlaceAt(seq, x.c, x.p2, l + 1, qlevels_)
    BY <1>4, <2>1, <2>2, <2>3, <2>4, <2>5
  <2>7. PlaceAt(seq, x.c, x.p1, l + 1, qlevels_) \in Nat
    BY <1>2, <2>1, <2>2, <2>4
  <2>8. PlaceAt(seq, x.c, x.p2, l + 1, qlevels_) \in Nat
    BY <1>2, <2>1, <2>3, <2>5
  <2> HIDE DEF a, b
  <2> QED BY <2>6, <2>7, <2>8
<1> HIDE DEF a, b
<1>6. /\ lanes' \in Seq(Lanes) /\ Len(lanes') = Len(lanes)
      /\ \A j \in 1..Len(lanes) : j # k => lanes'[j] = lanes[j]
      /\ lanes'[k].c = x.c /\ lanes'[k].p1 = x.p1 /\ lanes'[k].p2 = x.p2
      /\ lanes'[k].lo = a /\ lanes'[k].hi = b
  <2> HIDE DEF x
  <2>1. LET new == Moved(lanes, k, a, b) IN
        /\ new \in Seq(Lanes) /\ Len(new) = Len(lanes)
        /\ \A j \in 1..Len(lanes) : j # k => new[j] = lanes[j]
        /\ new[k].c = lanes[k].c /\ new[k].p1 = lanes[k].p1 /\ new[k].p2 = lanes[k].p2
        /\ new[k].lo = a /\ new[k].hi = b
    <3>1. a \in Nat /\ b \in Nat /\ lanes \in Seq(Lanes) /\ k \in 1..Len(lanes)
      BY <1>2, <1>5
    <3> QED BY <3>1, LaneMove
  <2>2. lanes' = Moved(lanes, k, a, b)
    BY <1>1 DEF Moved
  <2> QED BY <2>1, <2>2 DEF x
<1>7. \A j \in 1..Len(lanes) : /\ lanes'[j].c = lanes[j].c
                               /\ lanes'[j].p1 = lanes[j].p1 /\ lanes'[j].p2 = lanes[j].p2
  BY <1>6
<1>8. k' \in 1..Len(lanes) /\ (l' = qlevels_ => k' = 1)
  BY <1>1, <1>2
<1>9. Asked'
  <2>1. \A j \in 1..Len(lanes) : /\ lanes[j].p1 \in 0..n_ /\ lanes[j].p2 \in 0..n_
                                 /\ lanes[j].c \in syms
                                 /\ op \in {"rank", "map_zero"} => lanes[j].p1 = 0
    BY <1>1 DEF IInv, Asked
  <2>2. op \in Ops /\ sym = 0
    BY <1>1 DEF IInv, Asked
  <2>3. pc' = "descend" /\ op' = op /\ sym' = sym /\ n_' = n_ /\ syms' = syms /\ qlevels_' = qlevels_
    BY <1>1, <1>2
  <2> HIDE DEF x
  <2> QED BY <1>6, <1>7, <1>8, <2>1, <2>2, <2>3 DEF Asked
<1>10. \A j \in 1..Len(lanes) : LevelOfLane(j)' = IF j = k THEN l + 1 ELSE LevelOfLane(j)
  BY <1>1, <1>2 DEF LevelOfLane
<1>11. LanesExact'
  <2>1. ASSUME NEW j \in 1..Len(lanes)
        PROVE  /\ lanes'[j].lo = PlaceAt(seq, lanes'[j].c, lanes'[j].p1, LevelOfLane(j)', qlevels_)
               /\ lanes'[j].hi = PlaceAt(seq, lanes'[j].c, lanes'[j].p2, LevelOfLane(j)', qlevels_)
    <3>1. CASE j = k
      BY <1>5, <1>6, <1>10, <3>1
    <3>2. CASE j # k
      <4>1. LevelOfLane(j)' = LevelOfLane(j) /\ lanes'[j] = lanes[j]
        BY <1>6, <1>10, <3>2
      <4>2. /\ lanes[j].lo = PlaceAt(seq, lanes[j].c, lanes[j].p1, LevelOfLane(j), qlevels_)
            /\ lanes[j].hi = PlaceAt(seq, lanes[j].c, lanes[j].p2, LevelOfLane(j), qlevels_)
        BY <1>1 DEF IInv, LanesExact
      <4> QED BY <4>1, <4>2
    <3> QED BY <3>1, <3>2
  <2> QED BY <1>2, <1>6, <2>1 DEF LanesExact
<1>12. AccessExact'
  BY <1>1 DEF AccessExact
<1> QED BY <1>9, <1>11, <1>12

\* access goes down: the digit it finds is the next one of its symbol.
LEMMA AccessDescends ==
    ASSUME IInv, Descend, op = "access"
    PROVE  Asked' /\ LanesExact' /\ AccessExact'
<1> DEFINE x == lanes[1]
           d == qv_[l][x.lo]
           a == Down(d, x.lo)
           b == Down(d, x.hi)
<1>1. /\ pc = "descend" /\ l < qlevels_ /\ UNCHANGED matrix /\ op' = op /\ pc' = pc
      /\ Len(lanes) = 1 /\ k = 1 /\ lanes \in Seq(Lanes)
  <2>1. pc = "descend" /\ l < qlevels_ /\ UNCHANGED matrix /\ op' = op /\ pc' = pc
    BY DEF Descend
  <2>2. Len(lanes) = 1 /\ k \in 1..Len(lanes) /\ lanes \in Seq(Lanes)
    BY <2>1 DEF IInv, Asked
  <2> QED BY <2>1, <2>2
<1>2. /\ lanes' = Moved(lanes, 1, a, b) /\ sym' = WithDigit(d) /\ k' = 1 /\ l' = l + 1
  BY <1>1 DEF Descend, Moved
<1>3. /\ UNCHANGED <<seq, syms, n_, qlevels_, qv_>> /\ n_ \in Nat /\ qlevels_ \in Nat /\ l \in Nat
      /\ l \in 0..(qlevels_ - 1) /\ l \in Levels
  BY <1>1 DEF IInv, Shape, matrix, Levels
<1>4. /\ x.p1 \in 0..(n_ - 1) /\ x.p1 \in 0..n_ /\ x.p2 \in 0..n_
      /\ x.lo = Spot(seq, x.p1, l, qlevels_) /\ x.hi = Spot(seq, x.p1, l, qlevels_)
      /\ sym = Prefix(seq[x.p1], l, qlevels_)
  <2>1. 1 \in 1..Len(lanes)
    BY <1>1
  <2> QED BY <1>1, <2>1 DEF IInv, Asked, AccessExact
<1>5. PICK i \in 0..(n_ - 1) : i = x.p1
  BY <1>4
<1>6. PICK c \in Nat : c = seq[i]
  BY SeqFacts DEF IInv
<1>7. i \in 0..n_
  BY <1>3
<1>8. d = Digit(c, l, qlevels_)
  <2>1. Exact(l)
    BY <1>1, <1>3 DEF IInv, LevelsExact
  <2>2. qv_[l][Spot(seq, i, l, qlevels_)] = Digit(seq[i], l, qlevels_)
    BY <2>1 DEF Exact, IsLevel
  <2> QED BY <1>4, <1>5, <1>6, <2>2
<1>9. /\ Down(Digit(c, l, qlevels_), PlaceAt(seq, c, i, l, qlevels_))
           = PlaceAt(seq, c, i, l + 1, qlevels_)
      /\ PlaceAt(seq, c, i, l + 1, qlevels_) \in 0..n_
  BY <1>1, <1>7, DownExact
<1>10. x.lo = PlaceAt(seq, c, i, l, qlevels_) /\ x.hi = PlaceAt(seq, c, i, l, qlevels_)
  BY <1>4, <1>5, <1>6 DEF Spot
<1> HIDE DEF d
<1>11. /\ a = PlaceAt(seq, c, i, l + 1, qlevels_) /\ a \in Nat
       /\ b = PlaceAt(seq, c, i, l + 1, qlevels_) /\ b \in Nat
  <2>1. /\ a = PlaceAt(seq, c, i, l + 1, qlevels_)
        /\ b = PlaceAt(seq, c, i, l + 1, qlevels_)
    BY <1>8, <1>9, <1>10
  <2> HIDE DEF a, b
  <2> QED BY <1>3, <1>9, <2>1
<1> HIDE DEF a, b
<1>12. /\ lanes' \in Seq(Lanes) /\ Len(lanes') = 1
       /\ lanes'[1].p1 = x.p1 /\ lanes'[1].p2 = x.p2
       /\ lanes'[1].lo = a /\ lanes'[1].hi = b
  <2>1. 1 \in 1..Len(lanes) /\ lanes \in Seq(Lanes) /\ a \in Nat /\ b \in Nat
    BY <1>1, <1>11
  <2> HIDE DEF x
  <2>2. LET new == Moved(lanes, 1, a, b) IN
        /\ new \in Seq(Lanes) /\ Len(new) = Len(lanes)
        /\ new[1].c = lanes[1].c /\ new[1].p1 = lanes[1].p1 /\ new[1].p2 = lanes[1].p2
        /\ new[1].lo = a /\ new[1].hi = b
    BY <2>1, LaneMove
  <2> QED BY <1>1, <1>2, <2>2 DEF x
<1>13. sym' = Prefix(seq[i], l + 1, qlevels_)
  <2>1. sym = Prefix(c, l, qlevels_)
    BY <1>4, <1>5, <1>6
  <2>2. Prefix(c, l + 1, qlevels_) = Prefix(c, l, qlevels_) * 4 + Digit(c, l, qlevels_)
    BY <1>3, PrefixStep
  <2> QED BY <1>2, <1>6, <1>8, <2>1, <2>2 DEF WithDigit
<1> HIDE DEF x
<1>14. Asked'
  <2>1. /\ pc' = "descend" /\ op' = "access" /\ n_' = n_ /\ qlevels_' = qlevels_ /\ k' = 1
        /\ op' \in Ops
    BY <1>1, <1>2, <1>3 DEF Ops
  <2>2. k' \in 1..Len(lanes') /\ \A j \in 1..Len(lanes') : j = 1
    BY <1>12, <2>1
  <2> QED BY <1>4, <1>12, <2>1, <2>2 DEF Asked
<1>15. LanesExact'
  BY <1>1 DEF LanesExact
<1>16. AccessExact'
  <2>1. /\ lanes'[1].lo = Spot(seq, i, l + 1, qlevels_)
        /\ lanes'[1].hi = Spot(seq, i, l + 1, qlevels_) /\ lanes'[1].p1 = i
    BY <1>5, <1>6, <1>11, <1>12 DEF Spot
  <2> QED BY <1>1, <1>2, <1>3, <1>13, <2>1 DEF AccessExact
<1> QED BY <1>14, <1>15, <1>16

\* A level moves every lane of a call.
LEMMA DescendStep ==
    ASSUME IInv, Descend
    PROVE  IInv'
<1>1. /\ pc = "descend" /\ pc' = "descend" /\ UNCHANGED matrix /\ l < qlevels_
      /\ (l' = l \/ l' = l + 1)
  BY DEF Descend
<1>2. l' \in 0..qlevels_
  BY <1>1 DEF IInv, Shape
<1>3. Shape' /\ LevelsExact' /\ PartitionIsStable'
  BY <1>1, <1>2, MatrixKept
<1>4. Asked' /\ LanesExact' /\ AccessExact'
  BY LaneDescends, AccessDescends
<1> QED BY <1>3, <1>4 DEF IInv

\* A descent ends behind the last level.
LEMMA DescendEndStep ==
    ASSUME IInv, DescendEnd
    PROVE  IInv'
<1>1. /\ pc = "descend" /\ pc' = "done" /\ UNCHANGED matrix /\ l = qlevels_ /\ l' = l
      /\ UNCHANGED <<op, lanes, k, sym>>
  BY DEF DescendEnd, query
<1>2. UNCHANGED <<seq, syms, n_, qlevels_>> /\ l' \in 0..qlevels_
  BY <1>1 DEF matrix, IInv, Shape
<1>3. Shape' /\ LevelsExact' /\ PartitionIsStable'
  BY <1>1, <1>2, MatrixKept
<1>4. Asked'
  BY <1>1, <1>2 DEF IInv, Asked
<1>5. LanesExact' /\ AccessExact'
  BY <1>1, <1>2 DEF IInv, LanesExact, AccessExact, LevelOfLane
<1> QED BY <1>3, <1>4, <1>5 DEF IInv

\* A call that returns forgets its lanes.
LEMMA ReturnStep ==
    ASSUME IInv, Return
    PROVE  IInv'
<1>1. /\ pc = "done" /\ pc' = "ready" /\ UNCHANGED matrix /\ l' = l
      /\ op' = "none" /\ lanes' = <<>> /\ k' = 1 /\ sym' = 0
  BY DEF Return
<1>2. l' \in 0..qlevels_
  BY <1>1 DEF IInv, Shape
<1>3. Shape' /\ LevelsExact' /\ PartitionIsStable'
  BY <1>1, <1>2, MatrixKept
<1>4. Asked' /\ LanesExact' /\ AccessExact'
  BY <1>1 DEF Asked, LanesExact, AccessExact
<1> QED BY <1>3, <1>4 DEF IInv

\* Every step of the specification keeps the invariant.
LEMMA NextStep == IInv /\ [Next]_vars => IInv'
<1> SUFFICES ASSUME IInv, [Next]_vars PROVE IInv'
  OBVIOUS
<1>0. n_ \in Nat /\ 0 \in 0..n_ /\ \A x \in syms : x \in Nat
  BY SeqFacts DEF IInv
<1>1. ASSUME NEW a \in Alphabets, NEW n \in 0..MaxLength, NEW s \in [0..(n - 1) -> a.syms],
             Construct(s, n, a)
      PROVE  IInv'
  BY <1>1, ConstructStep
<1>2. ASSUME BuildLevel \/ BuildEnd PROVE IInv'
  BY <1>2, BuildLevelStep, BuildEndStep
<1>3. ASSUME NEW x \in syms, NEW b \in 0..n_, Rank(x, b) PROVE IInv'
  BY <1>0, <1>3, OneLane DEF Rank, Ops
<1>4. ASSUME NEW x \in syms, NEW b \in 0..n_, NEW a \in 0..b, Map2(x, a, b) PROVE IInv'
  <2>1. a \in 0..n_
    BY <1>0
  <2> QED BY <1>0, <1>4, <2>1, OneLane DEF Map2, Ops
<1>5. ASSUME NEW x \in syms, MapZero(x) PROVE IInv'
  BY <1>0, <1>5, OneLane DEF MapZero, Ops
<1>6. ASSUME NEW a \in 0..(n_ - 1), Access(a) PROVE IInv'
  <2>1. a \in 0..n_ /\ 0 \in Nat
    BY <1>0
  <2> QED BY <1>6, <2>1, OneLane DEF Access, Ops
<1>7. ASSUME NEW x \in syms, NEW y \in syms, NEW b \in 0..n_,
             MapBatch(<<Lane(x, 0, b), Lane(y, b, n_)>>)
      PROVE  IInv'
  BY <1>7, TwoLanes
<1>8. ASSUME Descend \/ DescendEnd \/ Return PROVE IInv'
  BY <1>8, DescendStep, DescendEndStep, ReturnStep
<1>9. ASSUME UNCHANGED vars PROVE IInv'
  <2>1. UNCHANGED <<seq, syms, n_, qlevels_, qv_, start_, cur, l, op, lanes, k, sym, pc>>
    BY <1>9 DEF vars, matrix, query
  <2>2. Levels' = Levels /\ \A x : Exact(x)' <=> Exact(x)
    BY <2>1 DEF Levels, Exact
  <2>3. Shape'
    BY <2>1, <2>2 DEF IInv, Shape
  <2>4. LevelsExact' /\ PartitionIsStable'
    BY <2>1, <2>2 DEF IInv, LevelsExact, PartitionIsStable
  <2>5. Asked' /\ LanesExact' /\ AccessExact'
    BY <2>1 DEF IInv, Asked, LanesExact, LevelOfLane, AccessExact
  <2> QED BY <2>3, <2>4, <2>5 DEF IInv
<1> QED BY <1>1, <1>2, <1>3, <1>4, <1>5, <1>6, <1>7, <1>8, <1>9 DEF Next

-----------------------------------------------------------------------------
(***************************************************************************)
(* The theorems.                                                           *)
(***************************************************************************)
\* The levels, the partitions and the lanes of the call in progress are exact in
\* every reachable state.
THEOREM Invariant == Spec => []IInv
<1> QED BY InitInv, NextStep, PTL DEF Spec

\* The lanes stay in the sequence.
LEMMA LaneRange ==
    ASSUME IInv, NEW j \in 1..Len(lanes)
    PROVE  lanes[j].lo \in 0..n_ /\ lanes[j].hi \in 0..n_
<1>0. /\ n_ \in Nat /\ qlevels_ \in Nat /\ seq \in Arrays(n_) /\ l \in 0..qlevels_
  BY SeqFacts DEF IInv, Shape
<1>1. pc \in {"descend", "done"}
  <2>1. lanes = <<>> => 1..Len(lanes) = {}
    OBVIOUS
  <2> QED BY <2>1 DEF IInv, Asked
<1>2. CASE op = "access"
  <2>1. Len(lanes) = 1 /\ lanes[1].p1 \in 0..(n_ - 1)
    BY <1>1, <1>2 DEF IInv, Asked
  <2>2. j = 1
    BY <2>1
  <2>3. PICK i \in 0..(n_ - 1) : i = lanes[1].p1
    BY <2>1
  <2>4. Spot(seq, i, l, qlevels_) \in 0..(n_ - 1)
    BY <1>0, SpotBijective DEF Permutes
  <2>5. lanes[j].lo = Spot(seq, i, l, qlevels_) /\ lanes[j].hi = Spot(seq, i, l, qlevels_)
    BY <1>1, <1>2, <2>2, <2>3 DEF IInv, AccessExact
  <2> QED BY <1>0, <2>4, <2>5
<1>3. CASE op # "access"
  <2>1. LevelOfLane(j) \in 0..qlevels_
    <3>1. k \in 1..Len(lanes) /\ (l = qlevels_ => k = 1) /\ lanes \in Seq(Lanes)
      BY <1>1 DEF IInv, Asked
    <3> QED BY <1>0, <3>1 DEF LevelOfLane
  <2>2. PICK d \in 0..qlevels_ : d = LevelOfLane(j)
    BY <2>1
  <2>3. lanes[j].c \in Nat /\ lanes[j].p1 \in 0..n_ /\ lanes[j].p2 \in 0..n_
    <3>1. lanes[j].c \in syms /\ lanes[j].p1 \in 0..n_ /\ lanes[j].p2 \in 0..n_
      BY <1>1, <1>3 DEF IInv, Asked
    <3> QED BY <3>1, SeqFacts DEF IInv
  <2>4. \A c \in Nat, i \in 0..n_ : PlaceAt(seq, c, i, d, qlevels_) \in 0..n_
    BY <1>0, PlaceIsRank
  <2> QED BY <1>1, <1>3, <2>2, <2>3, <2>4 DEF IInv, LanesExact
<1> QED BY <1>2, <1>3

\* The invariant implies the types.
LEMMA TypeStep == IInv => TypeOK
<1> SUFFICES ASSUME IInv PROVE TypeOK
  OBVIOUS
<1>0. n_ \in Nat /\ qlevels_ \in Nat /\ l \in 0..qlevels_
  BY DEF IInv, Shape
<1>1. cur \in [0..(n_ - 1) -> syms] /\ \A x \in DOMAIN start_ : start_[x] \in [0..3 -> 0..n_]
  BY DEF IInv, Shape
<1>2. k \in 1..(Len(lanes) + 1)
  <2>1. lanes \in Seq(Lanes) /\ (k = 1 \/ k \in 1..Len(lanes))
    BY DEF IInv, Asked
  <2> QED BY <2>1
<1>3. sym \in 0..Pow4[qlevels_]
  <2>0. Pow4[qlevels_] \in Nat
    BY <1>0, Pow4Facts
  <2>1. CASE pc \in {"descend", "done"} /\ op = "access"
    <3>1. lanes[1].p1 \in 0..(n_ - 1) /\ sym = Prefix(seq[lanes[1].p1], l, qlevels_)
      BY <2>1 DEF IInv, Asked, AccessExact
    <3>2. PICK a \in 0..(Pow4[qlevels_] - 1) : a = seq[lanes[1].p1]
      BY <3>1, SeqFacts DEF IInv
    <3>3. Prefix(a, l, qlevels_) \in 0..Pow4[qlevels_]
      BY <1>0, PrefixBound
    <3> QED BY <3>1, <3>2, <3>3
  <2>2. CASE ~ (pc \in {"descend", "done"} /\ op = "access")
    <3>1. sym = 0
      BY <2>2 DEF IInv, Asked
    <3> QED BY <2>0, <3>1
  <2> QED BY <2>1, <2>2
<1>4. \A j \in 1..Len(lanes) : lanes[j].lo \in 0..n_ /\ lanes[j].hi \in 0..n_
  BY LaneRange
<1> QED BY <1>0, <1>1, <1>2, <1>3, <1>4 DEF TypeOK

\* The construction and the queries keep their members and locals in range, for
\* every alphabet and sequence: no descent leaves the sequence, and access never
\* builds a symbol out of its alphabet's range.
THEOREM TypeCorrect == Spec => []TypeOK
<1> QED BY Invariant, TypeStep, PTL

\* The constructor's scatter is stable at every level: after l partitions every
\* symbol is where its first l digits, read backwards, and its position put it.
THEOREM PartitionCorrect == Spec => []PartitionIsStable
<1>1. IInv => PartitionIsStable
  BY DEF IInv
<1> QED BY Invariant, <1>1, PTL

\* Every descent of rank, map2, map_zero and map_batch is, at every level and
\* whatever the other lanes of its batch do, where the partitions put it.
THEOREM DescentCorrect == Spec => []DescentExact
<1>1. IInv => DescentExact
  <2> SUFFICES ASSUME IInv PROVE DescentExact
    OBVIOUS
  <2> QED BY DEF IInv, LanesExact, DescentExact, LevelOfLane
<1> QED BY Invariant, <1>1, PTL

\* The invariant implies that the result is the reference one.
LEMMA ResultStep == IInv => ResultExact
<1> SUFFICES ASSUME IInv, pc = "done" PROVE ResultExact
  BY DEF ResultExact
<1>0. /\ n_ \in Nat /\ qlevels_ \in Nat /\ l = qlevels_ /\ k = 1 /\ op \in Ops
      /\ seq \in [0..(n_ - 1) -> 0..(Pow4[qlevels_] - 1)]
      /\ syms \subseteq 0..(Pow4[qlevels_] - 1) /\ lanes \in Seq(Lanes)
  BY SeqFacts DEF IInv, Shape, Asked
<1>1. ASSUME op = "access", NEW j \in 1..Len(lanes) PROVE sym = seq[lanes[j].p1]
  <2>1. Len(lanes) = 1 /\ lanes[1].p1 \in 0..(n_ - 1)
    BY <1>1 DEF IInv, Asked
  <2>2. j = 1
    BY <2>1
  <2>3. sym = Prefix(seq[lanes[1].p1], qlevels_, qlevels_)
    BY <1>0, <1>1 DEF IInv, AccessExact
  <2>4. PICK a \in 0..(Pow4[qlevels_] - 1) : a = seq[lanes[1].p1]
    BY <1>0, <2>1
  <2>5. Prefix(a, qlevels_, qlevels_) = a
    BY <1>0, PrefixEnds
  <2> QED BY <2>2, <2>3, <2>4, <2>5
<1>2. ASSUME op # "access", NEW j \in 1..Len(lanes)
      PROVE  /\ lanes[j].lo = MapPos(seq, lanes[j].c, lanes[j].p1, qlevels_)
             /\ lanes[j].hi = MapPos(seq, lanes[j].c, lanes[j].p2, qlevels_)
             /\ GroupStart(seq, lanes[j].c, qlevels_) \in Nat
             /\ RankIn(seq, lanes[j].c, lanes[j].p2) \in Nat
             /\ lanes[j].p1 = 0 => RankIn(seq, lanes[j].c, lanes[j].p1) = 0
  <2>1. LevelOfLane(j) = qlevels_
    BY <1>0 DEF LevelOfLane
  <2>2. /\ lanes[j].lo = PlaceAt(seq, lanes[j].c, lanes[j].p1, qlevels_, qlevels_)
        /\ lanes[j].hi = PlaceAt(seq, lanes[j].c, lanes[j].p2, qlevels_, qlevels_)
    BY <1>2, <2>1 DEF IInv, LanesExact
  <2>3. PICK c \in 0..(Pow4[qlevels_] - 1) : c = lanes[j].c
    <3>1. lanes[j].c \in syms
      BY <1>2 DEF IInv, Asked
    <3> QED BY <1>0, <3>1
  <2>4. PICK x \in 0..n_ : x = lanes[j].p1
    BY DEF IInv, Asked
  <2>5. PICK y \in 0..n_ : y = lanes[j].p2
    BY DEF IInv, Asked
  <2>6. /\ PlaceAt(seq, c, x, qlevels_, qlevels_) = MapPos(seq, c, x, qlevels_)
        /\ x = 0 => RankIn(seq, c, x) = 0
    BY <1>0, PlaceIsMapPos
  <2>7. /\ PlaceAt(seq, c, y, qlevels_, qlevels_) = MapPos(seq, c, y, qlevels_)
        /\ GroupStart(seq, c, qlevels_) \in Nat /\ RankIn(seq, c, y) \in Nat
    BY <1>0, PlaceIsMapPos
  <2> QED BY <2>2, <2>3, <2>4, <2>5, <2>6, <2>7
<1>3. ASSUME op \in {"rank", "map_zero"}, NEW j \in 1..Len(lanes)
      PROVE  /\ lanes[j].lo = GroupStart(seq, lanes[j].c, qlevels_)
             /\ lanes[j].hi - lanes[j].lo = RankIn(seq, lanes[j].c, lanes[j].p2)
  <2>1. lanes[j].p1 = 0
    BY <1>3 DEF IInv, Asked
  <2> DEFINE g == GroupStart(seq, lanes[j].c, qlevels_)
             r == RankIn(seq, lanes[j].c, lanes[j].p2)
             z == RankIn(seq, lanes[j].c, lanes[j].p1)
  <2>2. op # "access"
    BY <1>3
  <2>3. lanes[j].lo = g + z /\ lanes[j].hi = g + r /\ g \in Nat /\ r \in Nat /\ z = 0
    BY <1>2, <2>1, <2>2 DEF MapPos
  <2> HIDE DEF g, r, z
  <2>4. lanes[j].lo = g /\ lanes[j].hi - lanes[j].lo = r
    BY <2>3
  <2> QED BY <2>4 DEF g, r
<1>4. CASE op = "access"
  BY <1>1, <1>4 DEF ResultExact
<1>5. CASE op = "rank"
  BY <1>3, <1>5 DEF ResultExact
<1>6. CASE op = "map_zero"
  BY <1>3, <1>6 DEF ResultExact
<1>7. CASE op \in {"map2", "map_batch"}
  BY <1>2, <1>7 DEF ResultExact
<1> QED BY <1>0, <1>4, <1>5, <1>6, <1>7 DEF Ops

\* Every query returns what SymbolRank defines: rank the occurrences before a
\* position, access the symbol there, map2, map_zero and map_batch the places in
\* the fully partitioned sequence.
THEOREM ResultCorrect == Spec => []ResultExact
<1> QED BY Invariant, ResultStep, PTL
=============================================================================
