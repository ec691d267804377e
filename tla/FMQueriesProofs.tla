--------------------------- MODULE FMQueriesProofs --------------------------
(***************************************************************************)
(* The scanning and the batch queries, for every corpus, request, rate and *)
(* tile size.  The invariant says of every place in the code what its      *)
(* locals stand for: the bounds of a lane are the interval of the bytes it *)
(* has behind it, an entry of a round is what its lane has still to be     *)
(* told, and a call of dfs narrows down to a word that few edits lead to.  *)
(* A second invariant says what the loops have found so far, in the terms  *)
(* of the documents, and from it the module refines DocIndex: for the      *)
(* search with edits, every cell of the table of edit distances that is    *)
(* within the budget is one that dfs has met.                              *)
(* The parts before the steps are what these need: a search one byte at a  *)
(* time is a table, the walk that locates a row is exact, and a byte in    *)
(* front of a word adds at most one edit to the distance that the recursion*)
(* of DocIndex defines.                                                    *)
(***************************************************************************)
EXTENDS FMQueries, FMTextProofs, SequenceTheorems

-----------------------------------------------------------------------------
(***************************************************************************)
(* Tables that are defined by recursion.                                   *)
(***************************************************************************)

\* A table with values in V that starts with a and goes on with what h makes of
\* the place and the value before it.
Recurs(f, n, V, a, h) ==
    /\ f \in [0..n -> V]
    /\ f[0] = a
    /\ \A m \in 1..n : f[m] = h[m][f[m - 1]]

\* Such a table exists for every length.
LEMMA RecursionExists ==
    ASSUME NEW n \in Nat, NEW V, NEW a \in V, NEW h, \A m \in 1..n : \A v \in V : h[m][v] \in V
    PROVE  \E f : Recurs(f, n, V, a, h)
<1> DEFINE T == {m \in Nat : m <= n => \E f : Recurs(f, m, V, a, h)}
<1>1. 0 \in T
  <2>1. Recurs([x \in 0..0 |-> a], 0, V, a, h)
    BY DEF Recurs
  <2> QED BY <2>1
<1>2. ASSUME NEW m \in Nat, m \in T PROVE m + 1 \in T
  <2> SUFFICES ASSUME m + 1 <= n PROVE \E f : Recurs(f, m + 1, V, a, h)
    OBVIOUS
  <2>1. PICK f : Recurs(f, m, V, a, h)
    BY <1>2
  <2> DEFINE g == [x \in 0..(m + 1) |-> IF x = m + 1 THEN h[m + 1][f[m]] ELSE f[x]]
  <2>2. f \in [0..m -> V] /\ f[m] \in V
    BY <2>1 DEF Recurs
  <2>3. h[m + 1][f[m]] \in V
    BY <2>2
  <2>4. g \in [0..(m + 1) -> V]
    BY <2>2, <2>3
  <2>5. g[0] = a
    BY <2>1 DEF Recurs
  <2>6. ASSUME NEW x \in 1..(m + 1) PROVE g[x] = h[x][g[x - 1]]
    <3>1. CASE x = m + 1
      <4>1. x \in 0..(m + 1) /\ x - 1 \in 0..(m + 1) /\ x - 1 # m + 1 /\ x - 1 = m
        BY <3>1
      <4> QED BY <4>1, <3>1
    <3>2. CASE x # m + 1
      <4>1. x \in 0..(m + 1) /\ x - 1 \in 0..(m + 1) /\ x - 1 # m + 1 /\ x \in 1..m
        BY <3>2
      <4>2. g[x] = f[x] /\ g[x - 1] = f[x - 1]
        BY <4>1, <3>2
      <4>3. f[x] = h[x][f[x - 1]]
        BY <2>1, <4>1 DEF Recurs
      <4> QED BY <4>2, <4>3
    <3> QED BY <3>1, <3>2
  <2> HIDE DEF g
  <2>7. Recurs(g, m + 1, V, a, h)
    BY <2>4, <2>5, <2>6 DEF Recurs
  <2> QED BY <2>7
<1> HIDE DEF T
<1>3. \A m \in Nat : m \in T
  BY <1>1, <1>2, NatSet
<1>4. n \in T
  BY <1>3
<1> QED BY <1>4 DEF T

-----------------------------------------------------------------------------
(***************************************************************************)
(* The search for a pattern: the interval after each of its bytes.         *)
(***************************************************************************)

\* A pair of row bounds of an index over n + 1 rows.
Pairs(n) == (0..(n + 1)) \X (0..(n + 1))

\* What BackwardSearch makes of an interval when it meets a byte with this id.
Extended(o, id, iv) ==
    LET next == [e \in 1..2 |-> Extend(o, id, iv[e])]
    IN IF iv = <<0, 0>> \/ id < 0 \/ next[1] >= next[2] THEN <<0, 0>> ELSE next

\* The table of the intervals of the suffixes of p.
Intervals(f, o, p) ==
    f = [n \in 0..Len(p) |->
           IF n = 0 THEN <<0, M(o)>>
           ELSE Extended(o, o.byte_to_id_[p[Len(p) + 1 - n]], f[n - 1])]

\* An extension of an interval is an interval.
LEMMA ExtendedType ==
    ASSUME NEW o, NEW t, NEW sa, Serves(o, t, sa), NEW x \in Bytes, NEW iv \in Pairs(o.text_len_)
    PROVE  Extended(o, o.byte_to_id_[x], iv) \in Pairs(o.text_len_)
<1> DEFINE id == o.byte_to_id_[x]
           n == o.text_len_
<1>1. n \in Nat /\ <<0, 0>> \in Pairs(n)
  BY DEF Serves, Ended, Pairs
<1>2. CASE id < 0
  BY <1>1, <1>2 DEF Extended
<1>3. CASE ~ (id < 0)
  <2>1. id \in 0..(o.sigma_ - 1)
    <3>1. id \in 2..(o.sigma_ - 1)
      BY <1>3 DEF Serves
    <3>2. o.sigma_ \in Nat
      BY DEF Serves, Ended
    <3> HIDE DEF id
    <3> QED BY <3>1, <3>2
  <2> HIDE DEF id
  <2>2. iv[1] \in 0..(n + 1) /\ iv[2] \in 0..(n + 1)
    BY DEF Pairs
  <2>3. PICK b1 \in 0..(n + 1) : b1 = iv[1]
    BY <2>2
  <2>4. PICK b2 \in 0..(n + 1) : b2 = iv[2]
    BY <2>2
  <2>5. Extend(o, id, b1) \in 0..(n + 1) /\ Extend(o, id, b2) \in 0..(n + 1)
    BY <2>1, ExtendIsCut
  <2>6. [e \in 1..2 |-> Extend(o, id, iv[e])] = <<Extend(o, id, b1), Extend(o, id, b2)>>
    BY <2>3, <2>4
  <2>7. [e \in 1..2 |-> Extend(o, id, iv[e])] \in Pairs(n)
    BY <2>5, <2>6 DEF Pairs
  <2> QED BY <2>7, <1>1 DEF Extended, id
<1> QED BY <1>2, <1>3

\* The recursive definition in Interval defines a table, of row bounds.
LEMMA IntervalTable ==
    ASSUME NEW o, NEW t, NEW sa, Serves(o, t, sa), NEW p \in Seq(Bytes)
    PROVE  \E f \in [0..Len(p) -> Pairs(o.text_len_)] :
             Intervals(f, o, p) /\ Interval(o, p) = f[Len(p)]
<1> DEFINE n == o.text_len_
           L == Len(p)
           V == Pairs(n)
           h == [m \in 1..L |-> [v \in V |-> Extended(o, o.byte_to_id_[p[L + 1 - m]], v)]]
<1>1. L \in Nat /\ n \in Nat /\ M(o) = n + 1
  BY DEF Serves, Ended, M
<1>2. <<0, M(o)>> \in V
  BY <1>1 DEF Pairs
<1>3. ASSUME NEW m \in 1..L, NEW v \in V PROVE h[m][v] \in V
  <2>1. L + 1 - m \in 1..L
    BY <1>1
  <2>2. p[L + 1 - m] \in Bytes
    BY <2>1
  <2>3. PICK x \in Bytes : x = p[L + 1 - m]
    BY <2>2
  <2>4. Extended(o, o.byte_to_id_[x], v) \in V
    BY ExtendedType
  <2>5. h[m][v] = Extended(o, o.byte_to_id_[p[L + 1 - m]], v)
    OBVIOUS
  <2> HIDE DEF h
  <2> QED BY <2>3, <2>4, <2>5
<1>4. PICK f : Recurs(f, L, V, <<0, M(o)>>, h)
  <2> HIDE DEF h, V, L
  <2> QED BY <1>1, <1>2, <1>3, RecursionExists
<1>5. f \in [0..L -> V]
  BY <1>4 DEF Recurs
<1>6. ASSUME NEW m \in 0..L
      PROVE  f[m] = IF m = 0 THEN <<0, M(o)>>
                    ELSE Extended(o, o.byte_to_id_[p[L + 1 - m]], f[m - 1])
  <2>1. CASE m = 0
    BY <2>1, <1>4 DEF Recurs
  <2>2. CASE m # 0
    <3>1. m \in 1..L /\ m - 1 \in 0..L
      BY <2>2, <1>1
    <3>2. f[m - 1] \in V
      BY <1>5, <3>1
    <3>3. f[m] = h[m][f[m - 1]]
      BY <1>4, <3>1 DEF Recurs
    <3>4. h[m][f[m - 1]] = Extended(o, o.byte_to_id_[p[L + 1 - m]], f[m - 1])
      BY <3>1, <3>2
    <3> HIDE DEF h
    <3> QED BY <2>2, <3>3, <3>4
  <2> QED BY <2>1, <2>2
<1>7. f = [m \in 0..L |-> IF m = 0 THEN <<0, M(o)>>
                          ELSE Extended(o, o.byte_to_id_[p[L + 1 - m]], f[m - 1])]
  <2>1. f = [m \in 0..L |-> f[m]]
    BY <1>5
  <2> HIDE DEF h, V
  <2> QED BY <2>1, <1>6
<1>8. Intervals(f, o, p)
  BY <1>7 DEF Intervals
<1>9. \A g1, g2 : Intervals(g1, o, p) /\ Intervals(g2, o, p) => g1 = g2
  <2> SUFFICES ASSUME NEW g1, NEW g2, Intervals(g1, o, p), Intervals(g2, o, p) PROVE g1 = g2
    OBVIOUS
  <2> DEFINE T == {m \in Nat : m <= L => g1[m] = g2[m]}
  <2>1. ASSUME NEW m \in 0..L, NEW g, Intervals(g, o, p)
        PROVE  g[m] = IF m = 0 THEN <<0, M(o)>>
                      ELSE Extended(o, o.byte_to_id_[p[L + 1 - m]], g[m - 1])
    BY <2>1 DEF Intervals
  <2>2. 0 \in T
    BY <1>1, <2>1
  <2>3. ASSUME NEW m \in Nat, m \in T PROVE m + 1 \in T
    <3> SUFFICES ASSUME m + 1 <= L PROVE g1[m + 1] = g2[m + 1]
      OBVIOUS
    <3>1. m + 1 \in 0..L /\ m + 1 # 0 /\ (m + 1) - 1 = m /\ m <= L
      BY <1>1
    <3>2. g1[m] = g2[m]
      BY <2>3, <3>1
    <3> HIDE DEF T
    <3>3. g1[m + 1] = Extended(o, o.byte_to_id_[p[L + 1 - (m + 1)]], g1[m])
      BY <3>1, <2>1
    <3>4. g2[m + 1] = Extended(o, o.byte_to_id_[p[L + 1 - (m + 1)]], g2[m])
      BY <3>1, <2>1
    <3> QED BY <3>2, <3>3, <3>4
  <2> HIDE DEF T
  <2>4. \A m \in Nat : m \in T
    BY <2>2, <2>3, NatSet
  <2>5. \A m \in 0..L : g1[m] = g2[m]
    BY <1>1, <2>4 DEF T
  <2>6. g1 = [m \in 0..L |-> g1[m]] /\ g2 = [m \in 0..L |-> g2[m]]
    BY DEF Intervals
  <2> HIDE DEF L
  <2> QED BY <2>5, <2>6
<1>10. Interval(o, p) = (CHOOSE g : Intervals(g, o, p))[L]
  BY DEF Interval, Intervals, Extended
<1> QED BY <1>5, <1>8, <1>9, <1>10

\* The interval of the empty word is that of all rows.
LEMMA IntervalEmpty ==
    ASSUME NEW o, NEW t, NEW sa, Serves(o, t, sa)
    PROVE  Interval(o, <<>>) = <<0, M(o)>>
<1>1. <<>> \in Seq(Bytes) /\ Len(<<>>) = 0
  OBVIOUS
<1>2. PICK f : Intervals(f, o, <<>>) /\ Interval(o, <<>>) = f[0]
  BY <1>1, IntervalTable
<1> QED BY <1>1, <1>2 DEF Intervals

\* An interval consists of row bounds.
LEMMA IntervalType ==
    ASSUME NEW o, NEW t, NEW sa, Serves(o, t, sa), NEW p \in Seq(Bytes)
    PROVE  Interval(o, p) \in Pairs(o.text_len_)
<1>1. Len(p) \in 0..Len(p)
  OBVIOUS
<1> QED BY <1>1, IntervalTable

\* The interval of a word is that of its tail, extended by its first byte.
LEMMA IntervalStep ==
    ASSUME NEW o, NEW t, NEW sa, Serves(o, t, sa), NEW p \in Seq(Bytes), NEW v \in Seq(Bytes),
           Len(v) = Len(p) + 1, \A j \in 1..Len(p) : v[j + 1] = p[j]
    PROVE  Interval(o, v) = Extended(o, o.byte_to_id_[v[1]], Interval(o, p))
<1> DEFINE L == Len(p)
<1>1. L \in Nat
  OBVIOUS
<1>2. PICK f : Intervals(f, o, p) /\ Interval(o, p) = f[L]
  BY IntervalTable
<1>3. PICK g : Intervals(g, o, v) /\ Interval(o, v) = g[L + 1]
  BY IntervalTable
<1> DEFINE T == {m \in Nat : m <= L => f[m] = g[m]}
<1>4. \A m \in 0..L : f[m] = IF m = 0 THEN <<0, M(o)>>
                             ELSE Extended(o, o.byte_to_id_[p[L + 1 - m]], f[m - 1])
  BY <1>2 DEF Intervals
<1>5. \A m \in 0..(L + 1) : g[m] = IF m = 0 THEN <<0, M(o)>>
                             ELSE Extended(o, o.byte_to_id_[v[(L + 1) + 1 - m]], g[m - 1])
  BY <1>3 DEF Intervals
<1>6. \A m \in 1..L : v[(L + 1) + 1 - m] = p[L + 1 - m]
  <2> SUFFICES ASSUME NEW m \in 1..L PROVE v[(L + 1) + 1 - m] = p[L + 1 - m]
    OBVIOUS
  <2>1. L + 1 - m \in 1..L /\ (L + 1) + 1 - m = (L + 1 - m) + 1
    BY <1>1
  <2> QED BY <2>1
<1> HIDE DEF L
<1>7. 0 \in T
  BY <1>1, <1>4, <1>5
<1>8. ASSUME NEW m \in Nat, m \in T PROVE m + 1 \in T
  <2> SUFFICES ASSUME m + 1 <= L PROVE f[m + 1] = g[m + 1]
    OBVIOUS
  <2>1. /\ m + 1 \in 0..L /\ m + 1 \in 0..(L + 1) /\ m + 1 \in 1..L /\ m + 1 # 0
        /\ (m + 1) - 1 = m /\ m <= L
    BY <1>1
  <2>2. f[m] = g[m]
    BY <1>8, <2>1
  <2> HIDE DEF T
  <2>3. f[m + 1] = Extended(o, o.byte_to_id_[p[L + 1 - (m + 1)]], f[m])
    BY <2>1, <1>4
  <2>4. g[m + 1] = Extended(o, o.byte_to_id_[v[(L + 1) + 1 - (m + 1)]], g[m])
    BY <2>1, <1>5
  <2>5. v[(L + 1) + 1 - (m + 1)] = p[L + 1 - (m + 1)]
    BY <2>1, <1>6
  <2> QED BY <2>2, <2>3, <2>4, <2>5
<1> HIDE DEF T
<1>9. \A m \in Nat : m \in T
  BY <1>7, <1>8, NatSet
<1>10. f[L] = g[L]
  BY <1>1, <1>9 DEF T
<1>11. g[L + 1] = Extended(o, o.byte_to_id_[v[1]], g[L])
  <2>1. L + 1 \in 0..(L + 1) /\ L + 1 # 0 /\ (L + 1) - 1 = L /\ (L + 1) + 1 - (L + 1) = 1
    BY <1>1
  <2>2. g[L + 1] = Extended(o, o.byte_to_id_[v[(L + 1) + 1 - (L + 1)]], g[(L + 1) - 1])
    BY <2>1, <1>5
  <2> QED BY <2>1, <2>2
<1> QED BY <1>2, <1>3, <1>10, <1>11

-----------------------------------------------------------------------------
(***************************************************************************)
(* The walk that locates a row.                                            *)
(***************************************************************************)

\* The rows an LF walk from row r meets.
Walk(f, o, r) == f = [n \in 0..M(o) |-> IF n = 0 THEN r ELSE LF(o, f[n - 1])]
WalkOf(o, r) == CHOOSE g : Walk(g, o, r)

\* The recursive definition of such a walk defines a function, which goes back
\* one position at a time.
LEMMA WalkTable ==
    ASSUME NEW o, NEW t, NEW sa, Serves(o, t, sa), NEW r \in 0..o.text_len_
    PROVE  /\ WalkOf(o, r) \in [0..M(o) -> 0..o.text_len_]
           /\ \A m \in 0..sa[r] : sa[WalkOf(o, r)[m]] = sa[r] - m
<1> DEFINE n == o.text_len_
           L == M(o)
           V == 0..n
           h == [m \in 1..L |-> [v \in V |-> LF(o, v)]]
<1>1. L \in Nat /\ n \in Nat /\ M(o) = n + 1
  BY DEF Serves, Ended, M
<1>2. ASSUME NEW m \in 1..L, NEW v \in V PROVE h[m][v] \in V
  BY LFBack
<1>3. PICK f : Recurs(f, L, V, r, h)
  <2> HIDE DEF h, L
  <2> QED BY <1>1, <1>2, RecursionExists
<1>4. f \in [0..L -> V] /\ f[0] = r
  BY <1>3 DEF Recurs
<1>5. ASSUME NEW m \in 1..L PROVE f[m] = LF(o, f[m - 1])
  <2>1. f[m - 1] \in V
    BY <1>4, <1>1
  <2>2. f[m] = h[m][f[m - 1]]
    BY <1>3 DEF Recurs
  <2> QED BY <2>1, <2>2
<1> HIDE DEF h
<1>6. Walk(f, o, r)
  <2>1. \A m \in 0..L : f[m] = IF m = 0 THEN r ELSE LF(o, f[m - 1])
    BY <1>4, <1>5, <1>1
  <2>2. f = [m \in 0..L |-> f[m]]
    BY <1>4
  <2> QED BY <2>1, <2>2 DEF Walk
<1> DEFINE w == WalkOf(o, r)
<1>7. Walk(w, o, r)
  BY <1>6 DEF WalkOf
<1> HIDE DEF w
<1>8. \A m \in 0..L : w[m] = IF m = 0 THEN r ELSE LF(o, w[m - 1])
  BY <1>7 DEF Walk
<1> DEFINE T == {m \in Nat : m <= L => w[m] \in V /\ (m <= sa[r] => sa[w[m]] = sa[r] - m)}
<1>9. sa \in [V -> V] /\ sa[r] \in 0..n
  BY DEF Serves, Sorted
<1>10. 0 \in T
  BY <1>1, <1>8, <1>9
<1>11. ASSUME NEW m \in Nat, m \in T PROVE m + 1 \in T
  <2> SUFFICES ASSUME m + 1 <= L
               PROVE  w[m + 1] \in V /\ (m + 1 <= sa[r] => sa[w[m + 1]] = sa[r] - (m + 1))
    OBVIOUS
  <2>1. m + 1 \in 0..L /\ m + 1 # 0 /\ (m + 1) - 1 = m /\ m <= L
    BY <1>1
  <2>2. w[m] \in V /\ (m <= sa[r] => sa[w[m]] = sa[r] - m)
    BY <1>11, <2>1
  <2>3. w[m + 1] = LF(o, w[m])
    BY <1>8, <2>1
  <2>4. PICK x \in V : x = w[m]
    BY <2>2
  <2>5. LF(o, x) \in V /\ sa[LF(o, x)] = Prev(sa[x], n)
    BY LFBack
  <2>6. w[m + 1] \in V
    BY <2>3, <2>4, <2>5
  <2>7. m + 1 <= sa[r] => sa[x] = sa[r] - m /\ sa[x] # 0
    BY <2>2, <2>4, <1>9
  <2>8. m + 1 <= sa[r] => sa[w[m + 1]] = sa[r] - (m + 1)
    <3> SUFFICES ASSUME m + 1 <= sa[r] PROVE sa[w[m + 1]] = sa[r] - (m + 1)
      OBVIOUS
    <3>1. sa[w[m + 1]] = sa[x] - 1
      BY <2>3, <2>4, <2>5, <2>7 DEF Prev
    <3> HIDE DEF T
    <3> QED BY <3>1, <2>7, <1>9
  <2> QED BY <2>6, <2>8
<1> HIDE DEF T
<1>12. \A m \in Nat : m \in T
  BY <1>10, <1>11, NatSet
<1>13. w \in [0..L -> V]
  <2>1. \A m \in 0..L : w[m] \in V
    BY <1>1, <1>12 DEF T
  <2>2. w = [m \in 0..L |-> w[m]]
    BY <1>7 DEF Walk
  <2> HIDE DEF V
  <2> QED BY <2>1, <2>2
<1>14. ASSUME NEW m \in 0..sa[r] PROVE sa[w[m]] = sa[r] - m
  <2>1. m \in Nat /\ m <= L /\ m <= sa[r]
    BY <1>1, <1>9
  <2> QED BY <2>1, <1>12 DEF T
<1> QED BY <1>13, <1>14 DEF w

\* The remainder of a multiple and what is less than the divisor.
LEMMA ModOf ==
    ASSUME NEW q \in Nat, NEW d \in Nat \ {0}, NEW z \in 0..(d - 1)
    PROVE  (q * d + z) % d = z
<1> DEFINE x == q * d + z
<1>1. q * d \in Nat /\ x \in Nat
  OBVIOUS
<1>2. q * d <= x /\ x < q * d + d
  BY <1>1
<1> HIDE DEF x
<1>3. x \div d = q
  BY <1>1, <1>2, DivUnique
<1>4. x = q * d + (x % d)
  <2>1. x = (x \div d) * d + (x % d)
    BY <1>1, DivMod
  <2> QED BY <1>3, <2>1
<1>5. x = q * d + z
  BY DEF x
<1>6. x % d \in Nat
  BY <1>1, DivMod
<1>7. x % d = z
  BY <1>1, <1>4, <1>5, <1>6
<1> QED BY <1>7 DEF x

\* The first multiple of d that is met on the way down from x is x % d away.
LEMMA BackToMultiple ==
    ASSUME NEW x \in Nat, NEW d \in Nat \ {0}
    PROVE  /\ x % d \in 0..x /\ x % d \in Nat /\ (x - (x % d)) % d = 0
           /\ \A y \in 0..((x % d) - 1) : (x - y) % d # 0
<1> DEFINE q == x \div d
           s == x % d
<1>1. q \in Nat /\ s \in 0..(d - 1) /\ x = q * d + s
  BY DivMod
<1>2. q * d \in Nat
  BY <1>1
<1> HIDE DEF q, s
<1>3. (q * d + 0) % d = 0
  <2>1. 0 \in 0..(d - 1)
    OBVIOUS
  <2> QED BY <1>1, <2>1, ModOf
<1>4. s \in 0..x /\ s \in Nat /\ x - s = q * d + 0
  BY <1>1, <1>2
<1>5. ASSUME NEW y \in 0..(s - 1) PROVE (x - y) % d # 0
  <2>1. PICK z \in 1..(d - 1) : z = s - y
    BY <1>1
  <2>2. x - y = q * d + z
    BY <1>1, <1>2, <2>1
  <2>3. (q * d + z) % d = z
    BY <1>1, ModOf
  <2> QED BY <2>1, <2>2, <2>3
<1> QED BY <1>3, <1>4, <1>5 DEF s

\* A walk from a row finds the position of the row.
LEMMA LocateRowExact ==
    ASSUME NEW o, NEW t, NEW sa, Serves(o, t, sa), Sampled(o, sa), NEW r \in 0..o.text_len_
    PROVE  LocateRow(o, r) = sa[r]
<1> DEFINE w == WalkOf(o, r)
           n == o.text_len_
           rate == o.sa_sample_rate_
           Stops(x) == /\ w[x] \in o.sampled_bv_
                       /\ \A y \in 0..(x - 1) : w[y] \notin o.sampled_bv_
<1>1. w \in [0..M(o) -> 0..n] /\ \A m \in 0..sa[r] : sa[w[m]] = sa[r] - m
  BY WalkTable
<1>2. LocateRow(o, r) = LET k == CHOOSE x \in 0..M(o) : Stops(x) IN SampleVal(o, w[k]) + k
  BY DEF LocateRow, Walk, WalkOf
<1> HIDE DEF w
<1>3. n \in Nat /\ M(o) = n + 1 /\ sa[r] \in 0..n /\ rate \in Nat \ {0}
  BY DEF Serves, Ended, Sorted, Sampled, M
<1> DEFINE s == sa[r] % rate
<1>4. /\ s \in 0..sa[r] /\ s \in Nat /\ (sa[r] - s) % rate = 0
      /\ \A z \in 0..(s - 1) : (sa[r] - z) % rate # 0
  <2>1. PICK y \in Nat : y = sa[r]
    BY <1>3
  <2>2. PICK d \in Nat \ {0} : d = rate
    BY <1>3
  <2>3. y % d \in 0..y /\ y % d \in Nat /\ (y - (y % d)) % d = 0
    BY BackToMultiple
  <2>4. \A z \in 0..((y % d) - 1) : (y - z) % d # 0
    BY BackToMultiple
  <2> QED BY <2>1, <2>2, <2>3, <2>4
<1>5. ASSUME NEW x \in 0..sa[r] PROVE w[x] \in o.sampled_bv_ <=> (sa[r] - x) % rate = 0
  <2>1. x \in 0..M(o)
    BY <1>3
  <2>2. PICK y \in 0..n : y = w[x]
    BY <1>1, <2>1
  <2>3. y \in o.sampled_bv_ <=> sa[y] % rate = 0
    BY SampleIsPosition
  <2> QED BY <2>2, <2>3, <1>1
<1>6. Stops(s)
  <2>1. w[s] \in o.sampled_bv_
    BY <1>4, <1>5
  <2>2. ASSUME NEW y \in 0..(s - 1) PROVE w[y] \notin o.sampled_bv_
    <3>1. y \in 0..sa[r]
      BY <1>4, <1>3
    <3>2. (sa[r] - y) % rate # 0
      BY <1>4
    <3> QED BY <3>1, <3>2, <1>5
  <2> QED BY <2>1, <2>2
<1>7. \A x \in 0..M(o) : Stops(x) => x = s
  <2> SUFFICES ASSUME NEW x \in 0..M(o), Stops(x), x # s PROVE FALSE
    OBVIOUS
  <2>1. CASE x < s
    BY <2>1, <1>4, <1>6, <1>3
  <2>2. CASE s < x
    <3>1. s \in 0..(x - 1)
      BY <2>2, <1>4
    <3> QED BY <3>1, <1>6
  <2> HIDE DEF s, Stops
  <2> QED BY <2>1, <2>2, <1>4, <1>3
<1>8. (CHOOSE x \in 0..M(o) : Stops(x)) = s
  <2>1. s \in 0..M(o)
    BY <1>4, <1>3
  <2> HIDE DEF s, Stops
  <2> QED BY <2>1, <1>6, <1>7
<1>9. SampleVal(o, w[s]) = sa[r] - s
  <2>1. s \in 0..M(o)
    BY <1>4, <1>3
  <2>2. PICK y \in 0..n : y = w[s]
    BY <1>1, <2>1
  <2>3. y \in o.sampled_bv_
    BY <2>2, <1>6
  <2>4. SampleVal(o, y) = sa[y]
    BY <2>3, SampleIsPosition
  <2> QED BY <2>2, <2>4, <1>1, <1>4
<1>10. LocateRow(o, r) = SampleVal(o, w[s]) + s
  <2> HIDE DEF s, Stops
  <2> QED BY <1>2, <1>8
<1> HIDE DEF s
<1> QED BY <1>9, <1>10, <1>3, <1>4

-----------------------------------------------------------------------------
(***************************************************************************)
(* The invariant.                                                          *)
(***************************************************************************)
Documents(c) == c.docs \in Seq(Seq(Bytes)) /\ c.cf \in BOOLEAN

\* The symbol text of the corpus and its suffix array.
Text == TextOf(corpus[1].docs, corpus[1].cf)
Array == ArrayOf(corpus[1].docs, corpus[1].cf)

\* There is no index, or that of the corpus.
ObjectHolds ==
    \/ fm = Fresh /\ corpus = <<>>
    \/ /\ corpus # <<>> /\ Documents(corpus[1])
       /\ \E rate \in Nat \ {0} : fm = Built(corpus[1].docs, corpus[1].cf, rate)

Places == {"end", "extend", "byte", "dfs", "tile", "round", "scatter", "walks"}
OpOf(place) ==
    CASE place \in {"end", "extend"} -> "LongestMatch"
      [] place = "byte" -> "NextTokenCounts"
      [] place = "dfs" -> "FuzzyMatchingDocs"
      [] place \in {"tile", "round", "scatter"} -> "CountBatch"
      [] place = "walks" -> "LocateDocsBatch"

\* The place is one of the query that was called.
PlaceHolds ==
    /\ pc # "idle" => req # <<>> /\ req[1] \in Requests
    /\ \/ pc \in {"idle", "done"}
       \/ pc \in Places /\ Valid(fm) /\ req[1].op = OpOf(pc)
       \/ pc \notin {"idle", "done"} \cup Places /\ pc = req[1].op

LongestHolds ==
    /\ pc = "end" => loc.e \in Nat
    /\ pc = "extend" => /\ DOMAIN loc = {"best", "e", "k", "lo", "hi", "len"}
                        /\ loc.e \in Nat /\ loc.k \in 0..Len(req[1].p)
                        /\ loc.lo \in 0..M(fm) /\ loc.hi \in 0..M(fm)

\* Row bounds of a word that is e edits away from the pattern bytes behind i.
Reached(f) ==
    LET c == corpus[1]
        matched == SubSeq(req[1].p, f.i + 1, Len(req[1].p)) IN
    \E w \in Words(Len(matched) + f.e) :
        /\ Interval(fm, w) = <<f.lo, f.hi>>
        /\ Abstract!Within(Abstract!Folded(c, w), Abstract!Folded(c, matched), f.e)
DfsCalls ==
    {f \in [lo : 0..M(fm), hi : 0..M(fm), i : 0..Len(req[1].p), e : 0..req[1].k] :
       f.lo < f.hi /\ Reached(f)}
FuzzyHolds ==
    pc = "dfs" => DOMAIN loc = {"calls", "visited", "hits"} /\ loc.calls \in Seq(DfsCalls)

\* What an active lane has matched.
LaneStates == [lo : 0..M(fm), hi : 0..M(fm), posn : Nat, active : BOOLEAN]
LaneHolds(x, p) ==
    x.active => /\ x.lo < x.hi /\ x.posn \in 1..Len(p)
                /\ Interval(fm, SubSeq(p, x.posn + 1, Len(p))) = <<x.lo, x.hi>>

\* An entry of the batch is what its lane still has to be told.
EntryHolds(b) ==
    /\ b.slot \in Lanes(Len(Batch))
    /\ LET x == loc.lane[b.slot] IN
       /\ x.active
       /\ b.id = IdOf(b.slot) /\ b.id >= 0
       /\ b.lo = MapPos(fm.wm_, b.id, x.lo, fm.qlevels_)
       /\ b.hi = MapPos(fm.wm_, b.id, x.hi, fm.qlevels_)

CountHolds ==
    /\ pc \in {"tile", "round", "scatter"} =>
         /\ DOMAIN loc = {"t0", "result", "batch", "j", "lane"}
         /\ loc.t0 \in Nat /\ loc.lane \in [1..Tile -> LaneStates]
    /\ pc \in {"round", "scatter"} =>
         \A s \in Lanes(Len(Batch)) : LaneHolds(loc.lane[s], Batch[loc.t0 + s])
    /\ pc = "scatter" =>
         /\ Len(loc.batch) \in Nat /\ loc.j \in 1..Len(loc.batch)
         /\ \A n \in loc.j..Len(loc.batch) : EntryHolds(loc.batch[n])
         /\ \A m, n \in loc.j..Len(loc.batch) : loc.batch[m].slot = loc.batch[n].slot => m = n

Walks == [row : 0..fm.text_len_, steps : Nat, q : Nat, done : BOOLEAN, pos : Nat]
WalksHold ==
    pc = "walks" => DOMAIN loc = {"t0", "walks"} /\ loc.t0 \in Nat /\ loc.walks \in Seq(Walks)

QueryHolds == LongestHolds /\ FuzzyHolds /\ CountHolds /\ WalksHold
IInv == ObjectHolds /\ PlaceHolds /\ QueryHolds

-----------------------------------------------------------------------------
(***************************************************************************)
(* The index a query is served by.                                         *)
(***************************************************************************)

\* A fresh object is not valid.
LEMMA FreshInvalid == ~ Valid(Fresh)
BY DEF Valid, Fresh

\* The index of a corpus is valid, serves queries and is sampled.
LEMMA IndexServes ==
    ASSUME ObjectHolds, Valid(fm)
    PROVE  /\ corpus # <<>> /\ Documents(corpus[1])
           /\ Serves(fm, Text, Array) /\ Sampled(fm, Array)
           /\ fm.text_len_ \in Nat /\ M(fm) = fm.text_len_ + 1
<1>1. fm # Fresh
  BY FreshInvalid
<1>2. corpus # <<>> /\ Documents(corpus[1])
  BY <1>1 DEF ObjectHolds
<1>3. PICK rate \in Nat \ {0} : fm = Built(corpus[1].docs, corpus[1].cf, rate)
  BY <1>1 DEF ObjectHolds
<1>4. PICK docs \in Seq(Seq(Bytes)), cf \in BOOLEAN : docs = corpus[1].docs /\ cf = corpus[1].cf
  BY <1>2 DEF Documents
<1>5. /\ Serves(Built(docs, cf, rate), TextOf(docs, cf), ArrayOf(docs, cf))
      /\ Sampled(Built(docs, cf, rate), ArrayOf(docs, cf))
  BY BuiltServes
<1>6. Serves(fm, Text, Array) /\ Sampled(fm, Array)
  BY <1>3, <1>4, <1>5 DEF Text, Array
<1> QED BY <1>2, <1>6 DEF Serves, Ended, M

\* A built object is valid.
LEMMA BuiltValid ==
    ASSUME NEW c, Documents(c), NEW rate \in Nat \ {0}
    PROVE  Valid(Built(c.docs, c.cf, rate))
<1>1. PICK docs \in Seq(Seq(Bytes)), cf \in BOOLEAN : docs = c.docs /\ cf = c.cf
  BY DEF Documents
<1> DEFINE o == Built(docs, cf, rate)
<1>2. Serves(o, TextOf(docs, cf), ArrayOf(docs, cf))
  BY BuiltServes
<1> HIDE DEF o
<1>3. o.sigma_ \in Nat /\ o.sigma_ >= 2 /\ DOMAIN o.c_ = 0..(o.sigma_ - 1)
  BY <1>2 DEF Serves, Ended, CTable
<1>4. 0 \in DOMAIN o.c_
  BY <1>3
<1>5. DOMAIN Nothing = {}
  BY DEF Nothing
<1>6. Valid(o)
  BY <1>4, <1>5 DEF Valid
<1> QED BY <1>1, <1>6 DEF o

\* The object is fresh or valid.
LEMMA FreshOrValid == ObjectHolds => fm = Fresh \/ Valid(fm)
BY BuiltValid DEF ObjectHolds

\* An id is negative or that of a symbol behind the separator.
LEMMA IdType ==
    ASSUME ObjectHolds, Valid(fm), NEW x \in Bytes
    PROVE  /\ fm.byte_to_id_[x] \in Int
           /\ fm.byte_to_id_[x] >= 0 => fm.byte_to_id_[x] \in 2..(fm.sigma_ - 1)
           /\ fm.sigma_ \in Nat
<1>1. Serves(fm, Text, Array)
  BY IndexServes
<1>2. PICK id : id = fm.byte_to_id_[x]
  OBVIOUS
<1>3. fm.sigma_ \in Nat /\ ((id \in Int /\ id < 0) \/ id \in 2..(fm.sigma_ - 1))
  BY <1>1, <1>2 DEF Serves, Ended
<1>4. id \in Int /\ (id >= 0 => id \in 2..(fm.sigma_ - 1))
  BY <1>3
<1> QED BY <1>2, <1>3, <1>4

\* A bound that is extended is a bound.
LEMMA ExtendType ==
    ASSUME ObjectHolds, Valid(fm), NEW d \in 0..(fm.sigma_ - 1), NEW b \in 0..M(fm)
    PROVE  Extend(fm, d, b) \in 0..M(fm)
<1>1. Serves(fm, Text, Array) /\ M(fm) = fm.text_len_ + 1
  BY IndexServes
<1> QED BY <1>1, ExtendIsCut

\* Word v is p with a byte in front.
OneMore(v, p) == Len(v) = Len(p) + 1 /\ \A j \in 1..Len(p) : v[j + 1] = p[j]

\* A word that gets a byte in front has the extended interval, if that has rows.
LEMMA Prefixed ==
    ASSUME ObjectHolds, Valid(fm), NEW p \in Seq(Bytes), NEW v \in Seq(Bytes),
           OneMore(v, p),
           NEW x \in 0..M(fm), NEW y \in 0..M(fm), x < y, Interval(fm, p) = <<x, y>>,
           NEW d \in 0..(fm.sigma_ - 1), d = fm.byte_to_id_[v[1]],
           Extend(fm, d, x) < Extend(fm, d, y)
    PROVE  Interval(fm, v) = <<Extend(fm, d, x), Extend(fm, d, y)>>
<1>1. Serves(fm, Text, Array)
  BY IndexServes
<1>2. Interval(fm, v) = Extended(fm, fm.byte_to_id_[v[1]], Interval(fm, p))
  BY <1>1, IntervalStep DEF OneMore
<1>3. Interval(fm, v) = Extended(fm, d, <<x, y>>)
  BY <1>2
<1>4. fm.sigma_ \in Nat /\ M(fm) \in Nat
  BY <1>1 DEF Serves, Ended, M
<1>5. <<x, y>> # <<0, 0>> /\ ~ (d < 0)
  BY <1>4
<1>6. Extend(fm, d, x) \in 0..M(fm) /\ Extend(fm, d, y) \in 0..M(fm)
  BY ExtendType
<1>7. [e \in 1..2 |-> Extend(fm, d, <<x, y>>[e])] = <<Extend(fm, d, x), Extend(fm, d, y)>>
  OBVIOUS
<1>8. ~ (Extend(fm, d, x) >= Extend(fm, d, y))
  BY <1>4, <1>6
<1> QED BY <1>3, <1>5, <1>7, <1>8 DEF Extended

-----------------------------------------------------------------------------
(***************************************************************************)
(* What every step has to keep.                                            *)
(***************************************************************************)

\* What is known of a query in progress.
LEMMA InPlace ==
    ASSUME IInv, pc \in Places
    PROVE  /\ ObjectHolds /\ Valid(fm)
           /\ req # <<>> /\ req[1] \in Requests /\ req[1].op = OpOf(pc)
           /\ pc # "idle"
BY DEF IInv, PlaceHolds, Places

\* The arguments of a query.
LEMMA Arguments ==
    ASSUME NEW q \in Requests
    PROVE  /\ q.op \in {"LongestMatch", "NextTokenCounts", "FuzzyMatchingDocs"} =>
                q.p \in Seq(Bytes)
           /\ q.op = "FuzzyMatchingDocs" => q.k \in Nat
           /\ q.op \in {"CountBatch", "LocateDocsBatch"} => q.ps \in Seq(Seq(Bytes))
           /\ q.op \notin {"idle", "done"} \cup Places
BY CallAssumption DEF Places

\* A query that was just called.
LEMMA AtCall ==
    ASSUME IInv, NEW op, pc = op, op \notin {"idle", "done"} \cup Places
    PROVE  ObjectHolds /\ req # <<>> /\ req[1] \in Requests /\ req[1].op = op /\ pc # "idle"
BY DEF IInv, PlaceHolds

\* A query that answers keeps the invariant.
LEMMA Responded ==
    ASSUME IInv, NEW x, Respond(x), pc # "idle"
    PROVE  IInv'
<1>1. pc' = "done" /\ fm' = fm /\ corpus' = corpus /\ req' = req
  BY DEF Respond
<1>2. ObjectHolds'
  BY <1>1 DEF IInv, ObjectHolds
<1>3. PlaceHolds'
  BY <1>1 DEF IInv, PlaceHolds
<1>4. QueryHolds'
  BY <1>1 DEF QueryHolds, LongestHolds, FuzzyHolds, CountHolds, WalksHold
<1> QED BY <1>2, <1>3, <1>4 DEF IInv

\* A query that goes on keeps it if its locals are right for the place.
LEMMA Went ==
    ASSUME IInv, NEW place \in Places, NEW l, Go(place, l), pc # "idle", Valid(fm),
           req[1].op = OpOf(place), QueryHolds'
    PROVE  IInv'
<1>1. pc' = place /\ fm' = fm /\ corpus' = corpus /\ req' = req
  BY DEF Go
<1>2. ObjectHolds'
  BY <1>1 DEF IInv, ObjectHolds
<1>3. PlaceHolds'
  BY <1>1 DEF IInv, PlaceHolds, Valid
<1> QED BY <1>2, <1>3 DEF IInv

\* There is no index at first and no query.
LEMMA InitInv == Init => IInv
<1> SUFFICES ASSUME Init PROVE IInv
  OBVIOUS
<1>1. pc = "idle" /\ fm = Fresh /\ corpus = <<>>
  BY DEF Init
<1>2. QueryHolds
  BY <1>1 DEF QueryHolds, LongestHolds, FuzzyHolds, CountHolds, WalksHold
<1> QED BY <1>1, <1>2 DEF IInv, ObjectHolds, PlaceHolds

\* Build makes the index of one of the corpora.
LEMMA BuildStep == ASSUME IInv, Build PROVE IInv'
<1>1. pc = "idle" /\ pc' = "idle"
  BY DEF Build
<1>2. PICK c \in Corpora, rate \in Rates : fm' = Built(c.docs, c.cf, rate) /\ corpus' = <<c>>
  BY DEF Build
<1>3. Documents(c) /\ rate \in Nat \ {0}
  BY CallAssumption DEF Documents
<1>4. corpus' # <<>> /\ corpus'[1] = c
  BY <1>2
<1>5. ObjectHolds'
  BY <1>2, <1>3, <1>4 DEF ObjectHolds
<1>6. PlaceHolds' /\ QueryHolds'
  BY <1>1 DEF PlaceHolds, QueryHolds, LongestHolds, FuzzyHolds, CountHolds, WalksHold
<1> QED BY <1>5, <1>6 DEF IInv

\* A query is called: it stands at its name.
LEMMA CallStep == ASSUME IInv, Call PROVE IInv'
<1>1. fm' = fm /\ corpus' = corpus
  BY DEF Call
<1>2. PICK q \in Requests : req' = <<q>> /\ pc' = q.op
  BY DEF Call
<1>3. ObjectHolds'
  BY <1>1 DEF IInv, ObjectHolds
<1>4. pc' \notin {"idle", "done"} \cup Places
  BY <1>2, Arguments
<1>5. req' # <<>> /\ req'[1] = q
  BY <1>2
<1>6. PlaceHolds'
  BY <1>2, <1>4, <1>5 DEF PlaceHolds
<1>7. QueryHolds'
  BY <1>4 DEF QueryHolds, LongestHolds, FuzzyHolds, CountHolds, WalksHold, Places
<1> QED BY <1>3, <1>6, <1>7 DEF IInv

\* A query returns.
LEMMA ReturnStep == ASSUME IInv, Return PROVE IInv'
<1>1. pc' = "idle" /\ fm' = fm /\ corpus' = corpus
  BY DEF Return
<1>2. ObjectHolds'
  BY <1>1 DEF IInv, ObjectHolds
<1>3. PlaceHolds' /\ QueryHolds'
  BY <1>1 DEF PlaceHolds, QueryHolds, LongestHolds, FuzzyHolds, CountHolds, WalksHold
<1> QED BY <1>2, <1>3 DEF IInv

\* The invariant is about these variables only.
LEMMA StutterStep == ASSUME IInv, UNCHANGED vars PROVE IInv'
<1>1. /\ fm' = fm /\ corpus' = corpus /\ pc' = pc /\ req' = req /\ res' = res /\ loc' = loc
  BY DEF vars
<1>2. ObjectHolds'
  BY <1>1 DEF IInv, ObjectHolds
<1>3. PlaceHolds'
  BY <1>1 DEF IInv, PlaceHolds, Valid
<1>4. LongestHolds' /\ WalksHold'
  BY <1>1 DEF IInv, QueryHolds, LongestHolds, WalksHold, M, Walks
<1>5. FuzzyHolds'
  BY <1>1 DEF IInv, QueryHolds, FuzzyHolds, DfsCalls, Reached, M
<1>6. CountHolds'
  BY <1>1 DEF IInv, QueryHolds, CountHolds, LaneStates, LaneHolds, EntryHolds, M, Lanes, Batch, IdOf
<1> QED BY <1>2, <1>3, <1>4, <1>5, <1>6 DEF IInv, QueryHolds

-----------------------------------------------------------------------------
(***************************************************************************)
(* LongestMatch.                                                           *)
(***************************************************************************)

\* LongestMatch is called.
LEMMA LongestMatchStep == ASSUME IInv, LongestMatch PROVE IInv'
<1>1. /\ pc = "LongestMatch" /\ pc \notin {"idle", "done"} \cup Places
  BY DEF LongestMatch, Places
<1>2. req[1].op = "LongestMatch" /\ pc # "idle"
  BY <1>1, AtCall
<1>3. CASE ~ Valid(fm)
  BY <1>2, <1>3, Responded DEF LongestMatch
<1>4. CASE Valid(fm)
  <2>1. Go("end", [best |-> NoBest, e |-> 0])
    BY <1>4 DEF LongestMatch
  <2>2. pc' = "end" /\ loc'.e \in Nat
    BY <2>1 DEF Go
  <2>3. QueryHolds'
    BY <2>2 DEF QueryHolds, LongestHolds, FuzzyHolds, CountHolds, WalksHold
  <2> QED BY <1>2, <1>4, <2>1, <2>3, Went DEF OpOf, Places
<1> QED BY <1>3, <1>4

\* LongestMatch takes the next end position.
LEMMA LongestEndStep == ASSUME IInv, LongestEnd PROVE IInv'
<1>1. pc = "end" /\ pc \in Places
  BY DEF LongestEnd, Places
<1>2. Valid(fm) /\ pc # "idle" /\ req[1].op = OpOf(pc) /\ req[1] \in Requests /\ ObjectHolds
  BY <1>1, InPlace
<1>3. req[1].op = "LongestMatch"
  BY <1>1, <1>2 DEF OpOf
<1>4. req[1].p \in Seq(Bytes)
  BY <1>2, <1>3, Arguments
<1>5. CASE ~ (loc.e < Len(req[1].p))
  BY <1>2, <1>5, Responded DEF LongestEnd
<1>6. CASE loc.e < Len(req[1].p)
  <2>1. PICK l : /\ Go("extend", l)
                 /\ l = [best |-> loc.best, e |-> loc.e, k |-> loc.e + 1,
                         lo |-> 0, hi |-> M(fm), len |-> 0]
    BY <1>6 DEF LongestEnd
  <2>2. pc' = "extend" /\ loc' = l /\ fm' = fm /\ req' = req
    BY <2>1 DEF Go
  <2>3. loc.e \in Nat /\ Len(req[1].p) \in Nat
    BY <1>1, <1>4 DEF IInv, QueryHolds, LongestHolds
  <2>4. M(fm) \in Nat
    BY <1>2, IndexServes
  <2>5. loc.e + 1 \in 0..Len(req[1].p)
    BY <1>6, <2>3
  <2>6. LongestHolds'
    BY <2>1, <2>2, <2>3, <2>4, <2>5 DEF LongestHolds, M
  <2>7. QueryHolds'
    BY <2>2, <2>6 DEF QueryHolds, FuzzyHolds, CountHolds, WalksHold
  <2> QED BY <1>2, <1>3, <2>1, <2>7, Went DEF OpOf, Places
<1> QED BY <1>5, <1>6

\* LongestMatch steps to the byte before, or ends this match.
LEMMA LongestExtendStep == ASSUME IInv, LongestExtend PROVE IInv'
<1>1. pc = "extend" /\ pc \in Places
  BY DEF LongestExtend, Places
<1>2. Valid(fm) /\ pc # "idle" /\ req[1].op = OpOf(pc) /\ req[1] \in Requests /\ ObjectHolds
  BY <1>1, InPlace
<1>3. req[1].op = "LongestMatch"
  BY <1>1, <1>2 DEF OpOf
<1>4. req[1].p \in Seq(Bytes)
  BY <1>2, <1>3, Arguments
<1>5. /\ DOMAIN loc = {"best", "e", "k", "lo", "hi", "len"}
      /\ loc.e \in Nat /\ loc.k \in 0..Len(req[1].p)
      /\ loc.lo \in 0..M(fm) /\ loc.hi \in 0..M(fm)
  BY <1>1 DEF IInv, QueryHolds, LongestHolds
<1> DEFINE id == fm.byte_to_id_[req[1].p[loc.k]]
           nlo == Extend(fm, id, loc.lo)
           nhi == Extend(fm, id, loc.hi)
<1>6. CASE loc.k = 0 \/ id < 0 \/ nlo >= nhi
  <2>1. PICK l : Go("end", l) /\ l = [best |-> loc.best, e |-> loc.e + 1]
    BY <1>6 DEF LongestExtend
  <2>2. pc' = "end" /\ loc'.e \in Nat
    BY <1>5, <2>1 DEF Go
  <2>3. QueryHolds'
    BY <2>2 DEF QueryHolds, LongestHolds, FuzzyHolds, CountHolds, WalksHold
  <2> QED BY <1>2, <1>3, <2>1, <2>3, Went DEF OpOf, Places
<1>7. CASE ~ (loc.k = 0 \/ id < 0 \/ nlo >= nhi)
  <2>1. loc.k - 1 \in 0..Len(req[1].p) /\ loc.k \in 1..Len(req[1].p)
    BY <1>4, <1>5, <1>7
  <2>2. PICK x \in Bytes : x = req[1].p[loc.k]
    BY <1>4, <2>1
  <2>3. id \in Int /\ ~ (id < 0)
    BY <1>2, <1>7, <2>2, IdType
  <2>4. id >= 0
    <3> HIDE DEF id
    <3> QED BY <2>3
  <2>5. id \in 2..(fm.sigma_ - 1) /\ fm.sigma_ \in Nat
    BY <1>2, <2>2, <2>4, IdType
  <2>6. PICK d \in 0..(fm.sigma_ - 1) : d = id
    <3> HIDE DEF id
    <3> QED BY <2>5
  <2>7. PICK bl \in 0..M(fm), bh \in 0..M(fm) : bl = loc.lo /\ bh = loc.hi
    BY <1>5
  <2>8. Extend(fm, d, bl) \in 0..M(fm) /\ Extend(fm, d, bh) \in 0..M(fm)
    BY <1>2, ExtendType
  <2>9. nlo \in 0..M(fm) /\ nhi \in 0..M(fm)
    BY <2>6, <2>7, <2>8
  <2>10. PICK b, n : Go("extend", [loc EXCEPT !.k = @ - 1, !.lo = nlo, !.hi = nhi,
                                               !.len = n, !.best = b])
    BY <1>7 DEF LongestExtend
  <2> HIDE DEF nlo, nhi, id
  <2>11. /\ pc' = "extend" /\ fm' = fm /\ req' = req
         /\ loc' = [loc EXCEPT !.k = @ - 1, !.lo = nlo, !.hi = nhi, !.len = n, !.best = b]
    BY <2>10 DEF Go
  <2>12. LongestHolds'
    BY <1>5, <2>1, <2>9, <2>11 DEF LongestHolds, M
  <2>13. QueryHolds'
    BY <2>11, <2>12 DEF QueryHolds, FuzzyHolds, CountHolds, WalksHold
  <2> QED BY <1>2, <1>3, <2>10, <2>13, Went DEF OpOf, Places
<1> QED BY <1>6, <1>7

-----------------------------------------------------------------------------
(***************************************************************************)
(* NextTokenCounts.                                                        *)
(***************************************************************************)

\* NextTokenCounts is called.
LEMMA NextTokenCountsStep == ASSUME IInv, NextTokenCounts PROVE IInv'
<1>1. /\ pc = "NextTokenCounts" /\ pc \notin {"idle", "done"} \cup Places
  BY DEF NextTokenCounts, Places
<1>2. req[1].op = "NextTokenCounts" /\ pc # "idle"
  BY <1>1, AtCall
<1>3. CASE ~ Valid(fm) \/ Width(Interval(fm, req[1].p)) = 0
  BY <1>2, <1>3, Responded DEF NextTokenCounts
<1>4. CASE ~ (~ Valid(fm) \/ Width(Interval(fm, req[1].p)) = 0)
  <2>1. Go("byte", [b |-> 0, out |-> Nothing]) /\ Valid(fm)
    BY <1>4 DEF NextTokenCounts
  <2>2. pc' = "byte"
    BY <2>1 DEF Go
  <2>3. QueryHolds'
    BY <2>2 DEF QueryHolds, LongestHolds, FuzzyHolds, CountHolds, WalksHold
  <2> QED BY <1>2, <2>1, <2>3, Went DEF OpOf, Places
<1> QED BY <1>3, <1>4

\* NextTokenCounts takes the next byte.
LEMMA NextByteStep == ASSUME IInv, NextByte PROVE IInv'
<1>1. pc = "byte" /\ pc \in Places
  BY DEF NextByte, Places
<1>2. Valid(fm) /\ pc # "idle" /\ req[1].op = OpOf(pc)
  BY <1>1, InPlace
<1>3. PICK x : Respond(x) \/ Go("byte", x)
  BY DEF NextByte
<1>4. CASE Respond(x)
  BY <1>2, <1>4, Responded
<1>5. CASE Go("byte", x)
  <2>1. pc' = "byte"
    BY <1>5 DEF Go
  <2>2. QueryHolds'
    BY <2>1 DEF QueryHolds, LongestHolds, FuzzyHolds, CountHolds, WalksHold
  <2> QED BY <1>1, <1>2, <1>5, <2>2, Went
<1> QED BY <1>3, <1>4, <1>5

-----------------------------------------------------------------------------
(***************************************************************************)
(* CountBatch: the tiles.                                                  *)
(***************************************************************************)

\* CountBatch is called: the locals of the tiles are set up.
LEMMA CountBatchStep == ASSUME IInv, CountBatch PROVE IInv'
<1>1. /\ pc = "CountBatch" /\ pc \notin {"idle", "done"} \cup Places
  BY DEF CountBatch, Places
<1>2. req[1].op = "CountBatch" /\ pc # "idle" /\ ObjectHolds
  BY <1>1, AtCall
<1>3. CASE ~ Valid(fm)
  BY <1>2, <1>3, Responded DEF CountBatch
<1>4. CASE Valid(fm)
  <2> DEFINE off == [lo |-> 0, hi |-> 0, posn |-> 0, active |-> FALSE]
             zero == [j \in 1..Len(Batch) |-> 0]
             l == [t0 |-> 0, result |-> zero, batch |-> <<>>, j |-> 0,
                   lane |-> [s \in 1..Tile |-> off]]
  <2>1. Go("tile", l)
    BY <1>4 DEF CountBatch
  <2>2. pc' = "tile" /\ loc' = l /\ fm' = fm
    BY <2>1 DEF Go
  <2>3. 0 \in 0..M(fm)
    BY <1>2, <1>4, IndexServes
  <2>4. off \in LaneStates'
    BY <2>2, <2>3 DEF LaneStates, M
  <2> HIDE DEF off, zero
  <2>5. CountHolds'
    BY <2>2, <2>4 DEF CountHolds
  <2>6. QueryHolds'
    BY <2>2, <2>5 DEF QueryHolds, LongestHolds, FuzzyHolds, WalksHold
  <2> QED BY <1>2, <1>4, <2>1, <2>6, Went DEF OpOf, Places
<1> QED BY <1>3, <1>4

\* The patterns of a batch, and the lanes of a tile.
LEMMA BatchFacts ==
    ASSUME IInv, pc \in {"tile", "round", "scatter"}
    PROVE  /\ ObjectHolds /\ Valid(fm) /\ pc # "idle" /\ pc \in Places
           /\ req[1].op = "CountBatch"
           /\ Batch \in Seq(Seq(Bytes)) /\ Len(Batch) \in Nat
           /\ DOMAIN loc = {"t0", "result", "batch", "j", "lane"}
           /\ loc.t0 \in Nat /\ loc.lane \in [1..Tile -> LaneStates]
           /\ \A s \in Lanes(Len(Batch)) :
                s \in 1..Tile /\ Batch[loc.t0 + s] \in Seq(Bytes)
<1>1. pc \in Places
  BY DEF Places
<1>2. /\ ObjectHolds /\ Valid(fm) /\ req[1].op = OpOf(pc) /\ req[1] \in Requests /\ pc # "idle"
  BY <1>1, InPlace
<1>3. req[1].op = "CountBatch"
  BY <1>2 DEF OpOf
<1>4. Batch \in Seq(Seq(Bytes))
  BY <1>2, <1>3, Arguments DEF Batch
<1>5. /\ DOMAIN loc = {"t0", "result", "batch", "j", "lane"}
      /\ loc.t0 \in Nat /\ loc.lane \in [1..Tile -> LaneStates]
  BY DEF IInv, QueryHolds, CountHolds
<1>6. ASSUME NEW s \in Lanes(Len(Batch)) PROVE s \in 1..Tile /\ Batch[loc.t0 + s] \in Seq(Bytes)
  <2>1. PICK n \in Nat : n = Len(Batch)
    BY <1>4
  <2>2. s \in 1..Tile /\ s \in 1..(n - loc.t0)
    BY <1>5, <2>1, TileAssumption DEF Lanes, MinOf
  <2>3. loc.t0 + s \in 1..Len(Batch)
    BY <1>5, <2>1, <2>2
  <2> QED BY <1>4, <2>2, <2>3
<1> QED BY <1>1, <1>2, <1>3, <1>4, <1>5, <1>6

\* A lane that starts has matched nothing of its pattern.
LEMMA LaneStarts ==
    ASSUME ObjectHolds, Valid(fm), NEW p \in Seq(Bytes), Len(p) # 0
    PROVE  /\ 0 < M(fm) /\ M(fm) \in Nat /\ Len(p) \in 1..Len(p)
           /\ Interval(fm, SubSeq(p, Len(p) + 1, Len(p))) = <<0, M(fm)>>
<1>1. Serves(fm, Text, Array) /\ fm.text_len_ \in Nat /\ M(fm) = fm.text_len_ + 1
  BY IndexServes
<1>2. SubSeq(p, Len(p) + 1, Len(p)) = <<>>
  <2>1. Len(p) + 1 \in Int /\ Len(p) \in Int /\ Len(p) < Len(p) + 1
    OBVIOUS
  <2> QED BY <2>1, SubSeqEmpty, Zenon
<1>3. Interval(fm, <<>>) = <<0, M(fm)>>
  BY <1>1, IntervalEmpty
<1>4. 0 < M(fm) /\ M(fm) \in Nat /\ Len(p) \in 1..Len(p)
  BY <1>1
<1>5. Interval(fm, SubSeq(p, Len(p) + 1, Len(p))) = <<0, M(fm)>>
  BY <1>2, <1>3, Zenon
<1> QED BY <1>4, <1>5

\* The lanes of the next tile start, or the answer is complete.
LEMMA CountTileStep == ASSUME IInv, CountTile PROVE IInv'
<1>1. pc = "tile"
  BY DEF CountTile
<1>2. /\ ObjectHolds /\ Valid(fm) /\ pc # "idle" /\ req[1].op = "CountBatch"
      /\ Len(Batch) \in Nat /\ DOMAIN loc = {"t0", "result", "batch", "j", "lane"}
      /\ loc.t0 \in Nat /\ loc.lane \in [1..Tile -> LaneStates]
      /\ \A s \in Lanes(Len(Batch)) : s \in 1..Tile /\ Batch[loc.t0 + s] \in Seq(Bytes)
  BY <1>1, BatchFacts
<1>3. CASE loc.t0 >= Len(Batch)
  BY <1>2, <1>3, Responded DEF CountTile
<1>4. CASE ~ (loc.t0 >= Len(Batch))
  <2> DEFINE len(s) == Len(Batch[loc.t0 + s])
             T == Lanes(Len(Batch))
             on(s) == [lo |-> 0, hi |-> M(fm), posn |-> len(s), active |-> TRUE]
             new == [s \in 1..Tile |->
                       IF s \notin T THEN loc.lane[s]
                       ELSE IF len(s) = 0 THEN [loc.lane[s] EXCEPT !.active = FALSE] ELSE on(s)]
  <2>1. PICK out : Go("round", [loc EXCEPT !.lane = new, !.result = out])
    BY <1>4 DEF CountTile
  <2>2. /\ pc' = "round" /\ loc' = [loc EXCEPT !.lane = new, !.result = out]
        /\ fm' = fm /\ req' = req
    BY <2>1 DEF Go
  <2> HIDE DEF new
  <2>3. loc'.lane = new /\ loc'.t0 = loc.t0 /\ DOMAIN loc' = DOMAIN loc
    BY <1>2, <2>2
  <2>4. M(fm) \in Nat
    BY <1>2, IndexServes
  <2>5. ASSUME NEW s \in 1..Tile
        PROVE  new[s] \in LaneStates /\ (s \in T => LaneHolds(new[s], Batch[loc.t0 + s]))
    <3>0. PICK x \in LaneStates : x = loc.lane[s]
      BY <1>2
    <3>1. new[s] = IF s \notin T THEN x
                   ELSE IF len(s) = 0 THEN [x EXCEPT !.active = FALSE] ELSE on(s)
      BY <3>0 DEF new
    <3>2. [x EXCEPT !.active = FALSE] \in LaneStates /\ ~ [x EXCEPT !.active = FALSE].active
      BY DEF LaneStates
    <3>3. CASE s \notin T
      BY <3>1, <3>3
    <3>4. CASE s \in T /\ len(s) = 0
      BY <3>1, <3>2, <3>4 DEF LaneHolds
    <3>5. CASE s \in T /\ len(s) # 0
      <4>1. PICK p \in Seq(Bytes) : p = Batch[loc.t0 + s]
        BY <1>2, <3>5
      <4>2. /\ 0 < M(fm) /\ Len(p) \in 1..Len(p)
            /\ Interval(fm, SubSeq(p, Len(p) + 1, Len(p))) = <<0, M(fm)>>
        BY <1>2, <3>5, <4>1, LaneStarts
      <4>3. new[s] = on(s) /\ len(s) = Len(p)
        BY <3>1, <3>5, <4>1
      <4>4. on(s) \in LaneStates
        BY <2>4, <4>2, <4>3 DEF LaneStates
      <4>5. LaneHolds(new[s], p)
        BY <4>2, <4>3 DEF LaneHolds
      <4> QED BY <4>1, <4>3, <4>4, <4>5
    <3> QED BY <3>3, <3>4, <3>5
  <2>6. new \in [1..Tile -> LaneStates]
    BY <2>5 DEF new
  <2>7. LaneStates' = LaneStates
    BY <2>2 DEF LaneStates, M
  <2>8. \A s \in T : LaneHolds(new[s], Batch[loc.t0 + s])
    BY <1>2, <2>5
  <2>9. Batch' = Batch /\ Lanes(Len(Batch))' = T
    BY <2>2, <2>3 DEF Batch, Lanes
  <2>10. (\A s \in Lanes(Len(Batch)) : LaneHolds(loc.lane[s], Batch[loc.t0 + s]))'
    BY <2>2, <2>3, <2>8, <2>9 DEF LaneHolds
  <2>11. CountHolds'
    BY <1>2, <2>2, <2>3, <2>6, <2>7, <2>10 DEF CountHolds
  <2>12. QueryHolds'
    BY <2>2, <2>11 DEF QueryHolds, LongestHolds, FuzzyHolds, WalksHold
  <2> QED BY <1>2, <2>1, <2>12, Went DEF OpOf, Places
<1> QED BY <1>3, <1>4

-----------------------------------------------------------------------------
(***************************************************************************)
(* CountBatch: the lanes a round sends out.                                *)
(***************************************************************************)

\* The table in which CountGather lists the lanes of S, from the first one on.
Listing(f, S, n) ==
    f = [m \in 0..n |-> IF m = 0 THEN <<>> ELSE IF m \in S THEN Append(f[m - 1], m) ELSE f[m - 1]]
ListingOf(S, n) == CHOOSE f : Listing(f, S, n)

\* A list of distinct members of S.
Lists(s, S) ==
    /\ s \in Seq(S) /\ Len(s) = Cardinality(S)
    /\ \A i, j \in 1..Len(s) : s[i] = s[j] => i = j

\* One more lane is listed.
LEMMA ListsMore ==
    ASSUME NEW s, NEW S, NEW R, NEW x, Lists(s, S), IsFiniteSet(S), x \notin S,
           R = S \cup {x}
    PROVE  Lists(Append(s, x), R)
<1>1. s \in Seq(R) /\ s \in Seq(S) /\ x \in R
  BY DEF Lists
<1>2. PICK n \in Nat : n = Len(s)
  BY <1>1
<1>3. Cardinality(R) = n + 1
  BY <1>2, FS_AddElement DEF Lists
<1> DEFINE a == Append(s, x)
<1>4. /\ a \in Seq(R) /\ Len(a) = n + 1 /\ a[n + 1] = x
      /\ \A i \in 1..n : a[i] = s[i] /\ s[i] \in S
  BY <1>1, <1>2
<1> HIDE DEF a
<1>5. ASSUME NEW i \in 1..(n + 1), NEW j \in 1..(n + 1), a[i] = a[j] PROVE i = j
  <2>1. CASE i \in 1..n /\ j \in 1..n
    BY <1>2, <1>4, <1>5, <2>1 DEF Lists
  <2>2. CASE i = n + 1 \/ j = n + 1
    BY <1>4, <1>5, <2>2
  <2> QED BY <1>2, <2>1, <2>2
<1>6. Lists(a, R)
  BY <1>3, <1>4, <1>5 DEF Lists
<1> QED BY <1>6 DEF a

\* The listing is complete and names no lane twice.
LEMMA ListingLists ==
    ASSUME NEW n \in Nat, NEW S \in SUBSET (1..n)
    PROVE  Lists(ListingOf(S, n)[n], S)
<1> DEFINE V == Seq(S)
           h == [m \in 1..n |-> [v \in V |-> IF m \in S THEN Append(v, m) ELSE v]]
<1>1. ASSUME NEW m \in 1..n, NEW v \in V PROVE h[m][v] \in V
  OBVIOUS
<1>2. <<>> \in V
  OBVIOUS
<1>3. PICK g : Recurs(g, n, V, <<>>, h)
  <2> HIDE DEF h, V
  <2> QED BY <1>1, <1>2, RecursionExists
<1>4. g \in [0..n -> V] /\ g[0] = <<>>
  BY <1>3 DEF Recurs
<1>5. ASSUME NEW m \in 1..n PROVE g[m] = IF m \in S THEN Append(g[m - 1], m) ELSE g[m - 1]
  <2>1. g[m - 1] \in V
    BY <1>4
  <2>2. g[m] = h[m][g[m - 1]]
    BY <1>3 DEF Recurs
  <2> HIDE DEF V
  <2> QED BY <2>1, <2>2
<1> HIDE DEF h
<1>6. Listing(g, S, n)
  <2>1. \A m \in 0..n : g[m] = IF m = 0 THEN <<>>
                              ELSE IF m \in S THEN Append(g[m - 1], m) ELSE g[m - 1]
    <3> SUFFICES ASSUME NEW m \in 0..n
                 PROVE  g[m] = IF m = 0 THEN <<>>
                               ELSE IF m \in S THEN Append(g[m - 1], m) ELSE g[m - 1]
      OBVIOUS
    <3>1. CASE m = 0
      BY <1>4, <3>1
    <3>2. CASE m # 0
      <4>1. m \in 1..n
        BY <3>2
      <4> QED BY <1>5, <3>2, <4>1, Zenon
    <3> QED BY <3>1, <3>2
  <2>2. g = [m \in 0..n |-> g[m]]
    BY <1>4
  <2> HIDE DEF V
  <2> QED BY <2>1, <2>2 DEF Listing
<1> DEFINE f == ListingOf(S, n)
<1>7. Listing(f, S, n)
  BY <1>6 DEF ListingOf
<1> HIDE DEF f
<1>8. \A m \in 0..n : f[m] = IF m = 0 THEN <<>>
                            ELSE IF m \in S THEN Append(f[m - 1], m) ELSE f[m - 1]
  BY <1>7 DEF Listing
<1> DEFINE T == {m \in Nat : m <= n => Lists(f[m], S \cap (1..m))}
<1>9. 0 \in T
  <2>1. S \cap (1..0) = {} /\ f[0] = <<>>
    BY <1>8
  <2>2. Lists(<<>>, {})
    BY FS_EmptySet DEF Lists
  <2> QED BY <2>1, <2>2
<1>10. ASSUME NEW m \in Nat, m \in T PROVE m + 1 \in T
  <2> SUFFICES ASSUME m + 1 <= n PROVE Lists(f[m + 1], S \cap (1..(m + 1)))
    OBVIOUS
  <2>1. m + 1 \in 0..n /\ m + 1 # 0 /\ (m + 1) - 1 = m /\ m <= n
    OBVIOUS
  <2>2. Lists(f[m], S \cap (1..m))
    BY <1>10, <2>1
  <2>3. f[m + 1] = IF m + 1 \in S THEN Append(f[m], m + 1) ELSE f[m]
    BY <1>8, <2>1
  <2> HIDE DEF T
  <2>4. CASE m + 1 \in S
    <3>1. S \cap (1..(m + 1)) = (S \cap (1..m)) \cup {m + 1} /\ m + 1 \notin S \cap (1..m)
      BY <2>4
    <3>2. IsFiniteSet(1..m)
      BY FS_Interval
    <3>3. IsFiniteSet(S \cap (1..m))
      BY <3>2, FS_Intersection
    <3>4. Lists(Append(f[m], m + 1), S \cap (1..(m + 1)))
      BY <2>2, <3>1, <3>3, ListsMore
    <3> QED BY <2>3, <2>4, <3>4
  <2>5. CASE m + 1 \notin S
    <3>1. S \cap (1..(m + 1)) = S \cap (1..m)
      BY <2>5
    <3> QED BY <2>2, <2>3, <2>5, <3>1
  <2> QED BY <2>4, <2>5
<1> HIDE DEF T
<1>11. \A m \in Nat : m \in T
  BY <1>9, <1>10, NatSet
<1>12. Lists(f[n], S \cap (1..n))
  BY <1>11 DEF T
<1>13. S \cap (1..n) = S
  OBVIOUS
<1> QED BY <1>12, <1>13 DEF f

-----------------------------------------------------------------------------
(***************************************************************************)
(* CountBatch: the round is gathered.                                      *)
(***************************************************************************)

\* The entry of the batch for lane s.
EntryOf(s, lane) ==
    [slot |-> s, id |-> IdOf(s),
     lo |-> MapPos(fm.wm_, IdOf(s), lane[s].lo, fm.qlevels_),
     hi |-> MapPos(fm.wm_, IdOf(s), lane[s].hi, fm.qlevels_)]

\* The lanes that are gathered.
Gathered == {s \in Lanes(Len(Batch)) : loc.lane[s].active /\ IdOf(s) >= 0}

\* The lanes when those whose byte is absent have stopped.
Kept == [s \in 1..Tile |-> IF s \in Lanes(Len(Batch)) \ Gathered
                           THEN [loc.lane[s] EXCEPT !.active = FALSE] ELSE loc.lane[s]]

\* A lane that is kept is as it was, and what was stopped has nothing to hold.
LEMMA KeptLanes ==
    ASSUME IInv, pc = "round"
    PROVE  /\ Kept \in [1..Tile -> LaneStates]
           /\ \A s \in Lanes(Len(Batch)) : LaneHolds(Kept[s], Batch[loc.t0 + s])
           /\ \A s \in Gathered : s \in 1..Tile /\ Kept[s] = loc.lane[s] /\ Kept[s].active
<1>1. /\ loc.lane \in [1..Tile -> LaneStates]
      /\ \A s \in Lanes(Len(Batch)) : s \in 1..Tile
  BY BatchFacts
<1>2. \A s \in Lanes(Len(Batch)) : LaneHolds(loc.lane[s], Batch[loc.t0 + s])
  BY DEF IInv, QueryHolds, CountHolds
<1>3. ASSUME NEW s \in 1..Tile
      PROVE  /\ Kept[s] \in LaneStates
             /\ s \in Lanes(Len(Batch)) => LaneHolds(Kept[s], Batch[loc.t0 + s])
             /\ s \in Gathered => Kept[s] = loc.lane[s]
  <2>1. PICK x \in LaneStates : x = loc.lane[s]
    BY <1>1
  <2>2. Kept[s] = IF s \in Lanes(Len(Batch)) \ Gathered THEN [x EXCEPT !.active = FALSE] ELSE x
    BY <2>1 DEF Kept
  <2>3. [x EXCEPT !.active = FALSE] \in LaneStates /\ ~ [x EXCEPT !.active = FALSE].active
    BY DEF LaneStates
  <2>4. CASE s \in Lanes(Len(Batch)) \ Gathered
    BY <2>2, <2>3, <2>4 DEF LaneHolds
  <2>5. CASE s \notin Lanes(Len(Batch)) \ Gathered
    BY <1>2, <2>1, <2>2, <2>5
  <2> QED BY <2>4, <2>5
<1>4. \A s \in Gathered : s \in 1..Tile /\ loc.lane[s].active
  BY <1>1 DEF Gathered
<1>5. Kept \in [1..Tile -> LaneStates]
  BY <1>3 DEF Kept
<1> QED BY <1>1, <1>3, <1>4, <1>5

\* The active lanes are gathered, or the tile ends.
LEMMA CountGatherStep == ASSUME IInv, CountGather PROVE IInv'
<1>1. pc = "round"
  BY DEF CountGather
<1>2. /\ ObjectHolds /\ Valid(fm) /\ pc # "idle" /\ req[1].op = "CountBatch"
      /\ Len(Batch) \in Nat /\ DOMAIN loc = {"t0", "result", "batch", "j", "lane"}
      /\ loc.t0 \in Nat /\ loc.lane \in [1..Tile -> LaneStates]
  BY <1>1, BatchFacts
<1>3. /\ Kept \in [1..Tile -> LaneStates]
      /\ \A s \in Lanes(Len(Batch)) : LaneHolds(Kept[s], Batch[loc.t0 + s])
      /\ \A s \in Gathered : s \in 1..Tile /\ Kept[s] = loc.lane[s] /\ Kept[s].active
  BY <1>1, KeptLanes
<1>4. Tile \in Nat
  BY TileAssumption
<1>5. CASE Gathered = {}
  <2>1. Go("tile", [loc EXCEPT !.lane = Kept, !.batch = <<>>, !.t0 = @ + Tile])
    BY <1>5 DEF CountGather, Gathered, Kept
  <2>2. /\ pc' = "tile" /\ fm' = fm
        /\ loc' = [loc EXCEPT !.lane = Kept, !.batch = <<>>, !.t0 = @ + Tile]
    BY <2>1 DEF Go
  <2>3. loc'.lane = Kept /\ loc'.t0 = loc.t0 + Tile /\ DOMAIN loc' = DOMAIN loc
    BY <1>2, <2>2
  <2>4. LaneStates' = LaneStates
    BY <2>2 DEF LaneStates, M
  <2>5. CountHolds'
    BY <1>2, <1>3, <1>4, <2>2, <2>3, <2>4 DEF CountHolds
  <2>6. QueryHolds'
    BY <2>2, <2>5 DEF QueryHolds, LongestHolds, FuzzyHolds, WalksHold
  <2> QED BY <1>2, <2>1, <2>6, Went DEF OpOf, Places
<1>6. CASE Gathered # {}
  <2> DEFINE slot == ListingOf(Gathered, Tile)[Tile]
             batch == [j \in 1..Cardinality(Gathered) |-> EntryOf(slot[j], Kept)]
             l == [loc EXCEPT !.lane = Kept, !.j = 1, !.batch = batch]
  <2>1. Go("scatter", l)
    BY <1>6 DEF CountGather, Gathered, Kept, EntryOf, ListingOf, Listing
  <2>2. pc' = "scatter" /\ fm' = fm /\ req' = req /\ loc' = l
    BY <2>1 DEF Go
  <2>3. Gathered \in SUBSET (1..Tile)
    BY <1>3
  <2>4. Lists(slot, Gathered)
    BY <1>4, <2>3, ListingLists
  <2>5. IsFiniteSet(Gathered)
    <3>1. IsFiniteSet(1..Tile)
      BY <1>4, FS_Interval
    <3> QED BY <2>3, <3>1, FS_Subset
  <2>6. PICK n \in Nat : n = Cardinality(Gathered) /\ n # 0
    BY <1>6, <2>5, FS_CardinalityType, FS_EmptySet
  <2>7. /\ \A j \in 1..n : slot[j] \in Gathered
        /\ \A i, j \in 1..n : slot[i] = slot[j] => i = j
    BY <2>4, <2>6 DEF Lists
  <2>8. PICK bs : bs = batch
    OBVIOUS
  <2>9. Len(bs) = n /\ \A j \in 1..n : bs[j] = EntryOf(slot[j], Kept)
    BY <2>6, <2>8
  <2> HIDE DEF slot, batch
  <2>10. /\ loc'.lane = Kept /\ loc'.t0 = loc.t0 /\ loc'.batch = bs /\ loc'.j = 1
         /\ DOMAIN loc' = DOMAIN loc
    BY <1>2, <2>2, <2>8
  <2>11. LaneStates' = LaneStates /\ Batch' = Batch /\ Lanes(Len(Batch))' = Lanes(Len(Batch))
    BY <2>2, <2>10 DEF LaneStates, M, Batch, Lanes
  <2>12. \A s \in Lanes(Len(Batch))' : LaneHolds(loc.lane[s], Batch[loc.t0 + s])'
    BY <1>3, <2>2, <2>10, <2>11 DEF LaneHolds
  <2>13. ASSUME NEW j \in 1..n
         PROVE  EntryHolds(bs[j])' /\ bs[j].slot = slot[j]
    <3>1. PICK s \in Gathered : s = slot[j]
      BY <2>7
    <3>2. PICK b : b = bs[j] /\ b = EntryOf(s, Kept)
      BY <2>9, <3>1
    <3>3. s \in Lanes(Len(Batch)) /\ IdOf(s) >= 0 /\ Kept[s] = loc.lane[s] /\ Kept[s].active
      BY <1>3 DEF Gathered
    <3>4. IdOf(s)' = IdOf(s)
      BY <2>2, <2>10, <2>11, <3>3 DEF IdOf
    <3>5. /\ b.slot = s /\ b.id = IdOf(s)
          /\ b.lo = MapPos(fm.wm_, IdOf(s), Kept[s].lo, fm.qlevels_)
          /\ b.hi = MapPos(fm.wm_, IdOf(s), Kept[s].hi, fm.qlevels_)
      BY <3>2 DEF EntryOf
    <3>6. EntryHolds(b)'
      BY <2>2, <2>10, <2>11, <3>3, <3>4, <3>5 DEF EntryHolds
    <3> QED BY <3>1, <3>2, <3>5, <3>6
  <2>14. \A i, j \in 1..n : bs[i].slot = bs[j].slot => i = j
    BY <2>7, <2>13
  <2>15. CountHolds'
    BY <1>2, <1>3, <2>2, <2>6, <2>9, <2>10, <2>11, <2>12, <2>13, <2>14 DEF CountHolds
  <2>16. QueryHolds'
    BY <2>2, <2>15 DEF QueryHolds, LongestHolds, FuzzyHolds, WalksHold
  <2> QED BY <1>2, <2>1, <2>16, Went DEF OpOf, Places
<1> QED BY <1>5, <1>6

-----------------------------------------------------------------------------
(***************************************************************************)
(* CountBatch: the answers are scattered to their lanes.                   *)
(***************************************************************************)

\* What an entry of the batch makes of its lane.
Told(x, lo, hi) ==
    IF lo >= hi THEN [x EXCEPT !.active = FALSE]
    ELSE [lo |-> lo, hi |-> hi, posn |-> x.posn - 1, active |-> x.posn - 1 > 0]

\* The bytes of a word from place n on.
LEMMA SuffixFacts ==
    ASSUME NEW p \in Seq(Bytes), NEW n \in 1..(Len(p) + 1)
    PROVE  /\ SubSeq(p, n, Len(p)) \in Seq(Bytes) /\ Len(SubSeq(p, n, Len(p))) = Len(p) - n + 1
           /\ \A i \in 1..(Len(p) - n + 1) : SubSeq(p, n, Len(p))[i] = p[n + i - 1]
OBVIOUS

\* A lane whose interval is extended by the byte before has matched that too.
LEMMA LaneExtends ==
    ASSUME ObjectHolds, Valid(fm), NEW x \in LaneStates, NEW p \in Seq(Bytes),
           LaneHolds(x, p), x.active,
           NEW id, id = fm.byte_to_id_[p[x.posn]], id >= 0,
           NEW lo, lo = Extend(fm, id, x.lo), NEW hi, hi = Extend(fm, id, x.hi)
    PROVE  Told(x, lo, hi) \in LaneStates /\ LaneHolds(Told(x, lo, hi), p)
<1>1. /\ x.lo \in 0..M(fm) /\ x.hi \in 0..M(fm) /\ x.lo < x.hi /\ x.posn \in 1..Len(p)
      /\ Interval(fm, SubSeq(p, x.posn + 1, Len(p))) = <<x.lo, x.hi>>
  BY DEF LaneStates, LaneHolds
<1>2. PICK n \in 1..Len(p), xlo \in 0..M(fm), xhi \in 0..M(fm) :
        n = x.posn /\ xlo = x.lo /\ xhi = x.hi
  BY <1>1
<1>3. PICK c \in Bytes : c = p[n]
  OBVIOUS
<1>4. id \in 2..(fm.sigma_ - 1) /\ fm.sigma_ \in Nat
  BY <1>2, <1>3, IdType
<1>5. PICK d \in 0..(fm.sigma_ - 1) : d = id
  BY <1>4
<1>6. M(fm) \in Nat
  BY IndexServes
<1>7. lo \in 0..M(fm) /\ hi \in 0..M(fm)
  BY <1>2, <1>5, ExtendType
<1>8. [x EXCEPT !.active = FALSE] \in LaneStates /\ ~ [x EXCEPT !.active = FALSE].active
  BY DEF LaneStates
<1>9. CASE lo >= hi
  BY <1>8, <1>9 DEF Told, LaneHolds
<1>10. CASE ~ (lo >= hi)
  <2>1. lo < hi
    BY <1>6, <1>7, <1>10
  <2> DEFINE y == [lo |-> lo, hi |-> hi, posn |-> n - 1, active |-> n - 1 > 0]
  <2>2. Told(x, lo, hi) = y
    BY <1>2, <1>10 DEF Told
  <2>3. n - 1 \in Nat /\ n \in Int /\ n + 1 \in Int /\ Len(p) \in Nat
    BY <1>2
  <2>4. (n - 1 > 0) \in BOOLEAN
    OBVIOUS
  <2>5. y \in LaneStates
    BY <1>7, <2>3, <2>4 DEF LaneStates
  <2> DEFINE u == SubSeq(p, n + 1, Len(p))
             v == SubSeq(p, n, Len(p))
  <2>6. /\ u \in Seq(Bytes) /\ Len(u) = Len(p) - n
        /\ \A i \in 1..(Len(p) - n) : u[i] = p[n + i]
    <3>1. n + 1 \in 1..(Len(p) + 1)
      BY <1>2, <2>3
    <3>2. /\ u \in Seq(Bytes) /\ Len(u) = Len(p) - (n + 1) + 1
          /\ \A i \in 1..(Len(p) - (n + 1) + 1) : u[i] = p[(n + 1) + i - 1]
      BY <3>1, SuffixFacts
    <3> HIDE DEF u
    <3>3. Len(u) = Len(p) - n
      BY <1>2, <2>3, <3>2
    <3>4. ASSUME NEW i \in 1..(Len(p) - n) PROVE u[i] = p[n + i]
      <4>1. i \in 1..(Len(p) - (n + 1) + 1) /\ (n + 1) + i - 1 = n + i
        BY <2>3
      <4> QED BY <3>2, <4>1
    <3> QED BY <3>2, <3>3, <3>4
  <2>7. /\ v \in Seq(Bytes) /\ Len(v) = Len(p) - n + 1
        /\ \A i \in 1..(Len(p) - n + 1) : v[i] = p[n + i - 1]
    <3>1. n \in 1..(Len(p) + 1)
      BY <2>3
    <3> QED BY <3>1, SuffixFacts
  <2> HIDE DEF u, v
  <2>8. /\ Len(v) = Len(u) + 1 /\ v[1] = p[n]
        /\ \A i \in 1..Len(u) : v[i + 1] = u[i]
    <3>1. 1 \in 1..(Len(p) - n + 1) /\ n + 1 - 1 = n
      BY <1>2, <2>3
    <3>2. ASSUME NEW i \in 1..(Len(p) - n) PROVE v[i + 1] = u[i]
      <4>1. i + 1 \in 1..(Len(p) - n + 1) /\ n + (i + 1) - 1 = n + i
        BY <2>3
      <4>2. v[i + 1] = p[n + (i + 1) - 1]
        BY <2>7, <4>1
      <4> QED BY <2>6, <4>1, <4>2
    <3>3. v[1] = p[n + 1 - 1]
      BY <2>7, <3>1
    <3>4. Len(v) = Len(u) + 1
      BY <2>3, <2>6, <2>7
    <3> QED BY <2>6, <3>1, <3>2, <3>3, <3>4
  <2>9. Interval(fm, u) = <<xlo, xhi>>
    BY <1>1, <1>2 DEF u
  <2>10. Interval(fm, v) = <<Extend(fm, d, xlo), Extend(fm, d, xhi)>>
    <3>1. lo = Extend(fm, d, xlo) /\ hi = Extend(fm, d, xhi)
      BY <1>2, <1>5
    <3>2. d = fm.byte_to_id_[v[1]]
      BY <1>2, <1>5, <2>8
    <3>3. xlo < xhi /\ Extend(fm, d, xlo) < Extend(fm, d, xhi)
      BY <1>1, <1>2, <2>1, <3>1
    <3>4. u \in Seq(Bytes) /\ v \in Seq(Bytes) /\ OneMore(v, u)
      BY <2>6, <2>7, <2>8 DEF OneMore
    <3> QED BY <2>9, <3>2, <3>3, <3>4, Prefixed
  <2>11. n - 1 > 0 => n - 1 \in 1..Len(p)
    BY <1>2, <2>3
  <2>12. SubSeq(p, (n - 1) + 1, Len(p)) = v
    <3>1. (n - 1) + 1 = n
      BY <2>3
    <3> QED BY <3>1, Zenon DEF v
  <2>13. Interval(fm, SubSeq(p, (n - 1) + 1, Len(p))) = <<lo, hi>>
    BY <1>2, <1>5, <2>10, <2>12
  <2>14. y.lo = lo /\ y.hi = hi /\ y.posn = n - 1 /\ (y.active <=> n - 1 > 0)
    OBVIOUS
  <2> HIDE DEF y
  <2>15. LaneHolds(y, p)
    BY <2>1, <2>11, <2>13, <2>14 DEF LaneHolds
  <2> QED BY <2>2, <2>5, <2>15
<1> QED BY <1>9, <1>10

\* An entry of the batch goes back to its lane, the others wait undisturbed.
LEMMA CountScatterStep == ASSUME IInv, CountScatter PROVE IInv'
<1>1. pc = "scatter"
  BY DEF CountScatter
<1>2. /\ ObjectHolds /\ Valid(fm) /\ pc # "idle" /\ req[1].op = "CountBatch"
      /\ Len(Batch) \in Nat /\ DOMAIN loc = {"t0", "result", "batch", "j", "lane"}
      /\ loc.t0 \in Nat /\ loc.lane \in [1..Tile -> LaneStates]
      /\ \A t \in Lanes(Len(Batch)) : t \in 1..Tile /\ Batch[loc.t0 + t] \in Seq(Bytes)
  BY <1>1, BatchFacts
<1>3. /\ \A t \in Lanes(Len(Batch)) : LaneHolds(loc.lane[t], Batch[loc.t0 + t])
      /\ Len(loc.batch) \in Nat /\ loc.j \in 1..Len(loc.batch)
      /\ \A i \in loc.j..Len(loc.batch) : EntryHolds(loc.batch[i])
      /\ \A m, i \in loc.j..Len(loc.batch) : loc.batch[m].slot = loc.batch[i].slot => m = i
  BY <1>1 DEF IInv, QueryHolds, CountHolds
<1>4. PICK n \in Nat, j \in Nat : n = Len(loc.batch) /\ j = loc.j /\ j \in 1..n
  BY <1>3
<1>5. PICK b : b = loc.batch[j]
  OBVIOUS
<1>6. PICK s \in Lanes(Len(Batch)) : s = b.slot
  <2>1. EntryHolds(b)
    BY <1>3, <1>4, <1>5
  <2> QED BY <2>1 DEF EntryHolds
<1>7. PICK p \in Seq(Bytes) : p = Batch[loc.t0 + s]
  BY <1>2
<1>8. PICK x \in LaneStates : x = loc.lane[s]
  BY <1>2
<1>9. /\ x.active /\ LaneHolds(x, p)
      /\ b.id = IdOf(s) /\ b.id >= 0
      /\ b.lo = MapPos(fm.wm_, b.id, x.lo, fm.qlevels_)
      /\ b.hi = MapPos(fm.wm_, b.id, x.hi, fm.qlevels_)
  <2>1. EntryHolds(b)
    BY <1>3, <1>4, <1>5
  <2>2. LaneHolds(x, p)
    BY <1>3, <1>7, <1>8
  <2> QED BY <1>6, <1>8, <2>1, <2>2 DEF EntryHolds
<1> DEFINE nlo == (fm.c_[b.id] - fm.first_[b.id]) + b.lo
           nhi == (fm.c_[b.id] - fm.first_[b.id]) + b.hi
<1>10. nlo = Extend(fm, b.id, x.lo) /\ nhi = Extend(fm, b.id, x.hi)
  BY <1>9 DEF Extend
<1>11. b.id = fm.byte_to_id_[p[x.posn]]
  BY <1>7, <1>8, <1>9 DEF IdOf
<1>12. PICK place, r : /\ Go(place, [loc EXCEPT !.lane[s] = Told(x, nlo, nhi), !.j = @ + 1,
                                            !.result[loc.t0 + s] = r])
                       /\ place = IF loc.j = Len(loc.batch) THEN "round" ELSE "scatter"
  <2>1. SlotOf(loc.j) = s /\ loc.batch[loc.j] = b /\ loc.lane[s] = x
    BY <1>4, <1>5, <1>6, <1>8 DEF SlotOf
  <2>2. Told(x, nlo, nhi) = IF nlo >= nhi THEN [x EXCEPT !.active = FALSE]
                            ELSE [lo |-> nlo, hi |-> nhi, posn |-> x.posn - 1,
                                  active |-> x.posn - 1 > 0]
    BY DEF Told
  <2> QED BY <2>1, <2>2 DEF CountScatter
<1>13. PICK y : y = Told(x, nlo, nhi)
  OBVIOUS
<1> HIDE DEF nlo, nhi
<1>14. y \in LaneStates /\ LaneHolds(y, p)
  BY <1>2, <1>9, <1>10, <1>11, <1>13, LaneExtends
<1>15. /\ pc' = place /\ fm' = fm /\ req' = req
       /\ loc' = [loc EXCEPT !.lane[s] = y, !.j = @ + 1, !.result[loc.t0 + s] = r]
  BY <1>12, <1>13 DEF Go
<1>16. /\ loc'.lane = [loc.lane EXCEPT ![s] = y] /\ loc'.t0 = loc.t0 /\ loc'.j = j + 1
       /\ loc'.batch = loc.batch /\ DOMAIN loc' = DOMAIN loc
  BY <1>2, <1>4, <1>15
<1>17. LaneStates' = LaneStates /\ Batch' = Batch /\ Lanes(Len(Batch))' = Lanes(Len(Batch))
  BY <1>15, <1>16 DEF LaneStates, M, Batch, Lanes
<1>18. /\ loc'.lane \in [1..Tile -> LaneStates] /\ loc'.lane[s] = y
       /\ \A t \in 1..Tile : t # s => loc'.lane[t] = loc.lane[t]
  BY <1>2, <1>14, <1>16
<1>19. ASSUME NEW t \in Lanes(Len(Batch)) PROVE LaneHolds(loc.lane[t], Batch[loc.t0 + t])'
  <2>1. CASE t = s
    BY <1>7, <1>14, <1>15, <1>16, <1>17, <1>18, <2>1 DEF LaneHolds
  <2>2. CASE t # s
    BY <1>2, <1>3, <1>15, <1>16, <1>17, <1>18, <2>2 DEF LaneHolds
  <2> QED BY <2>1, <2>2
<1>20. ASSUME NEW i \in (j + 1)..n PROVE EntryHolds(loc.batch[i])'
  <2>1. i \in loc.j..Len(loc.batch) /\ j \in loc.j..Len(loc.batch) /\ i # j
    BY <1>4
  <2>2. PICK e : e = loc.batch[i]
    OBVIOUS
  <2>3. EntryHolds(e) /\ e.slot # s
    BY <1>3, <1>5, <1>6, <2>1, <2>2
  <2>4. e.slot \in Lanes(Len(Batch)) /\ loc'.lane[e.slot] = loc.lane[e.slot]
    BY <1>2, <1>18, <2>3 DEF EntryHolds
  <2>5. IdOf(e.slot)' = IdOf(e.slot)
    BY <1>15, <1>16, <1>17, <2>4 DEF IdOf
  <2>6. EntryHolds(e)'
    BY <1>15, <1>16, <1>17, <2>3, <2>4, <2>5 DEF EntryHolds
  <2> QED BY <1>16, <2>2, <2>6
<1>21. CASE j = n
  <2>1. place = "round"
    BY <1>4, <1>12, <1>21
  <2>2. CountHolds'
    BY <1>2, <1>15, <1>16, <1>17, <1>18, <1>19, <2>1 DEF CountHolds
  <2>3. QueryHolds'
    BY <1>15, <2>1, <2>2 DEF QueryHolds, LongestHolds, FuzzyHolds, WalksHold
  <2> QED BY <1>2, <1>12, <2>1, <2>3, Went DEF OpOf, Places
<1>22. CASE j # n
  <2>1. place = "scatter"
    BY <1>4, <1>12, <1>22
  <2>2. j + 1 \in 1..n
    BY <1>4, <1>22
  <2>3. \A i \in (j + 1)..n : i \in loc.j..Len(loc.batch)
    BY <1>4
  <2>4. CountHolds'
    BY <1>2, <1>3, <1>4, <1>15, <1>16, <1>17, <1>18, <1>19, <1>20, <2>1, <2>2, <2>3 DEF CountHolds
  <2>5. QueryHolds'
    BY <1>15, <2>1, <2>4 DEF QueryHolds, LongestHolds, FuzzyHolds, WalksHold
  <2> QED BY <1>2, <1>12, <2>1, <2>5, Went DEF OpOf, Places
<1> QED BY <1>21, <1>22

-----------------------------------------------------------------------------
(***************************************************************************)
(* LocateDocsBatch.                                                        *)
(***************************************************************************)

\* The walks of pattern q, one per row of its interval.
RowWalks(q) ==
    LET iv == Interval(fm, Batch[q]) IN
    IF Batch[q] = <<>> THEN <<>>
    ELSE [n \in 1..(iv[2] - iv[1]) |->
            [row |-> iv[1] + n - 1, steps |-> 0, q |-> q, done |-> FALSE, pos |-> 0]]

\* The table of the walks of the first patterns.
Collection(f) ==
    f = [q \in 0..Len(Batch) |-> IF q = 0 THEN <<>> ELSE f[q - 1] \o RowWalks(q)]
Collected == (CHOOSE f : Collection(f))[Len(Batch)]

\* A table over 1..k is a sequence.
LEMMA TableSeq ==
    ASSUME NEW S, NEW k \in Nat, NEW f \in [1..k -> S]
    PROVE  f \in Seq(S)
BY SeqDef

\* The walks of a pattern start at rows of the index.
LEMMA RowWalksType ==
    ASSUME ObjectHolds, Valid(fm), Batch \in Seq(Seq(Bytes)), NEW q \in 1..Len(Batch)
    PROVE  RowWalks(q) \in Seq(Walks)
<1>1. PICK p \in Seq(Bytes) : p = Batch[q]
  OBVIOUS
<1>2. Serves(fm, Text, Array) /\ fm.text_len_ \in Nat
  BY IndexServes
<1>3. Interval(fm, p) \in Pairs(fm.text_len_)
  BY <1>2, IntervalType
<1>4. PICK iv \in Pairs(fm.text_len_) : iv = Interval(fm, p)
  BY <1>3
<1>5. PICK n \in Nat, lo \in Nat, hi \in Nat :
        n = fm.text_len_ /\ lo = iv[1] /\ hi = iv[2] /\ hi <= n + 1
  BY <1>2, <1>4 DEF Pairs
<1> DEFINE walk(m) == [row |-> lo + m - 1, steps |-> 0, q |-> q, done |-> FALSE, pos |-> 0]
           walks == [m \in 1..(hi - lo) |-> walk(m)]
<1>6. RowWalks(q) = <<>> \/ RowWalks(q) = walks
  BY <1>1, <1>4, <1>5 DEF RowWalks
<1>7. ASSUME NEW m \in 1..(hi - lo) PROVE walk(m) \in Walks
  <2>0. hi <= n + 1
    BY <1>5
  <2>1. lo + m - 1 \in 0..n
    BY <2>0
  <2>2. q \in Nat
    OBVIOUS
  <2> QED BY <1>5, <2>1, <2>2 DEF Walks
<1>8. walks \in Seq(Walks)
  <2>1. PICK k \in Nat : 1..(hi - lo) = 1..k
    <3>1. CASE hi < lo
      <4>1. 1..(hi - lo) = 1..0
        BY <3>1
      <4> QED BY <4>1
    <3>2. CASE hi >= lo
      <4>1. hi - lo \in Nat
        BY <3>2
      <4> QED BY <4>1
    <3> QED BY <3>1, <3>2
  <2>2. walks \in [1..k -> Walks]
    <3> HIDE DEF walk
    <3> QED BY <1>7, <2>1
  <2>3. PICK ws \in [1..k -> Walks] : ws = walks
    BY <2>2
  <2>4. ws \in Seq(Walks)
    BY TableSeq
  <2> HIDE DEF walks
  <2> QED BY <2>3, <2>4
<1> HIDE DEF walks
<1>9. CASE RowWalks(q) = <<>>
  <2>1. <<>> \in Seq(Walks)
    OBVIOUS
  <2> QED BY <1>9, <2>1
<1>10. CASE RowWalks(q) = walks
  BY <1>8, <1>10
<1> QED BY <1>6, <1>9, <1>10

\* The walks are collected pattern by pattern.
LEMMA CollectedTable ==
    ASSUME ObjectHolds, Valid(fm), Batch \in Seq(Seq(Bytes)), NEW n \in Nat, n = Len(Batch)
    PROVE  \E f \in [0..n -> Seq(Walks)] :
             /\ f[0] = <<>> /\ Collected = f[n]
             /\ \A m \in 1..n : f[m] = f[m - 1] \o RowWalks(m)
<1> DEFINE V == Seq(Walks)
           h == [m \in 1..n |-> [v \in V |-> v \o RowWalks(m)]]
<1>1. \A m \in 1..n : RowWalks(m) \in V
  BY RowWalksType
<1>2. ASSUME NEW m \in 1..n, NEW v \in V PROVE h[m][v] \in V
  <2>1. RowWalks(m) \in V
    BY <1>1
  <2> QED BY <2>1
<1>3. <<>> \in V
  OBVIOUS
<1>4. PICK g : Recurs(g, n, V, <<>>, h)
  <2> HIDE DEF h, V
  <2> QED BY <1>2, <1>3, RecursionExists
<1>5. g \in [0..n -> V] /\ g[0] = <<>>
  BY <1>4 DEF Recurs
<1>6. ASSUME NEW m \in 0..n PROVE g[m] = IF m = 0 THEN <<>> ELSE g[m - 1] \o RowWalks(m)
  <2>1. CASE m = 0
    BY <1>5, <2>1
  <2>2. CASE m # 0
    <3>1. m \in 1..n /\ m - 1 \in 0..n
      BY <2>2
    <3>2. g[m - 1] \in V
      BY <1>5, <3>1
    <3>3. g[m] = h[m][g[m - 1]]
      BY <1>4, <3>1 DEF Recurs
    <3> HIDE DEF V
    <3> QED BY <2>2, <3>1, <3>2, <3>3
  <2> QED BY <2>1, <2>2
<1> HIDE DEF h, V
<1>7. Collection(g)
  <2>1. g = [m \in 0..n |-> g[m]]
    BY <1>5
  <2> QED BY <1>6, <2>1 DEF Collection
<1> DEFINE f == CHOOSE x : Collection(x)
<1>8. Collection(f)
  BY <1>7
<1> HIDE DEF f
<1>9. /\ f = [m \in 0..n |-> f[m]]
      /\ \A m \in 0..n : f[m] = IF m = 0 THEN <<>> ELSE f[m - 1] \o RowWalks(m)
  BY <1>8 DEF Collection
<1> DEFINE T == {m \in Nat : m <= n => f[m] \in V}
<1>10. 0 \in T
  BY <1>3, <1>9
<1>11. ASSUME NEW m \in Nat, m \in T PROVE m + 1 \in T
  <2> SUFFICES ASSUME m + 1 <= n PROVE f[m + 1] \in V
    OBVIOUS
  <2>1. m + 1 \in 0..n /\ m + 1 \in 1..n /\ m + 1 # 0 /\ (m + 1) - 1 = m /\ m <= n
    OBVIOUS
  <2>2. f[m] \in V
    BY <1>11, <2>1
  <2>3. f[m + 1] = f[m] \o RowWalks(m + 1)
    BY <1>9, <2>1
  <2>4. RowWalks(m + 1) \in V
    BY <1>1, <2>1
  <2> HIDE DEF T
  <2> QED BY <2>2, <2>3, <2>4 DEF V
<1> HIDE DEF T
<1>12. \A m \in Nat : m \in T
  BY <1>10, <1>11, NatSet
<1>13. f \in [0..n -> V]
  <2>1. \A m \in 0..n : f[m] \in V
    BY <1>12 DEF T
  <2> QED BY <1>9, <2>1
<1>14. Collected = f[n]
  BY DEF Collected, f
<1>15. f[0] = <<>> /\ \A m \in 1..n : f[m] = f[m - 1] \o RowWalks(m)
  <2>1. 0 \in 0..n
    OBVIOUS
  <2>2. ASSUME NEW m \in 1..n PROVE f[m] = f[m - 1] \o RowWalks(m)
    <3>1. m \in 0..n /\ m # 0
      OBVIOUS
    <3> QED BY <1>9, <3>1
  <2> QED BY <1>9, <2>1, <2>2
<1> QED BY <1>13, <1>14, <1>15 DEF V

\* All the walks that are collected start at rows of the index.
LEMMA CollectedType ==
    ASSUME ObjectHolds, Valid(fm), Batch \in Seq(Seq(Bytes))
    PROVE  Collected \in Seq(Walks)
<1>1. PICK n \in Nat : n = Len(Batch)
  OBVIOUS
<1>2. PICK f \in [0..n -> Seq(Walks)] : Collected = f[n]
  BY <1>1, CollectedTable
<1> QED BY <1>2

\* LocateDocsBatch is called: the walks are collected.
LEMMA LocateDocsBatchStep == ASSUME IInv, LocateDocsBatch PROVE IInv'
<1>1. /\ pc = "LocateDocsBatch" /\ pc \notin {"idle", "done"} \cup Places
  BY DEF LocateDocsBatch, Places
<1>2. req[1].op = "LocateDocsBatch" /\ req[1] \in Requests /\ pc # "idle" /\ ObjectHolds
  BY <1>1, AtCall
<1>3. Batch \in Seq(Seq(Bytes))
  BY <1>2, Arguments DEF Batch
<1>4. CASE ~ Valid(fm)
  BY <1>2, <1>4, Responded DEF LocateDocsBatch
<1>5. CASE Valid(fm)
  <2>1. Go("walks", [t0 |-> 0, walks |-> Collected])
    BY <1>5 DEF LocateDocsBatch, Collected, Collection, RowWalks
  <2>2. PICK ws : ws = Collected
    OBVIOUS
  <2>3. ws \in Seq(Walks)
    BY <1>2, <1>3, <1>5, <2>2, CollectedType
  <2>4. pc' = "walks" /\ loc' = [t0 |-> 0, walks |-> ws] /\ fm' = fm
    BY <2>1, <2>2 DEF Go
  <2>5. Walks' = Walks
    BY <2>4 DEF Walks
  <2>6. WalksHold'
    BY <2>3, <2>4, <2>5 DEF WalksHold
  <2>7. QueryHolds'
    BY <2>4, <2>6 DEF QueryHolds, LongestHolds, FuzzyHolds, CountHolds
  <2> QED BY <1>2, <1>5, <2>1, <2>7, Went DEF OpOf, Places
<1> QED BY <1>4, <1>5

\* What a round makes of a walk: it steps, it stops, or it is left alone.
Stepped(w) == [w EXCEPT !.row = LF(fm, w.row), !.steps = @ + 1]

\* The position a walk is to report.
Target(w) == IF w.done THEN w.pos ELSE LocateRow(fm, w.row) + w.steps

\* A walk that stops reports its target.
LEMMA StopKeeps ==
    ASSUME ObjectHolds, Valid(fm), NEW w \in Walks, ~ w.done, w.row \in fm.sampled_bv_
    PROVE  Stop(w) \in Walks /\ Target(Stop(w)) = Target(w)
<1>1. Serves(fm, Text, Array) /\ Sampled(fm, Array) /\ fm.text_len_ \in Nat
  BY IndexServes
<1>2. PICK r \in 0..fm.text_len_ : r = w.row
  BY DEF Walks
<1>3. LocateRow(fm, r) = Array[r]
  BY <1>1, LocateRowExact
<1>4. SampleVal(fm, r) = Array[r]
  BY <1>1, <1>2, SampleIsPosition
<1>5. Array[r] \in 0..fm.text_len_
  BY <1>1 DEF Serves, Sorted
<1>6. Stop(w) = [w EXCEPT !.done = TRUE, !.pos = Array[r] + w.steps]
  BY <1>2, <1>4 DEF Stop
<1>7. w.steps \in Nat /\ DOMAIN w = {"row", "steps", "q", "done", "pos"}
  BY DEF Walks
<1>8. Array[r] + w.steps \in Nat
  BY <1>1, <1>5, <1>7
<1>9. Stop(w) \in Walks
  BY <1>6, <1>8 DEF Walks
<1>10. Stop(w).done /\ Stop(w).pos = Array[r] + w.steps
  BY <1>6, <1>7
<1> QED BY <1>2, <1>3, <1>9, <1>10 DEF Target

\* A walk that steps from a row that is not sampled goes one position back.
LEMMA StepKeeps ==
    ASSUME ObjectHolds, Valid(fm), NEW w \in Walks, ~ w.done, w.row \notin fm.sampled_bv_
    PROVE  Stepped(w) \in Walks /\ Target(Stepped(w)) = Target(w)
<1>1. Serves(fm, Text, Array) /\ Sampled(fm, Array) /\ fm.text_len_ \in Nat
  BY IndexServes
<1>2. PICK r \in 0..fm.text_len_ : r = w.row
  BY DEF Walks
<1>3. PICK x \in 0..fm.text_len_ : x = LF(fm, r) /\ Array[x] = Prev(Array[r], fm.text_len_)
  BY <1>1, LFBack
<1>4. LocateRow(fm, r) = Array[r] /\ LocateRow(fm, x) = Array[x]
  BY <1>1, LocateRowExact
<1>5. Array[r] \in 0..fm.text_len_
  BY <1>1 DEF Serves, Sorted
<1>6. Array[r] # 0
  <2>1. Array[r] % fm.sa_sample_rate_ # 0
    BY <1>1, <1>2, SampleIsPosition
  <2>2. fm.sa_sample_rate_ \in Nat \ {0}
    BY <1>1 DEF Sampled
  <2> QED BY <2>1, <2>2
<1>7. Array[x] = Array[r] - 1
  BY <1>3, <1>6 DEF Prev
<1>8. Stepped(w) = [w EXCEPT !.row = x, !.steps = w.steps + 1]
  BY <1>2, <1>3 DEF Stepped
<1>9. w.steps \in Nat /\ w.steps + 1 \in Nat /\ DOMAIN w = {"row", "steps", "q", "done", "pos"}
  BY DEF Walks
<1>10. Stepped(w) \in Walks
  BY <1>8, <1>9 DEF Walks
<1>11. ~ Stepped(w).done /\ Stepped(w).row = x /\ Stepped(w).steps = w.steps + 1
  BY <1>8, <1>9
<1>12. Target(w) = Array[r] + w.steps /\ Target(Stepped(w)) = Array[x] + (w.steps + 1)
  BY <1>2, <1>4, <1>11 DEF Target
<1> QED BY <1>5, <1>7, <1>9, <1>10, <1>12

\* A round leaves walks of the index, with the targets they had.
LEMMA RoundKeeps ==
    ASSUME IInv, WalkRound
    PROVE  /\ pc # "idle" /\ req[1].op = "LocateDocsBatch" /\ ObjectHolds /\ Valid(fm)
           /\ \E t, ws : /\ Go("walks", [t0 |-> t, walks |-> ws])
                         /\ t \in Nat /\ ws \in Seq(Walks) /\ Len(ws) = Len(loc.walks)
                         /\ \A g \in 1..Len(loc.walks) : Target(ws[g]) = Target(loc.walks[g])
<1>1. pc = "walks" /\ pc \in Places
  BY DEF WalkRound, Places
<1>2. /\ pc # "idle" /\ req[1].op = "LocateDocsBatch" /\ ObjectHolds /\ Valid(fm)
  BY <1>1, InPlace DEF OpOf
<1>3. loc.t0 \in Nat /\ loc.walks \in Seq(Walks)
  BY <1>1 DEF IInv, QueryHolds, WalksHold
<1> DEFINE T == {loc.t0 + s : s \in Lanes(Len(loc.walks))}
           Pend == {g \in T : ~loc.walks[g].done /\ loc.walks[g].row \notin fm.sampled_bv_}
           New(g) == IF g \in Pend THEN Stepped(loc.walks[g])
                     ELSE IF g \in T /\ ~loc.walks[g].done THEN Stop(loc.walks[g])
                     ELSE loc.walks[g]
           ws == [g \in 1..Len(loc.walks) |-> New(g)]
           t == IF Pend = {} THEN loc.t0 + Tile ELSE loc.t0
<1>4. Go("walks", [t0 |-> t, walks |-> ws])
  BY DEF WalkRound, Stepped
<1>5. t \in Nat
  BY <1>3, TileAssumption
<1>6. ASSUME NEW g \in 1..Len(loc.walks)
      PROVE  New(g) \in Walks /\ Target(New(g)) = Target(loc.walks[g])
  <2>1. PICK w \in Walks : w = loc.walks[g]
    BY <1>3
  <2>2. CASE g \in Pend
    BY <1>2, <2>1, <2>2, StepKeeps
  <2>3. CASE g \notin Pend /\ g \in T /\ ~ w.done
    BY <1>2, <2>1, <2>3, StopKeeps
  <2>4. CASE g \notin Pend /\ ~ (g \in T /\ ~ w.done)
    BY <2>1, <2>4
  <2> QED BY <2>2, <2>3, <2>4
<1> HIDE DEF t, New
<1>7. Len(loc.walks) \in Nat
  BY <1>3
<1>8. ws \in Seq(Walks) /\ Len(ws) = Len(loc.walks)
  BY <1>6, <1>7
<1>9. \A g \in 1..Len(loc.walks) : Target(ws[g]) = Target(loc.walks[g])
  BY <1>6
<1> HIDE DEF ws
<1> QED BY <1>2, <1>4, <1>5, <1>8, <1>9

\* A round of the walks.
LEMMA WalkRoundStep == ASSUME IInv, WalkRound PROVE IInv'
<1>1. pc # "idle" /\ req[1].op = "LocateDocsBatch" /\ Valid(fm)
  BY RoundKeeps
<1>2. PICK t, ws : /\ Go("walks", [t0 |-> t, walks |-> ws])
                   /\ t \in Nat /\ ws \in Seq(Walks)
  BY RoundKeeps
<1>3. pc' = "walks" /\ loc' = [t0 |-> t, walks |-> ws] /\ fm' = fm
  BY <1>2 DEF Go
<1>4. Walks' = Walks
  BY <1>3 DEF Walks
<1>5. WalksHold'
  BY <1>2, <1>3, <1>4 DEF WalksHold
<1>6. QueryHolds'
  BY <1>3, <1>5 DEF QueryHolds, LongestHolds, FuzzyHolds, CountHolds
<1> QED BY <1>1, <1>2, <1>6, Went DEF OpOf, Places

\* The positions are reported.
LEMMA WalksEndStep == ASSUME IInv, WalksEnd PROVE IInv'
<1>1. pc = "walks"
  BY DEF WalksEnd
<1>2. PICK x : Respond(x)
  BY DEF WalksEnd
<1> QED BY <1>1, <1>2, Responded

-----------------------------------------------------------------------------
(***************************************************************************)
(* Tables of edit distances.                                               *)
(***************************************************************************)

\* The smaller of two, one of several in the abstract specification.
Lower(x, y) == IF x <= y THEN x ELSE y

\* Row q follows row r in a table of distances whose costs in this row are ci.
NextRow(q, r, i, n, ci) ==
    /\ q \in [0..n -> Nat] /\ q[0] = i
    /\ \A j \in 1..n : q[j] = Lower(1 + Lower(r[j], q[j - 1]), r[j - 1] + ci[j])

\* A row is followed by another one.
LEMMA RowExists ==
    ASSUME NEW n \in Nat, NEW r \in [0..n -> Nat], NEW i \in Nat, NEW ci \in [1..n -> Nat]
    PROVE  \E q : NextRow(q, r, i, n, ci)
<1> DEFINE h == [j \in 1..n |-> [v \in Nat |-> Lower(1 + Lower(r[j], v), r[j - 1] + ci[j])]]
<1>1. ASSUME NEW j \in 1..n, NEW v \in Nat PROVE h[j][v] \in Nat
  <2>1. PICK a \in Nat, b \in Nat, c \in Nat : a = r[j] /\ b = r[j - 1] /\ c = ci[j]
    OBVIOUS
  <2>2. h[j][v] = Lower(1 + Lower(a, v), b + c)
    BY <2>1
  <2>3. Lower(1 + Lower(a, v), b + c) \in Nat
    BY DEF Lower
  <2> QED BY <2>2, <2>3
<1>2. PICK q : Recurs(q, n, Nat, i, h)
  <2> HIDE DEF h
  <2> QED BY <1>1, RecursionExists
<1>3. q \in [0..n -> Nat] /\ q[0] = i
  BY <1>2 DEF Recurs
<1>4. ASSUME NEW j \in 1..n
      PROVE  q[j] = Lower(1 + Lower(r[j], q[j - 1]), r[j - 1] + ci[j])
  <2>1. q[j - 1] \in Nat
    BY <1>3
  <2>2. q[j] = h[j][q[j - 1]]
    BY <1>2 DEF Recurs
  <2> QED BY <2>1, <2>2
<1> HIDE DEF h
<1> QED BY <1>3, <1>4 DEF NextRow

\* A table of the distances with these costs, row by row.
DistRows(F, m, n, c) ==
    /\ F \in [0..m -> [0..n -> Nat]]
    /\ \A j \in 0..n : F[0][j] = j
    /\ \A i \in 1..m : NextRow(F[i], F[i - 1], i, n, c[i])

\* There is one.
LEMMA RowsExist ==
    ASSUME NEW m \in Nat, NEW n \in Nat, NEW c \in [1..m -> [1..n -> Nat]]
    PROVE  \E F : DistRows(F, m, n, c)
<1> DEFINE V == [0..n -> Nat]
           first == [j \in 0..n |-> j]
           h == [i \in 1..m |-> [r \in V |-> CHOOSE q : NextRow(q, r, i, n, c[i])]]
<1>1. ASSUME NEW i \in 1..m, NEW r \in V PROVE NextRow(h[i][r], r, i, n, c[i]) /\ h[i][r] \in V
  <2>1. PICK ci \in [1..n -> Nat] : ci = c[i]
    OBVIOUS
  <2>2. \E q : NextRow(q, r, i, n, ci)
    <3>1. r \in [0..n -> Nat] /\ i \in Nat
      OBVIOUS
    <3> HIDE DEF h, V, first
    <3> QED BY <3>1, RowExists
  <2>3. h[i][r] = CHOOSE q : NextRow(q, r, i, n, ci)
    BY <2>1
  <2>4. NextRow(h[i][r], r, i, n, ci)
    BY <2>2, <2>3
  <2> HIDE DEF h
  <2> QED BY <2>1, <2>4 DEF NextRow
<1>2. first \in V
  OBVIOUS
<1>3. PICK F : Recurs(F, m, V, first, h)
  <2> HIDE DEF h, V, first
  <2> QED BY <1>1, <1>2, RecursionExists
<1> HIDE DEF h
<1>4. F \in [0..m -> V] /\ F[0] = first
  BY <1>3 DEF Recurs
<1>5. ASSUME NEW i \in 1..m PROVE NextRow(F[i], F[i - 1], i, n, c[i])
  <2>1. i - 1 \in 0..m
    OBVIOUS
  <2>2. PICK r \in V : r = F[i - 1]
    <3> HIDE DEF V
    <3> QED BY <1>4, <2>1
  <2>3. F[i] = h[i][F[i - 1]]
    BY <1>3 DEF Recurs
  <2> QED BY <1>1, <2>2, <2>3
<1>6. \A j \in 0..n : F[0][j] = j
  BY <1>4
<1> QED BY <1>4, <1>5, <1>6 DEF DistRows

-----------------------------------------------------------------------------
(***************************************************************************)
(* The table that defines the distance of two words.                       *)
(***************************************************************************)

\* The table that defines the distance of two words.
Cells(u, v) == (0..Len(u)) \X (0..Len(v))
Cost(u, v, i, j) == IF u[Len(u) + 1 - i] = v[Len(v) + 1 - j] THEN 0 ELSE 1
Cell(D, u, v, x) ==
    IF x[1] = 0 \/ x[2] = 0 THEN x[1] + x[2]
    ELSE Lower(1 + Lower(D[<<x[1] - 1, x[2]>>], D[<<x[1], x[2] - 1>>]),
               D[<<x[1] - 1, x[2] - 1>>] + Cost(u, v, x[1], x[2]))
Distances(D, u, v) == D = [x \in Cells(u, v) |-> Cell(D, u, v, x)]

\* The cells of such a table.
LEMMA CellValue ==
    ASSUME NEW u, NEW v, Len(u) \in Nat, Len(v) \in Nat, NEW D, Distances(D, u, v),
           NEW i \in 0..Len(u), NEW j \in 0..Len(v)
    PROVE  D[<<i, j>>] = IF i = 0 \/ j = 0 THEN i + j
                         ELSE Lower(1 + Lower(D[<<i - 1, j>>], D[<<i, j - 1>>]),
                                    D[<<i - 1, j - 1>>] + Cost(u, v, i, j))
<1>1. <<i, j>> \in Cells(u, v)
  BY DEF Cells
<1>2. D[<<i, j>>] = Cell(D, u, v, <<i, j>>)
  BY <1>1 DEF Distances
<1> QED BY <1>2 DEF Cell

\* The recursive definition defines a table of numbers.
LEMMA DistancesExist ==
    ASSUME NEW u, NEW v, Len(u) \in Nat, Len(v) \in Nat
    PROVE  \E D \in [Cells(u, v) -> Nat] : Distances(D, u, v)
<1>1. PICK m \in Nat, n \in Nat : m = Len(u) /\ n = Len(v)
  OBVIOUS
<1> DEFINE c == [i \in 1..m |-> [j \in 1..n |-> Cost(u, v, i, j)]]
<1>2. \A i \in 1..m, j \in 1..n : Cost(u, v, i, j) \in Nat
  BY DEF Cost
<1>3. c \in [1..m -> [1..n -> Nat]]
  BY <1>2
<1>4. PICK F : DistRows(F, m, n, c)
  <2> HIDE DEF c
  <2> QED BY <1>3, RowsExist
<1>5. F \in [0..m -> [0..n -> Nat]] /\ \A j \in 0..n : F[0][j] = j
  BY <1>4 DEF DistRows
<1> DEFINE D == [x \in Cells(u, v) |-> F[x[1]][x[2]]]
<1>6. ASSUME NEW i \in 0..m, NEW j \in 0..n
      PROVE  D[<<i, j>>] = F[i][j] /\ F[i][j] \in Nat /\ <<i, j>> \in Cells(u, v)
  <2>1. <<i, j>> \in Cells(u, v)
    BY <1>1 DEF Cells
  <2>2. F[i] \in [0..n -> Nat]
    BY <1>5
  <2> QED BY <2>1, <2>2
<1> HIDE DEF D
<1>7. ASSUME NEW i \in 0..m, NEW j \in 0..n
      PROVE  F[i][j] = Cell(D, u, v, <<i, j>>)
  <2>1. CASE i = 0
    <3>1. F[i][j] = j
      BY <1>5, <2>1
    <3>2. Cell(D, u, v, <<i, j>>) = i + j
      BY <2>1 DEF Cell
    <3> QED BY <2>1, <3>1, <3>2
  <2>2. CASE i # 0
    <3>1. i \in 1..m /\ i - 1 \in 0..m
      BY <2>2
    <3>2. NextRow(F[i], F[i - 1], i, n, c[i])
      BY <1>4, <3>1 DEF DistRows
    <3>3. CASE j = 0
      <4>1. F[i][j] = i
        BY <3>2, <3>3 DEF NextRow
      <4>2. Cell(D, u, v, <<i, j>>) = i + j
        BY <3>3 DEF Cell
      <4> QED BY <3>3, <4>1, <4>2
    <3>4. CASE j # 0
      <4>1. j \in 1..n /\ j - 1 \in 0..n
        BY <3>4
      <4>2. F[i][j] = Lower(1 + Lower(F[i - 1][j], F[i][j - 1]), F[i - 1][j - 1] + c[i][j])
        BY <3>2, <4>1 DEF NextRow
      <4>3. c[i][j] = Cost(u, v, i, j)
        BY <3>1, <4>1
      <4>4. /\ D[<<i - 1, j>>] = F[i - 1][j] /\ D[<<i, j - 1>>] = F[i][j - 1]
            /\ D[<<i - 1, j - 1>>] = F[i - 1][j - 1]
        BY <1>6, <3>1, <4>1
      <4> HIDE DEF c
      <4>5. Cell(D, u, v, <<i, j>>)
              = Lower(1 + Lower(D[<<i - 1, j>>], D[<<i, j - 1>>]),
                      D[<<i - 1, j - 1>>] + Cost(u, v, i, j))
        BY <2>2, <3>4 DEF Cell
      <4> QED BY <4>2, <4>3, <4>4, <4>5
    <3> QED BY <3>3, <3>4
  <2> QED BY <2>1, <2>2
<1>8. ASSUME NEW x \in Cells(u, v) PROVE D[x] = Cell(D, u, v, x) /\ D[x] \in Nat
  <2>1. PICK i \in 0..m, j \in 0..n : x = <<i, j>>
    BY <1>1 DEF Cells
  <2> QED BY <1>6, <1>7, <2>1
<1>9. D = [x \in Cells(u, v) |-> D[x]]
  BY DEF D
<1>10. Distances(D, u, v)
  BY <1>8, <1>9 DEF Distances
<1>11. D \in [Cells(u, v) -> Nat]
  BY <1>8, <1>9
<1> QED BY <1>10, <1>11

-----------------------------------------------------------------------------
(***************************************************************************)
(* The distance, and what a letter in front of a word adds to it.          *)
(***************************************************************************)

\* The distance of two words is a number, which their table ends with.
LEMMA DistanceTable ==
    ASSUME NEW u, NEW v, Len(u) \in Nat, Len(v) \in Nat
    PROVE  \E D \in [Cells(u, v) -> Nat] :
             Distances(D, u, v) /\ Abstract!Distance(u, v) = D[<<Len(u), Len(v)>>]
<1> DEFINE D == CHOOSE f : Distances(f, u, v)
<1>1. Distances(D, u, v)
  BY DistancesExist
<1>2. Abstract!Distance(u, v) = D[<<Len(u), Len(v)>>]
  BY DEF Abstract!Distance, Abstract!Lesser, Distances, Cells, Cell, Cost, Lower
<1>3. PICK E \in [Cells(u, v) -> Nat] : Distances(E, u, v)
  BY DistancesExist
<1> HIDE DEF D
<1>4. PICK m \in Nat, n \in Nat : m = Len(u) /\ n = Len(v)
  OBVIOUS
<1> DEFINE T == {s \in Nat : \A i \in 0..m, j \in 0..n : i + j <= s => D[<<i, j>>] = E[<<i, j>>]}
<1>5. ASSUME NEW i \in 0..m, NEW j \in 0..n, NEW f, Distances(f, u, v)
      PROVE  f[<<i, j>>] = IF i = 0 \/ j = 0 THEN i + j
                           ELSE Lower(1 + Lower(f[<<i - 1, j>>], f[<<i, j - 1>>]),
                                      f[<<i - 1, j - 1>>] + Cost(u, v, i, j))
  BY <1>4, <1>5, CellValue
<1>6. 0 \in T
  <2>1. ASSUME NEW i \in 0..m, NEW j \in 0..n, i + j <= 0 PROVE D[<<i, j>>] = E[<<i, j>>]
    <3>1. i = 0 \/ j = 0
      BY <2>1
    <3> QED BY <1>1, <1>3, <1>5, <3>1
  <2> QED BY <2>1
<1>7. ASSUME NEW s \in Nat, s \in T PROVE s + 1 \in T
  <2>1. \A i \in 0..m, j \in 0..n : i + j <= s => D[<<i, j>>] = E[<<i, j>>]
    BY <1>7
  <2> HIDE DEF T
  <2>2. ASSUME NEW i \in 0..m, NEW j \in 0..n, i + j <= s + 1 PROVE D[<<i, j>>] = E[<<i, j>>]
    <3>1. CASE i = 0 \/ j = 0
      BY <1>1, <1>3, <1>5, <3>1
    <3>2. CASE ~ (i = 0 \/ j = 0)
      <4>1. /\ i - 1 \in 0..m /\ j - 1 \in 0..n /\ (i - 1) + j <= s /\ i + (j - 1) <= s
            /\ (i - 1) + (j - 1) <= s
        BY <2>2, <3>2
      <4>2. /\ D[<<i - 1, j>>] = E[<<i - 1, j>>] /\ D[<<i, j - 1>>] = E[<<i, j - 1>>]
            /\ D[<<i - 1, j - 1>>] = E[<<i - 1, j - 1>>]
        BY <2>1, <4>1
      <4>3. D[<<i, j>>] = Lower(1 + Lower(D[<<i - 1, j>>], D[<<i, j - 1>>]),
                                D[<<i - 1, j - 1>>] + Cost(u, v, i, j))
        BY <1>1, <1>5, <3>2
      <4>4. E[<<i, j>>] = Lower(1 + Lower(E[<<i - 1, j>>], E[<<i, j - 1>>]),
                                E[<<i - 1, j - 1>>] + Cost(u, v, i, j))
        BY <1>3, <1>5, <3>2
      <4> QED BY <4>2, <4>3, <4>4
    <3> QED BY <3>1, <3>2
  <2> QED BY <2>2 DEF T
<1> HIDE DEF T
<1>8. \A s \in Nat : s \in T
  BY <1>6, <1>7, NatSet
<1>9. ASSUME NEW x \in Cells(u, v) PROVE D[x] = E[x]
  <2>1. PICK i \in 0..m, j \in 0..n : x = <<i, j>>
    BY <1>4 DEF Cells
  <2>2. i + j \in Nat /\ i + j <= i + j
    OBVIOUS
  <2>3. i + j \in T
    BY <1>8, <2>2
  <2> QED BY <2>1, <2>2, <2>3 DEF T
<1>10. D = [x \in Cells(u, v) |-> D[x]]
  BY <1>1 DEF Distances
<1>11. D \in [Cells(u, v) -> Nat]
  BY <1>9, <1>10
<1> QED BY <1>1, <1>2, <1>11

\* Word x is u with a bytes in front.
Behind(x, u, a) ==
    /\ Len(u) \in Nat /\ Len(x) = Len(u) + a
    /\ \A i \in 1..Len(u) : x[i + a] = u[i]

\* D is the table of u and v, and E that of x and y.
Aligned(D, E, u, v, x, y, a, b) ==
    /\ a \in Nat /\ b \in Nat /\ Behind(x, u, a) /\ Behind(y, v, b)
    /\ Distances(D, u, v) /\ Distances(E, x, y)

\* The two tables agree on the cells of the smaller one.
SameCells(D, E, u, v) == \A k \in 0..Len(u), l \in 0..Len(v) : E[<<k, l>>] = D[<<k, l>>]

\* What stands in front of two words does not matter to the table of the words.
LEMMA Shifted ==
    ASSUME NEW u, NEW v, NEW x, NEW y, NEW a, NEW b, NEW D, NEW E,
           Aligned(D, E, u, v, x, y, a, b)
    PROVE  SameCells(D, E, u, v)
<1>0. /\ a \in Nat /\ b \in Nat /\ Behind(x, u, a) /\ Behind(y, v, b)
      /\ Distances(D, u, v) /\ Distances(E, x, y)
  BY DEF Aligned
<1>1. PICK m \in Nat, n \in Nat : m = Len(u) /\ n = Len(v) /\ Len(x) = m + a /\ Len(y) = n + b
  BY <1>0 DEF Behind
<1>2. ASSUME NEW i \in 1..m, NEW j \in 1..n PROVE Cost(x, y, i, j) = Cost(u, v, i, j)
  <2>1. m + 1 - i \in 1..m /\ (m + 1 - i) + a = (m + a) + 1 - i
    BY <1>0
  <2>2. n + 1 - j \in 1..n /\ (n + 1 - j) + b = (n + b) + 1 - j
    BY <1>0
  <2>3. x[(m + 1 - i) + a] = u[m + 1 - i]
    BY <1>0, <1>1, <2>1 DEF Behind
  <2>4. y[(n + 1 - j) + b] = v[n + 1 - j]
    BY <1>0, <1>1, <2>2 DEF Behind
  <2> QED BY <1>1, <2>1, <2>2, <2>3, <2>4 DEF Cost
<1> DEFINE T == {s \in Nat : \A i \in 0..m, j \in 0..n : i + j <= s => E[<<i, j>>] = D[<<i, j>>]}
<1>3. ASSUME NEW i \in 0..m, NEW j \in 0..n
      PROVE  D[<<i, j>>] = IF i = 0 \/ j = 0 THEN i + j
                           ELSE Lower(1 + Lower(D[<<i - 1, j>>], D[<<i, j - 1>>]),
                                      D[<<i - 1, j - 1>>] + Cost(u, v, i, j))
  BY <1>0, <1>1, CellValue
<1>4. ASSUME NEW i \in 0..m, NEW j \in 0..n
      PROVE  E[<<i, j>>] = IF i = 0 \/ j = 0 THEN i + j
                           ELSE Lower(1 + Lower(E[<<i - 1, j>>], E[<<i, j - 1>>]),
                                      E[<<i - 1, j - 1>>] + Cost(x, y, i, j))
  <2>1. i \in 0..Len(x) /\ j \in 0..Len(y) /\ Len(x) \in Nat /\ Len(y) \in Nat
    BY <1>0, <1>1
  <2> QED BY <1>0, <2>1, CellValue
<1>5. 0 \in T
  <2>1. ASSUME NEW i \in 0..m, NEW j \in 0..n, i + j <= 0 PROVE E[<<i, j>>] = D[<<i, j>>]
    <3>1. i = 0 \/ j = 0
      BY <2>1
    <3> QED BY <1>3, <1>4, <3>1
  <2> QED BY <2>1
<1>6. ASSUME NEW s \in Nat, s \in T PROVE s + 1 \in T
  <2>1. \A i \in 0..m, j \in 0..n : i + j <= s => E[<<i, j>>] = D[<<i, j>>]
    BY <1>6
  <2> HIDE DEF T
  <2>2. ASSUME NEW i \in 0..m, NEW j \in 0..n, i + j <= s + 1 PROVE E[<<i, j>>] = D[<<i, j>>]
    <3>1. CASE i = 0 \/ j = 0
      BY <1>3, <1>4, <3>1
    <3>2. CASE ~ (i = 0 \/ j = 0)
      <4>1. /\ i - 1 \in 0..m /\ j - 1 \in 0..n /\ (i - 1) + j <= s /\ i + (j - 1) <= s
            /\ (i - 1) + (j - 1) <= s
        BY <2>2, <3>2
      <4>2. /\ E[<<i - 1, j>>] = D[<<i - 1, j>>] /\ E[<<i, j - 1>>] = D[<<i, j - 1>>]
            /\ E[<<i - 1, j - 1>>] = D[<<i - 1, j - 1>>]
        BY <2>1, <4>1
      <4>3. D[<<i, j>>] = Lower(1 + Lower(D[<<i - 1, j>>], D[<<i, j - 1>>]),
                                D[<<i - 1, j - 1>>] + Cost(u, v, i, j))
        BY <1>3, <3>2
      <4>4. E[<<i, j>>] = Lower(1 + Lower(E[<<i - 1, j>>], E[<<i, j - 1>>]),
                                E[<<i - 1, j - 1>>] + Cost(x, y, i, j))
        BY <1>4, <3>2
      <4>5. Cost(x, y, i, j) = Cost(u, v, i, j)
        <5>1. i \in 1..m /\ j \in 1..n
          BY <3>2
        <5> QED BY <1>2, <5>1
      <4> QED BY <4>2, <4>3, <4>4, <4>5
    <3> QED BY <3>1, <3>2
  <2> QED BY <2>2 DEF T
<1> HIDE DEF T
<1>7. \A s \in Nat : s \in T
  BY <1>5, <1>6, NatSet
<1>8. ASSUME NEW k \in 0..m, NEW l \in 0..n PROVE E[<<k, l>>] = D[<<k, l>>]
  <2>1. k + l \in Nat /\ k + l <= k + l
    OBVIOUS
  <2>2. k + l \in T
    BY <1>7, <2>1
  <2> QED BY <2>1, <2>2 DEF T
<1> QED BY <1>1, <1>8 DEF SameCells

\* An edit in front of two words adds one to their distance at most, and a byte
\* that both have in front adds nothing.
LEMMA EditInFront ==
    ASSUME NEW u, NEW v, NEW x, NEW y, NEW a \in 0..1, NEW b \in 0..1, a + b # 0,
           Behind(x, u, a), Behind(y, v, b)
    PROVE  /\ Abstract!Distance(x, y) \in Nat /\ Abstract!Distance(u, v) \in Nat
           /\ Abstract!Distance(x, y) <= Abstract!Distance(u, v) + 1
           /\ a = 1 /\ b = 1 /\ x[1] = y[1]
                => Abstract!Distance(x, y) <= Abstract!Distance(u, v)
<1>1. PICK m \in Nat, n \in Nat : m = Len(u) /\ n = Len(v) /\ Len(x) = m + a /\ Len(y) = n + b
  BY DEF Behind
<1>2. Len(u) \in Nat /\ Len(v) \in Nat /\ Len(x) \in Nat /\ Len(y) \in Nat
  BY <1>1
<1>3. PICK D \in [Cells(u, v) -> Nat] :
        Distances(D, u, v) /\ Abstract!Distance(u, v) = D[<<Len(u), Len(v)>>]
  BY <1>2, DistanceTable
<1>4. PICK E \in [Cells(x, y) -> Nat] :
        Distances(E, x, y) /\ Abstract!Distance(x, y) = E[<<Len(x), Len(y)>>]
  BY <1>2, DistanceTable
<1>5. PICK d \in Nat : d = D[<<m, n>>]
  <2>1. <<m, n>> \in Cells(u, v)
    BY <1>1 DEF Cells
  <2> QED BY <2>1
<1>6. E[<<m, n>>] = d
  <2>1. m \in 0..Len(u) /\ n \in 0..Len(v) /\ a \in Nat /\ b \in Nat
    BY <1>1
  <2>2. Aligned(D, E, u, v, x, y, a, b)
    BY <1>3, <1>4, <2>1 DEF Aligned
  <2>3. SameCells(D, E, u, v)
    BY <2>2, Shifted
  <2> QED BY <1>5, <2>1, <2>3 DEF SameCells
<1>7. ASSUME NEW i \in 0..(m + a), NEW j \in 0..(n + b)
      PROVE  /\ E[<<i, j>>] \in Nat
             /\ E[<<i, j>>] = IF i = 0 \/ j = 0 THEN i + j
                              ELSE Lower(1 + Lower(E[<<i - 1, j>>], E[<<i, j - 1>>]),
                                         E[<<i - 1, j - 1>>] + Cost(x, y, i, j))
  <2>0. <<i, j>> \in Cells(x, y)
    BY <1>1 DEF Cells
  <2>1. E[<<i, j>>] \in Nat
    BY <2>0
  <2>2. PICK k \in 0..Len(x), l \in 0..Len(y) : k = i /\ l = j
    BY <1>1
  <2>3. Distances(E, x, y)
    BY <1>4
  <2>4. E[<<k, l>>] = IF k = 0 \/ l = 0 THEN k + l
                      ELSE Lower(1 + Lower(E[<<k - 1, l>>], E[<<k, l - 1>>]),
                                 E[<<k - 1, l - 1>>] + Cost(x, y, k, l))
    BY <1>2, <2>3, CellValue
  <2> QED BY <2>1, <2>2, <2>4
<1>14. \A i \in 0..(m + a), j \in 0..(n + b) : i = 0 \/ j = 0 => E[<<i, j>>] = i + j
  BY <1>7
<1>8. PICK e \in Nat : e = E[<<m + a, n + b>>]
  <2>1. m + a \in 0..(m + a) /\ n + b \in 0..(n + b)
    OBVIOUS
  <2>2. PICK i \in 0..(m + a), j \in 0..(n + b) : i = m + a /\ j = n + b
    BY <2>1
  <2>3. E[<<i, j>>] \in Nat
    BY <1>7
  <2> QED BY <2>2, <2>3
<1>9. Abstract!Distance(u, v) = d /\ Abstract!Distance(x, y) = e
  BY <1>1, <1>3, <1>4, <1>5, <1>8
<1>10. CASE a = 1 /\ b = 1
  <2>1. /\ m + 1 \in 0..(m + a) /\ n + 1 \in 0..(n + b) /\ m \in 0..(m + a) /\ n \in 0..(n + b)
        /\ m + 1 # 0 /\ n + 1 # 0 /\ (m + 1) - 1 = m /\ (n + 1) - 1 = n
    BY <1>10
  <2>2. e = Lower(1 + Lower(E[<<m, n + 1>>], E[<<m + 1, n>>]), d + Cost(x, y, m + 1, n + 1))
    BY <1>6, <1>7, <1>8, <1>10, <2>1
  <2>3. PICK f \in Nat, g \in Nat : f = E[<<m, n + 1>>] /\ g = E[<<m + 1, n>>]
    BY <1>7, <2>1
  <2>4. Cost(x, y, m + 1, n + 1) \in 0..1
    BY DEF Cost
  <2>5. x[1] = y[1] => Cost(x, y, m + 1, n + 1) = 0
    BY <1>1, <1>10 DEF Cost
  <2>6. e <= d + Cost(x, y, m + 1, n + 1)
    BY <2>2, <2>3, <2>4 DEF Lower
  <2> QED BY <1>9, <2>4, <2>5, <2>6
<1>11. CASE a = 1 /\ b = 0
  <2>1. /\ m + 1 \in 0..(m + a) /\ n \in 0..(n + b) /\ m \in 0..(m + a) /\ n + b = n
        /\ m + 1 # 0 /\ (m + 1) - 1 = m
    BY <1>11
  <2>2. CASE n = 0
    <3>1. e = m + 1 /\ d = m
      <4>1. E[<<m + 1, n>>] = (m + 1) + n
        BY <1>14, <2>1, <2>2
      <4>2. E[<<m, n>>] = m + n
        BY <1>14, <2>1, <2>2
      <4>3. e = E[<<m + 1, n>>]
        BY <1>8, <1>11, <2>1
      <4> QED BY <1>6, <2>2, <4>1, <4>2, <4>3
    <3> QED BY <1>9, <1>11, <3>1
  <2>3. CASE n # 0
    <3>1. n - 1 \in 0..(n + b)
      BY <1>11, <2>3
    <3>2. e = Lower(1 + Lower(d, E[<<m + 1, n - 1>>]), E[<<m, n - 1>>] + Cost(x, y, m + 1, n))
      BY <1>6, <1>7, <1>8, <1>11, <2>1, <2>3
    <3>3. PICK f \in Nat, g \in Nat : f = E[<<m + 1, n - 1>>] /\ g = E[<<m, n - 1>>]
      BY <1>7, <2>1, <3>1
    <3>4. Cost(x, y, m + 1, n) \in 0..1
      BY DEF Cost
    <3>5. e <= d + 1
      BY <3>2, <3>3, <3>4 DEF Lower
    <3> QED BY <1>9, <1>11, <3>5
  <2> QED BY <2>2, <2>3
<1>12. CASE a = 0 /\ b = 1
  <2>1. /\ n + 1 \in 0..(n + b) /\ m \in 0..(m + a) /\ n \in 0..(n + b) /\ m + a = m
        /\ n + 1 # 0 /\ (n + 1) - 1 = n
    BY <1>12
  <2>2. CASE m = 0
    <3>1. e = n + 1 /\ d = n
      <4>1. E[<<m, n + 1>>] = m + (n + 1)
        BY <1>14, <2>1, <2>2
      <4>2. E[<<m, n>>] = m + n
        BY <1>14, <2>1, <2>2
      <4>3. e = E[<<m, n + 1>>]
        BY <1>8, <1>12, <2>1
      <4> QED BY <1>6, <2>2, <4>1, <4>2, <4>3
    <3> QED BY <1>9, <1>12, <3>1
  <2>3. CASE m # 0
    <3>1. m - 1 \in 0..(m + a)
      BY <1>12, <2>3
    <3>2. e = Lower(1 + Lower(E[<<m - 1, n + 1>>], d), E[<<m - 1, n>>] + Cost(x, y, m, n + 1))
      BY <1>6, <1>7, <1>8, <1>12, <2>1, <2>3
    <3>3. PICK f \in Nat, g \in Nat : f = E[<<m - 1, n + 1>>] /\ g = E[<<m - 1, n>>]
      BY <1>7, <2>1, <3>1
    <3>4. Cost(x, y, m, n + 1) \in 0..1
      BY DEF Cost
    <3>5. e <= d + 1
      BY <3>2, <3>3, <3>4 DEF Lower
    <3> QED BY <1>9, <1>12, <3>5
  <2> QED BY <2>2, <2>3
<1>13. (a = 1 /\ b = 1) \/ (a = 1 /\ b = 0) \/ (a = 0 /\ b = 1)
  OBVIOUS
<1> QED BY <1>10, <1>11, <1>12, <1>13

-----------------------------------------------------------------------------
(***************************************************************************)
(* Symbols and bytes.                                                      *)
(***************************************************************************)

\* Every id behind the separator's is that of a byte.
LEMMA IdTaken ==
    ASSUME NEW docs \in Seq(Seq(Bytes)), NEW cf \in BOOLEAN, NEW d \in 2..(Sigma(docs, cf) - 1)
    PROVE  \E x \in Bytes : ByteToId(docs, cf)[x] = d
<1> DEFINE P == Present(docs, cf)
           B(z) == Cardinality(Below(P, z))
           f == [z \in P |-> B(z)]
<1>1. P \in SUBSET (0..ByteMax) /\ ByteMax \in Nat
  BY PresentFacts, ByteAssumption
<1>2. IsFiniteSet(P)
  <2>1. IsFiniteSet(0..ByteMax)
    BY <1>1, FS_Interval
  <2> QED BY <1>1, <2>1, FS_Subset
<1>3. PICK k \in Nat : k = Cardinality(P)
  BY <1>2, FS_CardinalityType
<1>4. d \in 2..(2 + k - 1)
  BY <1>3 DEF Sigma
<1>5. ASSUME NEW z \in P PROVE B(z) \in 0..(k - 1) /\ \A v \in P : v < z => B(v) < B(z)
  <2>1. B(z) \in 0..(Cardinality(P) - 1)
    BY <1>1, BelowOrder
  <2>2. \A v \in P : v < z => B(v) < B(z)
    BY <1>1, BelowOrder
  <2> HIDE DEF P
  <2> QED BY <1>3, <2>1, <2>2
<1>6. ASSUME NEW z \in P PROVE ByteToId(docs, cf)[z] = 2 + B(z)
  <2>1. PICK e \in 1..Len(docs) : z \in {Fold(cf, docs[e][j]) : j \in 1..Len(docs[e])}
    BY DEF Present
  <2>2. PICK j \in 1..Len(docs[e]) : z = Fold(cf, docs[e][j])
    BY <2>1
  <2>3. docs[e][j] \in Bytes
    BY PresentFacts
  <2>4. Fold(cf, z) = z
    BY <2>2, <2>3, FoldLargest
  <2>5. z \in Bytes
    BY <1>1 DEF Bytes
  <2> QED BY <2>4, <2>5 DEF ByteToId, Below
<1>7. \A z \in P : z \in Bytes /\ z \in Nat
  BY <1>1 DEF Bytes
<1> HIDE DEF P, B
<1>8. f \in [P -> 0..(k - 1)]
  BY <1>5
<1>9. ASSUME NEW y \in P, NEW z \in P, f[y] = f[z] PROVE y = z
  <2>1. B(y) = B(z) /\ B(y) \in Nat
    BY <1>5, <1>9
  <2>2. ~ (y < z) /\ ~ (z < y)
    BY <1>5, <2>1
  <2> QED BY <1>7, <2>2
<1>10. f \in Injection(P, 0..(k - 1))
  BY <1>8, <1>9 DEF Injection, IsInjective
<1>11. IsFiniteSet(0..(k - 1)) /\ Cardinality(0..(k - 1)) = k
  <2>1. k - 1 \in Int /\ 0 \in Int
    OBVIOUS
  <2>2. /\ IsFiniteSet(0..(k - 1))
        /\ Cardinality(0..(k - 1)) = IF 0 > k - 1 THEN 0 ELSE (k - 1) - 0 + 1
    BY <2>1, FS_Interval
  <2>3. (IF 0 > k - 1 THEN 0 ELSE (k - 1) - 0 + 1) = k
    OBVIOUS
  <2> QED BY <2>2, <2>3
<1>12. f \in Surjection(P, 0..(k - 1))
  BY <1>2, <1>3, <1>10, <1>11, FS_Injection
<1>13. d - 2 \in 0..(k - 1)
  BY <1>4
<1>14. PICK z \in P : f[z] = d - 2
  BY <1>12, <1>13 DEF Surjection
<1>15. ByteToId(docs, cf)[z] = d
  BY <1>4, <1>6, <1>14
<1> QED BY <1>7, <1>15

-----------------------------------------------------------------------------
(***************************************************************************)
(* Words that dfs has reached.                                             *)
(***************************************************************************)

\* Word w of the text has rows lo to hi - 1 and is at most e edits away from
\* the bytes of p behind place i.
Word(w, p, lo, hi, i, e) ==
    LET c == corpus[1] IN
    /\ w \in Seq(Bytes) /\ Len(w) <= Len(p) - i + e
    /\ Interval(fm, w) = <<lo, hi>>
    /\ Abstract!Distance(Abstract!Folded(c, w), Abstract!Folded(c, SubSeq(p, i + 1, Len(p)))) <= e

\* Words of at most n bytes.
LEMMA WordsType ==
    ASSUME NEW n \in Nat, NEW w
    PROVE  w \in Words(n) <=> w \in Seq(Bytes) /\ Len(w) <= n
<1>1. ASSUME w \in Words(n) PROVE w \in Seq(Bytes) /\ Len(w) <= n
  <2>1. PICK m \in 0..n : w \in [1..m -> Bytes]
    BY <1>1 DEF Words
  <2>2. w \in Seq(Bytes)
    BY <2>1, TableSeq
  <2>3. Len(w) = m
    BY <2>1, <2>2
  <2> QED BY <2>2, <2>3
<1>2. ASSUME w \in Seq(Bytes), Len(w) <= n PROVE w \in Words(n)
  <2>1. Len(w) \in 0..n /\ w \in [1..Len(w) -> Bytes]
    BY <1>2
  <2> QED BY <2>1 DEF Words
<1> QED BY <1>1, <1>2

\* A call of dfs is reached by such a word.
LEMMA ReachedWord ==
    ASSUME NEW f, NEW p \in Seq(Bytes), p = req[1].p, f.i \in 0..Len(p), f.e \in Nat
    PROVE  Reached(f) <=> \E w : Word(w, p, f.lo, f.hi, f.i, f.e)
<1>1. PICK i \in 0..Len(p), e \in Nat : i = f.i /\ e = f.e
  OBVIOUS
<1> DEFINE v == SubSeq(p, i + 1, Len(p))
<1>2. Len(v) = Len(p) - i
  <2>1. i + 1 \in 1..(Len(p) + 1)
    OBVIOUS
  <2>2. Len(v) = Len(p) - (i + 1) + 1
    BY <2>1, SuffixFacts
  <2> HIDE DEF v
  <2> QED BY <2>2
<1>3. Len(v) + e \in Nat
  <2> HIDE DEF v
  <2> QED BY <1>2
<1>4. \A w : w \in Words(Len(v) + e) <=> w \in Seq(Bytes) /\ Len(w) <= Len(v) + e
  <2> HIDE DEF v
  <2> QED BY <1>3, WordsType
<1>5. Reached(f) <=> \E w \in Words(Len(v) + e) :
                       /\ Interval(fm, w) = <<f.lo, f.hi>>
                       /\ Abstract!Distance(Abstract!Folded(corpus[1], w),
                                            Abstract!Folded(corpus[1], v)) <= e
  BY <1>1 DEF Reached, Abstract!Within
<1>6. \A w : Word(w, p, f.lo, f.hi, f.i, f.e)
               <=> /\ w \in Seq(Bytes) /\ Len(w) <= Len(v) + e
                   /\ Interval(fm, w) = <<f.lo, f.hi>>
                   /\ Abstract!Distance(Abstract!Folded(corpus[1], w),
                                        Abstract!Folded(corpus[1], v)) <= e
  <2>1. \A w : w \in Seq(Bytes) => (Len(w) <= Len(p) - i + e <=> Len(w) <= Len(v) + e)
    <3> HIDE DEF v
    <3> QED BY <1>2
  <2> QED BY <1>1, <2>1 DEF Word
<1> HIDE DEF v
<1> QED BY <1>4, <1>5, <1>6

\* A byte in front of a word is a fold in front of its folds.
LEMMA FoldedBehind ==
    ASSUME NEW c, NEW u \in Seq(Bytes), NEW x \in Seq(Bytes), NEW a \in 0..1, Behind(x, u, a)
    PROVE  /\ Behind(Abstract!Folded(c, x), Abstract!Folded(c, u), a)
           /\ Len(x) # 0 => Abstract!Folded(c, x)[1] = Abstract!Fold(c.cf, x[1])
<1> DEFINE U == Abstract!Folded(c, u)
           X == Abstract!Folded(c, x)
<1>1. PICK m \in Nat, n \in Nat : m = Len(u) /\ n = Len(x) /\ n = m + a
  BY DEF Behind
<1>2. Len(U) = m /\ \A j \in 1..m : U[j] = Abstract!Fold(c.cf, u[j])
  BY <1>1 DEF Abstract!Folded
<1>3. Len(X) = n /\ \A j \in 1..n : X[j] = Abstract!Fold(c.cf, x[j])
  BY <1>1 DEF Abstract!Folded
<1> HIDE DEF U, X
<1>4. ASSUME NEW j \in 1..m PROVE X[j + a] = U[j]
  <2>1. j + a \in 1..n
    BY <1>1
  <2>2. x[j + a] = u[j]
    BY <1>1 DEF Behind
  <2> QED BY <1>2, <1>3, <2>1, <2>2
<1>5. Behind(X, U, a)
  BY <1>1, <1>2, <1>3, <1>4 DEF Behind
<1>6. n # 0 => X[1] = Abstract!Fold(c.cf, x[1])
  BY <1>3
<1> QED BY <1>1, <1>5, <1>6 DEF U, X

\* A byte in front of a word.
LEMMA ByteInFront ==
    ASSUME NEW w \in Seq(Bytes), NEW a \in Bytes
    PROVE  /\ <<a>> \o w \in Seq(Bytes) /\ Len(<<a>> \o w) = Len(w) + 1
           /\ (<<a>> \o w)[1] = a /\ Behind(<<a>> \o w, w, 1)
<1> DEFINE x == <<a>> \o w
<1>1. x \in Seq(Bytes) /\ Len(x) = Len(w) + 1 /\ x[1] = a
  OBVIOUS
<1>2. \A i \in 1..Len(w) : x[i + 1] = w[i]
  OBVIOUS
<1> HIDE DEF x
<1>3. Behind(x, w, 1)
  BY <1>1, <1>2 DEF Behind
<1> QED BY <1>1, <1>3 DEF x

\* The bytes of a pattern from a place on, and from the next one on.
LEMMA PatternBehind ==
    ASSUME NEW p \in Seq(Bytes), NEW i \in 1..Len(p)
    PROVE  /\ SubSeq(p, i, Len(p)) \in Seq(Bytes) /\ SubSeq(p, i + 1, Len(p)) \in Seq(Bytes)
           /\ SubSeq(p, i, Len(p))[1] = p[i] /\ Len(SubSeq(p, i, Len(p))) # 0
           /\ Behind(SubSeq(p, i, Len(p)), SubSeq(p, i + 1, Len(p)), 1)
<1> DEFINE v == SubSeq(p, i, Len(p))
           u == SubSeq(p, i + 1, Len(p))
<1>1. PICK n \in Nat : n = Len(p)
  OBVIOUS
<1>2. i \in 1..(Len(p) + 1) /\ i + 1 \in 1..(Len(p) + 1)
  OBVIOUS
<1>3. /\ v \in Seq(Bytes) /\ Len(v) = Len(p) - i + 1
      /\ \A j \in 1..(Len(p) - i + 1) : v[j] = p[i + j - 1]
  BY <1>2, SuffixFacts
<1>4. /\ u \in Seq(Bytes) /\ Len(u) = Len(p) - (i + 1) + 1
      /\ \A j \in 1..(Len(p) - (i + 1) + 1) : u[j] = p[(i + 1) + j - 1]
  BY <1>2, SuffixFacts
<1> HIDE DEF u, v
<1>5. v[1] = p[i] /\ Len(v) # 0
  <2>1. 1 \in 1..(Len(p) - i + 1) /\ i + 1 - 1 = i
    BY <1>1
  <2>2. v[1] = p[i + 1 - 1]
    BY <1>3, <2>1
  <2> QED BY <1>1, <1>3, <2>1, <2>2
<1>6. ASSUME NEW j \in 1..Len(u) PROVE v[j + 1] = u[j]
  <2>1. /\ j \in 1..(Len(p) - (i + 1) + 1) /\ j + 1 \in 1..(Len(p) - i + 1)
        /\ i + (j + 1) - 1 = (i + 1) + j - 1
    BY <1>1, <1>4
  <2>2. v[j + 1] = p[i + (j + 1) - 1]
    BY <1>3, <2>1
  <2>3. u[j] = p[(i + 1) + j - 1]
    BY <1>4, <2>1
  <2> QED BY <2>1, <2>2, <2>3
<1>7. Behind(v, u, 1)
  BY <1>1, <1>3, <1>4, <1>6 DEF Behind
<1> QED BY <1>3, <1>4, <1>5, <1>7 DEF u, v

-----------------------------------------------------------------------------
(***************************************************************************)
(* An edit more, in the word, in the pattern or in both.                   *)
(***************************************************************************)

\* The edits of a word and of the pattern, by what is put in front of each.
LEMMA FoldedDistance ==
    ASSUME NEW c, NEW u \in Seq(Bytes), NEW x \in Seq(Bytes),
           NEW v \in Seq(Bytes), NEW y \in Seq(Bytes),
           NEW a \in 0..1, NEW b \in 0..1, a + b # 0, Behind(x, u, a), Behind(y, v, b),
           NEW e \in Nat, Abstract!Distance(Abstract!Folded(c, u), Abstract!Folded(c, v)) <= e
    PROVE  /\ Abstract!Distance(Abstract!Folded(c, x), Abstract!Folded(c, y)) <= e + 1
           /\ a = 1 /\ b = 1 /\ x[1] = y[1]
                => Abstract!Distance(Abstract!Folded(c, x), Abstract!Folded(c, y)) <= e
<1>1. /\ Behind(Abstract!Folded(c, x), Abstract!Folded(c, u), a)
      /\ Behind(Abstract!Folded(c, y), Abstract!Folded(c, v), b)
  BY FoldedBehind
<1>2. a = 1 /\ b = 1 /\ x[1] = y[1] => Abstract!Folded(c, x)[1] = Abstract!Folded(c, y)[1]
  <2> SUFFICES ASSUME a = 1, b = 1, x[1] = y[1]
               PROVE  Abstract!Folded(c, x)[1] = Abstract!Folded(c, y)[1]
    OBVIOUS
  <2>1. Len(x) # 0 /\ Len(y) # 0
    BY DEF Behind
  <2>2. Abstract!Folded(c, x)[1] = Abstract!Fold(c.cf, x[1])
    BY <2>1, FoldedBehind
  <2>3. Abstract!Folded(c, y)[1] = Abstract!Fold(c.cf, y[1])
    BY <2>1, FoldedBehind
  <2> QED BY <2>2, <2>3
<1>3. PICK U, V, X, Y : /\ U = Abstract!Folded(c, u) /\ V = Abstract!Folded(c, v)
                        /\ X = Abstract!Folded(c, x) /\ Y = Abstract!Folded(c, y)
  OBVIOUS
<1>4. Behind(X, U, a) /\ Behind(Y, V, b)
  BY <1>1, <1>3
<1>5. /\ Abstract!Distance(X, Y) \in Nat /\ Abstract!Distance(U, V) \in Nat
      /\ Abstract!Distance(X, Y) <= Abstract!Distance(U, V) + 1
      /\ a = 1 /\ b = 1 /\ X[1] = Y[1] => Abstract!Distance(X, Y) <= Abstract!Distance(U, V)
  BY <1>4, EditInFront
<1>6. PICK d \in Nat, g \in Nat : d = Abstract!Distance(U, V) /\ g = Abstract!Distance(X, Y)
  BY <1>5
<1>7. d <= e /\ g <= d + 1
  BY <1>3, <1>5, <1>6
<1>8. g <= e + 1
  BY <1>7
<1>9. a = 1 /\ b = 1 /\ x[1] = y[1] => g <= d
  BY <1>2, <1>3, <1>5, <1>6
<1>10. a = 1 /\ b = 1 /\ x[1] = y[1] => g <= e
  BY <1>7, <1>9
<1> QED BY <1>3, <1>6, <1>8, <1>10

\* A pattern byte is skipped.
LEMMA WordSkips ==
    ASSUME NEW w, NEW p \in Seq(Bytes), NEW lo, NEW hi, NEW i \in 1..Len(p), NEW e \in Nat,
           Word(w, p, lo, hi, i, e)
    PROVE  Word(w, p, lo, hi, i - 1, e + 1)
<1> DEFINE c == corpus[1]
           v == SubSeq(p, i + 1, Len(p))
           y == SubSeq(p, i, Len(p))
<1>1. /\ w \in Seq(Bytes) /\ Len(w) <= Len(p) - i + e /\ Interval(fm, w) = <<lo, hi>>
      /\ Abstract!Distance(Abstract!Folded(c, w), Abstract!Folded(c, v)) <= e
  BY DEF Word
<1>2. v \in Seq(Bytes) /\ y \in Seq(Bytes) /\ Behind(y, v, 1)
  BY PatternBehind
<1>3. Behind(w, w, 0)
  BY <1>1 DEF Behind
<1>4. SubSeq(p, (i - 1) + 1, Len(p)) = y
  <2>1. (i - 1) + 1 = i
    OBVIOUS
  <2> QED BY <2>1, Zenon
<1>5. Len(w) <= Len(p) - (i - 1) + (e + 1)
  BY <1>1
<1> HIDE DEF v, y
<1>6. Abstract!Distance(Abstract!Folded(c, w), Abstract!Folded(c, y)) <= e + 1
  <2>1. 0 \in 0..1 /\ 1 \in 0..1 /\ 0 + 1 # 0
    OBVIOUS
  <2> QED BY <1>1, <1>2, <1>3, <2>1, FoldedDistance
<1> QED BY <1>1, <1>4, <1>5, <1>6 DEF Word

\* A byte of the text is put in, replaces a pattern byte, or is that byte.
LEMMA WordGrows ==
    ASSUME ObjectHolds, Valid(fm),
           NEW w, NEW p \in Seq(Bytes), NEW lo \in 0..M(fm), NEW hi \in 0..M(fm), lo < hi,
           NEW i \in 0..Len(p), NEW e \in Nat, Word(w, p, lo, hi, i, e),
           NEW a \in Bytes, NEW d \in 0..(fm.sigma_ - 1), d = fm.byte_to_id_[a],
           NEW nlo, nlo = Extend(fm, d, lo), NEW nhi, nhi = Extend(fm, d, hi), nlo < nhi
    PROVE  /\ Word(<<a>> \o w, p, nlo, nhi, i, e + 1)
           /\ i # 0 => Word(<<a>> \o w, p, nlo, nhi, i - 1, e + 1)
           /\ i # 0 /\ a = p[i] => Word(<<a>> \o w, p, nlo, nhi, i - 1, e)
<1> DEFINE c == corpus[1]
           v == SubSeq(p, i + 1, Len(p))
           y == SubSeq(p, i, Len(p))
           x == <<a>> \o w
<1>1. /\ w \in Seq(Bytes) /\ Len(w) <= Len(p) - i + e /\ Interval(fm, w) = <<lo, hi>>
      /\ Abstract!Distance(Abstract!Folded(c, w), Abstract!Folded(c, v)) <= e
  BY DEF Word
<1>2. x \in Seq(Bytes) /\ Len(x) = Len(w) + 1 /\ x[1] = a /\ Behind(x, w, 1)
  BY <1>1, ByteInFront
<1>3. v \in Seq(Bytes) /\ Behind(v, v, 0)
  <2>1. i + 1 \in 1..(Len(p) + 1)
    OBVIOUS
  <2>2. v \in Seq(Bytes)
    BY <2>1, SuffixFacts
  <2> HIDE DEF v
  <2> QED BY <2>2 DEF Behind
<1> HIDE DEF v, x
<1>4. Interval(fm, x) = <<nlo, nhi>>
  <2>1. OneMore(x, w)
    BY <1>2 DEF Behind, OneMore
  <2>2. d = fm.byte_to_id_[x[1]]
    BY <1>2
  <2>3. Extend(fm, d, lo) < Extend(fm, d, hi)
    OBVIOUS
  <2>4. Interval(fm, x) = <<Extend(fm, d, lo), Extend(fm, d, hi)>>
    <3>1. w \in Seq(Bytes) /\ x \in Seq(Bytes) /\ Interval(fm, w) = <<lo, hi>>
      BY <1>1, <1>2
    <3> HIDE DEF y, c
    <3> QED BY <2>1, <2>2, <2>3, <3>1, Prefixed
  <2> QED BY <2>4
<1>5. Len(w) \in Nat /\ Len(p) \in Nat
  BY <1>1
<1>6. 0 \in 0..1 /\ 1 \in 0..1 /\ 1 + 0 # 0 /\ 1 + 1 # 0
  OBVIOUS
<1>7. Word(x, p, nlo, nhi, i, e + 1)
  <2>1. Abstract!Distance(Abstract!Folded(c, x), Abstract!Folded(c, v)) <= e + 1
    BY <1>1, <1>2, <1>3, <1>6, FoldedDistance
  <2>2. Len(x) <= Len(p) - i + (e + 1)
    BY <1>1, <1>2, <1>5
  <2> QED BY <1>2, <1>4, <2>1, <2>2 DEF Word, v
<1>8. ASSUME i # 0
      PROVE  /\ Word(x, p, nlo, nhi, i - 1, e + 1)
             /\ a = p[i] => Word(x, p, nlo, nhi, i - 1, e)
  <2>1. i \in 1..Len(p)
    BY <1>8
  <2>2. y \in Seq(Bytes) /\ Behind(y, v, 1) /\ y[1] = p[i]
    BY <2>1, PatternBehind DEF v
  <2>3. SubSeq(p, (i - 1) + 1, Len(p)) = y
    <3>1. (i - 1) + 1 = i
      OBVIOUS
    <3> QED BY <3>1, Zenon
  <2> HIDE DEF y
  <2>4. /\ Abstract!Distance(Abstract!Folded(c, x), Abstract!Folded(c, y)) <= e + 1
        /\ x[1] = y[1] => Abstract!Distance(Abstract!Folded(c, x), Abstract!Folded(c, y)) <= e
    BY <1>1, <1>2, <1>3, <1>6, <2>2, FoldedDistance
  <2>5. Len(x) <= Len(p) - (i - 1) + e /\ Len(x) <= Len(p) - (i - 1) + (e + 1)
    <3>1. PICK k \in Nat, m \in Nat : k = Len(w) /\ m = Len(p)
      BY <1>5
    <3>2. k <= m - i + e /\ Len(x) = k + 1 /\ i \in Int
      BY <1>1, <1>2, <3>1
    <3> QED BY <3>1, <3>2
  <2>6. Word(x, p, nlo, nhi, i - 1, e + 1)
    BY <1>2, <1>4, <2>3, <2>4, <2>5 DEF Word
  <2>7. a = p[i] => Word(x, p, nlo, nhi, i - 1, e)
    BY <1>2, <1>4, <2>2, <2>3, <2>4, <2>5 DEF Word
  <2> QED BY <2>6, <2>7
<1> QED BY <1>7, <1>8 DEF x

-----------------------------------------------------------------------------
(***************************************************************************)
(* The calls that dfs makes.                                               *)
(***************************************************************************)

\* The calls dfs makes at f, by what they are made for.
CallOf(f, d, i, e) ==
    Follow([lo |-> Extend(fm, d, f.lo), hi |-> Extend(fm, d, f.hi), i |-> i, e |-> e])
Skip(f) == [f EXCEPT !.i = @ - 1, !.e = @ + 1]
PatternId(f) == fm.byte_to_id_[req[1].p[f.i]]
SymbolCalls(f, d) ==
    IF d \notin Symbols THEN <<>>
    ELSE CallOf(f, d, f.i - 1, IF PatternId(f) = d THEN f.e ELSE f.e + 1)
         \o CallOf(f, d, f.i, f.e + 1)

\* The table of the calls for the first symbols.
CallTable(g, f) ==
    g = [d \in 0..(fm.sigma_ - 1) |->
           IF d = 0 THEN <<Skip(f)>> ELSE g[d - 1] \o SymbolCalls(f, d)]
AllCalls(f) == (CHOOSE g : CallTable(g, f))[fm.sigma_ - 1]

\* A query for documents near a pattern.
FuzzyQuery ==
    /\ ObjectHolds /\ Valid(fm) /\ req[1].p \in Seq(Bytes) /\ req[1].k \in Nat

\* A call for a word is made, or its interval has no rows.
LEMMA WordCall ==
    ASSUME FuzzyQuery, NEW w, NEW lo \in 0..M(fm), NEW hi \in 0..M(fm),
           NEW i \in 0..Len(req[1].p), NEW e \in 0..req[1].k,
           lo < hi => Word(w, req[1].p, lo, hi, i, e)
    PROVE  Follow([lo |-> lo, hi |-> hi, i |-> i, e |-> e]) \in Seq(DfsCalls)
<1> DEFINE g == [lo |-> lo, hi |-> hi, i |-> i, e |-> e]
<1>1. CASE ~ (lo < hi)
  <2>1. Follow(g) = <<>>
    BY <1>1 DEF Follow
  <2>2. <<>> \in Seq(DfsCalls)
    OBVIOUS
  <2> QED BY <2>1, <2>2
<1>2. CASE lo < hi
  <2>1. g.lo = lo /\ g.hi = hi /\ g.i = i /\ g.e = e
    OBVIOUS
  <2>2. g \in [lo : 0..M(fm), hi : 0..M(fm), i : 0..Len(req[1].p), e : 0..req[1].k]
    OBVIOUS
  <2> HIDE DEF g
  <2>3. e \in Nat
    BY DEF FuzzyQuery
  <2>4. Reached(g)
    <3>1. PICK p \in Seq(Bytes) : p = req[1].p
      BY DEF FuzzyQuery
    <3>2. g.i \in 0..Len(p) /\ g.e \in Nat
      BY <2>1, <2>3, <3>1
    <3>3. Word(w, p, g.lo, g.hi, g.i, g.e)
      BY <1>2, <2>1, <3>1
    <3> QED BY <3>1, <3>2, <3>3, ReachedWord
  <2>5. g \in DfsCalls
    BY <1>2, <2>1, <2>2, <2>4 DEF DfsCalls
  <2>6. Follow(g) = <<g>>
    BY <1>2, <2>1 DEF Follow
  <2>7. Follow(g) \in Seq(DfsCalls)
    BY <2>5, <2>6
  <2> QED BY <2>7 DEF g
<1> QED BY <1>1, <1>2

\* What is known of a call that is made.
LEMMA CallFacts ==
    ASSUME FuzzyQuery, NEW f \in DfsCalls
    PROVE  /\ f.lo \in 0..M(fm) /\ f.hi \in 0..M(fm) /\ f.lo < f.hi
           /\ f.i \in 0..Len(req[1].p) /\ f.e \in 0..req[1].k /\ f.e \in Nat
           /\ \E w : Word(w, req[1].p, f.lo, f.hi, f.i, f.e)
<1>1. /\ f.lo \in 0..M(fm) /\ f.hi \in 0..M(fm) /\ f.lo < f.hi
      /\ f.i \in 0..Len(req[1].p) /\ f.e \in 0..req[1].k /\ Reached(f)
  BY DEF DfsCalls
<1>2. f.e \in Nat
  BY <1>1 DEF FuzzyQuery
<1>3. PICK p \in Seq(Bytes) : p = req[1].p
  BY DEF FuzzyQuery
<1>4. \E w : Word(w, p, f.lo, f.hi, f.i, f.e)
  BY <1>1, <1>2, <1>3, ReachedWord
<1> QED BY <1>1, <1>2, <1>3, <1>4

\* The pattern byte is skipped at the price of an edit.
LEMMA SkipCall ==
    ASSUME FuzzyQuery, NEW f \in DfsCalls, f.i # 0, f.e < req[1].k
    PROVE  Skip(f) \in DfsCalls
<1>1. /\ f.lo \in 0..M(fm) /\ f.hi \in 0..M(fm) /\ f.lo < f.hi
      /\ f.i \in 0..Len(req[1].p) /\ f.e \in Nat
  BY CallFacts
<1>2. PICK w : Word(w, req[1].p, f.lo, f.hi, f.i, f.e)
  BY CallFacts
<1>3. PICK p \in Seq(Bytes) : p = req[1].p
  BY DEF FuzzyQuery
<1>4. PICK i \in 1..Len(p), e \in Nat : i = f.i /\ e = f.e
  BY <1>1, <1>3
<1>5. Word(w, p, f.lo, f.hi, i - 1, e + 1)
  BY <1>2, <1>3, <1>4, WordSkips
<1> DEFINE g == Skip(f)
<1>6. /\ f \in [lo : 0..M(fm), hi : 0..M(fm), i : 0..Len(req[1].p), e : 0..req[1].k]
  BY DEF DfsCalls
<1>7. i - 1 \in 0..Len(p) /\ e + 1 \in 0..req[1].k /\ e + 1 \in Nat
  BY <1>4 DEF FuzzyQuery
<1>8. g = [f EXCEPT !.i = i - 1, !.e = e + 1]
  BY <1>4 DEF Skip
<1>9. /\ g \in [lo : 0..M(fm), hi : 0..M(fm), i : 0..Len(req[1].p), e : 0..req[1].k]
      /\ g.lo = f.lo /\ g.hi = f.hi /\ g.i = i - 1 /\ g.e = e + 1
  BY <1>3, <1>6, <1>7, <1>8
<1> HIDE DEF g
<1>10. Reached(g)
  <2>1. g.i \in 0..Len(p) /\ g.e \in Nat /\ Word(w, p, g.lo, g.hi, g.i, g.e)
    BY <1>5, <1>7, <1>9
  <2> QED BY <1>3, <2>1, ReachedWord
<1>11. g \in DfsCalls
  BY <1>1, <1>9, <1>10 DEF DfsCalls
<1> QED BY <1>11 DEF g

\* A symbol is put in, replaces a pattern byte, or is that byte.
LEMMA SymbolCall ==
    ASSUME FuzzyQuery, NEW f \in DfsCalls, f.i # 0, NEW d \in 2..(fm.sigma_ - 1)
    PROVE  /\ f.e < req[1].k => /\ CallOf(f, d, f.i, f.e + 1) \in Seq(DfsCalls)
                                /\ CallOf(f, d, f.i - 1, f.e + 1) \in Seq(DfsCalls)
           /\ PatternId(f) = d => CallOf(f, d, f.i - 1, f.e) \in Seq(DfsCalls)
<1>1. /\ f.lo \in 0..M(fm) /\ f.hi \in 0..M(fm) /\ f.lo < f.hi
      /\ f.i \in 0..Len(req[1].p) /\ f.e \in 0..req[1].k /\ f.e \in Nat
  BY CallFacts
<1>2. PICK w : Word(w, req[1].p, f.lo, f.hi, f.i, f.e)
  BY CallFacts
<1>3. PICK p \in Seq(Bytes) : p = req[1].p
  BY DEF FuzzyQuery
<1>4. PICK i \in 1..Len(p), e \in Nat, lo \in 0..M(fm), hi \in 0..M(fm) :
        i = f.i /\ e = f.e /\ lo = f.lo /\ hi = f.hi
  BY <1>1, <1>3
<1>5. ObjectHolds /\ Valid(fm) /\ req[1].k \in Nat
  BY DEF FuzzyQuery
<1>6. fm.sigma_ \in Nat
  <2>1. Serves(fm, Text, Array)
    BY <1>5, IndexServes
  <2> QED BY <2>1 DEF Serves, Ended
<1>7. PICK s \in 0..(fm.sigma_ - 1) : s = d
  BY <1>6
<1>8. PICK nlo \in 0..M(fm), nhi \in 0..M(fm) : nlo = Extend(fm, s, lo) /\ nhi = Extend(fm, s, hi)
  <2>1. Extend(fm, s, lo) \in 0..M(fm) /\ Extend(fm, s, hi) \in 0..M(fm)
    BY <1>5, ExtendType
  <2> QED BY <2>1
<1>9. i \in 0..Len(p) /\ i # 0 /\ i - 1 \in 0..Len(p)
  OBVIOUS
<1>10. ASSUME NEW a \in Bytes, s = fm.byte_to_id_[a], nlo < nhi
       PROVE  /\ Word(<<a>> \o w, p, nlo, nhi, i, e + 1)
              /\ Word(<<a>> \o w, p, nlo, nhi, i - 1, e + 1)
              /\ a = p[i] => Word(<<a>> \o w, p, nlo, nhi, i - 1, e)
  <2>1. Word(w, p, lo, hi, i, e) /\ lo < hi
    BY <1>1, <1>2, <1>3, <1>4
  <2> QED BY <1>5, <1>8, <1>9, <1>10, <2>1, WordGrows
<1>11. PICK a \in Bytes : s = fm.byte_to_id_[a]
  <2>1. fm # Fresh
    BY <1>5, FreshInvalid
  <2>2. PICK rate \in Nat \ {0} : fm = Built(corpus[1].docs, corpus[1].cf, rate)
    BY <1>5, <2>1 DEF ObjectHolds
  <2>3. PICK docs \in Seq(Seq(Bytes)), cf \in BOOLEAN : docs = corpus[1].docs /\ cf = corpus[1].cf
    BY <1>5, <2>1 DEF ObjectHolds, Documents
  <2>4. fm.byte_to_id_ = ByteToId(docs, cf) /\ fm.sigma_ = Sigma(docs, cf)
    BY <2>2, <2>3 DEF Built
  <2>5. PICK c \in 2..(Sigma(docs, cf) - 1) : c = s
    BY <1>7, <2>4
  <2>6. \E x \in Bytes : ByteToId(docs, cf)[x] = c
    BY IdTaken
  <2> QED BY <2>4, <2>5, <2>6
<1>12. ASSUME e < req[1].k
       PROVE  /\ CallOf(f, d, f.i, f.e + 1) \in Seq(DfsCalls)
              /\ CallOf(f, d, f.i - 1, f.e + 1) \in Seq(DfsCalls)
  <2>1. e + 1 \in 0..req[1].k
    BY <1>5, <1>12
  <2>2. PICK e1 \in 0..req[1].k, i1 \in 0..Len(req[1].p), i0 \in 0..Len(req[1].p) :
          e1 = e + 1 /\ i1 = i /\ i0 = i - 1
    BY <1>3, <1>9, <2>1
  <2>3. nlo < nhi => /\ Word(<<a>> \o w, req[1].p, nlo, nhi, i1, e1)
                     /\ Word(<<a>> \o w, req[1].p, nlo, nhi, i0, e1)
    BY <1>3, <1>10, <1>11, <2>2
  <2>4. /\ Follow([lo |-> nlo, hi |-> nhi, i |-> i1, e |-> e1]) \in Seq(DfsCalls)
        /\ Follow([lo |-> nlo, hi |-> nhi, i |-> i0, e |-> e1]) \in Seq(DfsCalls)
    BY <2>3, WordCall
  <2> QED BY <1>4, <1>7, <1>8, <2>2, <2>4 DEF CallOf
<1>13. ASSUME PatternId(f) = d
       PROVE  CallOf(f, d, f.i - 1, f.e) \in Seq(DfsCalls)
  <2>1. PICK b \in Bytes : b = p[i]
    OBVIOUS
  <2>2. s = fm.byte_to_id_[b]
    BY <1>3, <1>4, <1>7, <1>13, <2>1 DEF PatternId
  <2>3. PICK e0 \in 0..req[1].k, i0 \in 0..Len(req[1].p) : e0 = e /\ i0 = i - 1
    BY <1>1, <1>3, <1>4, <1>9
  <2>4. nlo < nhi => Word(<<b>> \o w, req[1].p, nlo, nhi, i0, e0)
    BY <1>3, <1>10, <2>1, <2>2, <2>3
  <2>5. Follow([lo |-> nlo, hi |-> nhi, i |-> i0, e |-> e0]) \in Seq(DfsCalls)
    BY <2>4, WordCall
  <2> QED BY <1>4, <1>7, <1>8, <2>3, <2>5 DEF CallOf
<1> QED BY <1>4, <1>12, <1>13

-----------------------------------------------------------------------------
(***************************************************************************)
(* FuzzyMatchingDocs.                                                      *)
(***************************************************************************)

\* The calls for a symbol of the text, with edits left.
LEMMA SymbolCallsType ==
    ASSUME FuzzyQuery, NEW f \in DfsCalls, f.i # 0, f.e < req[1].k, NEW d
    PROVE  SymbolCalls(f, d) \in Seq(DfsCalls)
<1>1. CASE d \notin Symbols
  <2>1. <<>> \in Seq(DfsCalls)
    OBVIOUS
  <2> QED BY <1>1, <2>1 DEF SymbolCalls
<1>2. CASE d \in Symbols
  <2>1. PICK c \in 2..(fm.sigma_ - 1) : c = d
    BY <1>2 DEF Symbols
  <2>2. /\ CallOf(f, c, f.i, f.e + 1) \in Seq(DfsCalls)
        /\ CallOf(f, c, f.i - 1, f.e + 1) \in Seq(DfsCalls)
        /\ PatternId(f) = c => CallOf(f, c, f.i - 1, f.e) \in Seq(DfsCalls)
    BY <2>1, SymbolCall
  <2>3. CallOf(f, d, f.i - 1, IF PatternId(f) = d THEN f.e ELSE f.e + 1) \in Seq(DfsCalls)
    BY <2>1, <2>2
  <2> QED BY <1>2, <2>1, <2>2, <2>3 DEF SymbolCalls
<1> QED BY <1>1, <1>2

\* All the calls, with edits left, are put together symbol by symbol.
LEMMA AllCallsTable ==
    ASSUME FuzzyQuery, NEW f \in DfsCalls, f.i # 0, f.e < req[1].k,
           NEW n \in Nat, n = fm.sigma_ - 1
    PROVE  \E t \in [0..n -> Seq(DfsCalls)] :
             /\ t[0] = <<Skip(f)>> /\ AllCalls(f) = t[n]
             /\ \A d \in 1..n : t[d] = t[d - 1] \o SymbolCalls(f, d)
<1> DEFINE V == Seq(DfsCalls)
<1>s. fm.sigma_ - 1 = n
  OBVIOUS
<1> DEFINE h == [d \in 1..n |-> [v \in V |-> v \o SymbolCalls(f, d)]]
<1>2. \A d : SymbolCalls(f, d) \in V
  BY SymbolCallsType
<1>3. <<Skip(f)>> \in V
  BY SkipCall
<1>4. ASSUME NEW d \in 1..n, NEW v \in V PROVE h[d][v] \in V
  BY <1>2
<1>5. PICK g : Recurs(g, n, V, <<Skip(f)>>, h)
  <2> HIDE DEF h, V
  <2> QED BY <1>3, <1>4, RecursionExists
<1>6. g \in [0..n -> V] /\ g[0] = <<Skip(f)>>
  BY <1>5 DEF Recurs
<1>7. ASSUME NEW d \in 0..n
      PROVE  g[d] = IF d = 0 THEN <<Skip(f)>> ELSE g[d - 1] \o SymbolCalls(f, d)
  <2>1. CASE d = 0
    BY <1>6, <2>1
  <2>2. CASE d # 0
    <3>1. d \in 1..n /\ d - 1 \in 0..n
      BY <2>2
    <3>2. g[d - 1] \in V
      BY <1>6, <3>1
    <3>3. g[d] = h[d][g[d - 1]]
      BY <1>5, <3>1 DEF Recurs
    <3> HIDE DEF V
    <3> QED BY <2>2, <3>1, <3>2, <3>3
  <2> QED BY <2>1, <2>2
<1> HIDE DEF h, V
<1>8. CallTable(g, f)
  <2>1. g = [d \in 0..n |-> g[d]]
    BY <1>6
  <2> QED BY <1>s, <1>7, <2>1 DEF CallTable
<1> DEFINE t == CHOOSE x : CallTable(x, f)
<1>9. CallTable(t, f)
  BY <1>8
<1> HIDE DEF t
<1>10. ASSUME NEW d \in 0..n
       PROVE  t[d] = IF d = 0 THEN <<Skip(f)>> ELSE t[d - 1] \o SymbolCalls(f, d)
  BY <1>s, <1>9 DEF CallTable
<1> DEFINE T == {d \in Nat : d <= n => t[d] \in V}
<1>11. 0 \in T
  BY <1>3, <1>10
<1>12. ASSUME NEW d \in Nat, d \in T PROVE d + 1 \in T
  <2> SUFFICES ASSUME d + 1 <= n PROVE t[d + 1] \in V
    OBVIOUS
  <2>1. d + 1 \in 0..n /\ d + 1 # 0 /\ (d + 1) - 1 = d /\ d <= n
    OBVIOUS
  <2>2. t[d] \in V
    BY <1>12, <2>1
  <2>3. t[d + 1] = t[d] \o SymbolCalls(f, d + 1)
    BY <1>10, <2>1
  <2>4. SymbolCalls(f, d + 1) \in V
    BY <1>2
  <2> HIDE DEF T
  <2> QED BY <2>2, <2>3, <2>4 DEF V
<1> HIDE DEF T
<1>13. \A d \in Nat : d \in T
  BY <1>11, <1>12, NatSet
<1>14. \A d \in 0..n : t[d] \in V
  BY <1>13 DEF T
<1>15. t \in [0..n -> V]
  <2>1. t = [d \in 0..n |-> IF d = 0 THEN <<Skip(f)>> ELSE t[d - 1] \o SymbolCalls(f, d)]
    BY <1>s, <1>9 DEF CallTable
  <2>2. ASSUME NEW d \in 0..n
        PROVE  (IF d = 0 THEN <<Skip(f)>> ELSE t[d - 1] \o SymbolCalls(f, d)) \in V
    BY <1>10, <1>14
  <2> DEFINE e(d) == IF d = 0 THEN <<Skip(f)>> ELSE t[d - 1] \o SymbolCalls(f, d)
  <2>3. t = [d \in 0..n |-> e(d)] /\ \A d \in 0..n : e(d) \in V
    BY <2>1, <2>2, Zenon
  <2> HIDE DEF V, e
  <2> QED BY <2>3
<1>16. t[0] = <<Skip(f)>>
  <2>1. 0 \in 0..n
    OBVIOUS
  <2> QED BY <1>10, <2>1
<1>18. ASSUME NEW d \in 1..n PROVE t[d] = t[d - 1] \o SymbolCalls(f, d)
  <2>1. PICK z \in 0..n : z = d /\ z # 0
    OBVIOUS
  <2>2. t[z] = t[z - 1] \o SymbolCalls(f, z)
    BY <1>10, <2>1
  <2> QED BY <2>1, <2>2
<1>17. AllCalls(f) = t[n]
  BY <1>s DEF AllCalls, t
<1> QED BY <1>15, <1>16, <1>17, <1>18 DEF V

\* With the budget not spent the calls are calls of dfs.
LEMMA AllCallsType ==
    ASSUME FuzzyQuery, NEW f \in DfsCalls, f.i # 0, f.e < req[1].k
    PROVE  AllCalls(f) \in Seq(DfsCalls)
<1>1. PICK n \in Nat : n = fm.sigma_ - 1
  <2>1. Serves(fm, Text, Array)
    BY IndexServes DEF FuzzyQuery
  <2> QED BY <2>1 DEF Serves, Ended
<1>2. PICK t \in [0..n -> Seq(DfsCalls)] : AllCalls(f) = t[n]
  BY <1>1, AllCallsTable
<1> HIDE DEF DfsCalls
<1> QED BY <1>2

\* Whatever dfs calls is a call for a word that was reached.
LEMMA CallsType ==
    ASSUME FuzzyQuery, NEW f \in DfsCalls, f.i # 0
    PROVE  Calls(f) \in Seq(DfsCalls)
<1>1. Calls(f) = IF f.e < req[1].k THEN AllCalls(f)
                 ELSE IF PatternId(f) < 0 THEN <<>> ELSE CallOf(f, PatternId(f), f.i - 1, f.e)
  BY DEF Calls, AllCalls, CallTable, SymbolCalls, CallOf, PatternId, Skip
<1>2. CASE f.e < req[1].k
  BY <1>1, <1>2, AllCallsType
<1>3. CASE ~ (f.e < req[1].k) /\ PatternId(f) < 0
  <2>1. <<>> \in Seq(DfsCalls)
    OBVIOUS
  <2> QED BY <1>1, <1>3, <2>1
<1>4. CASE ~ (f.e < req[1].k) /\ ~ (PatternId(f) < 0)
  <2>1. f.i \in 1..Len(req[1].p)
    <3>1. PICK n \in Nat : n = Len(req[1].p)
      BY DEF FuzzyQuery
    <3>2. f.i \in 0..n
      BY <3>1, CallFacts
    <3> QED BY <3>1, <3>2
  <2>2. PICK b \in Bytes : b = req[1].p[f.i]
    BY <2>1 DEF FuzzyQuery
  <2>3. PICK id : id = PatternId(f) /\ id = fm.byte_to_id_[b]
    BY <2>2 DEF PatternId
  <2>4. id \in Int /\ (id >= 0 => id \in 2..(fm.sigma_ - 1))
    BY <2>3, IdType DEF FuzzyQuery
  <2>5. id \in 2..(fm.sigma_ - 1)
    BY <1>4, <2>3, <2>4
  <2>6. CallOf(f, id, f.i - 1, f.e) \in Seq(DfsCalls)
    BY <2>3, <2>5, SymbolCall
  <2> QED BY <1>1, <1>4, <2>3, <2>6
<1> QED BY <1>2, <1>3, <1>4

\* FuzzyMatchingDocs is called: the first call is for the empty word.
LEMMA FuzzyStep == ASSUME IInv, FuzzyMatchingDocs PROVE IInv'
<1>1. /\ pc = "FuzzyMatchingDocs" /\ pc \notin {"idle", "done"} \cup Places
  BY DEF FuzzyMatchingDocs, Places
<1>2. req[1].op = "FuzzyMatchingDocs" /\ req[1] \in Requests /\ pc # "idle" /\ ObjectHolds
  BY <1>1, AtCall
<1>3. req[1].p \in Seq(Bytes) /\ req[1].k \in Nat
  BY <1>2, Arguments
<1>4. CASE ~ Valid(fm) \/ req[1].p = <<>>
  BY <1>2, <1>4, Responded DEF FuzzyMatchingDocs
<1>5. CASE ~ (~ Valid(fm) \/ req[1].p = <<>>)
  <2> DEFINE g == [lo |-> 0, hi |-> M(fm), i |-> Len(req[1].p), e |-> 0]
  <2>1. Go("dfs", [calls |-> <<g>>, visited |-> Nothing, hits |-> {}]) /\ Valid(fm)
    BY <1>5 DEF FuzzyMatchingDocs
  <2>2. FuzzyQuery
    BY <1>2, <1>3, <2>1 DEF FuzzyQuery
  <2>3. Serves(fm, Text, Array) /\ fm.text_len_ \in Nat /\ M(fm) = fm.text_len_ + 1
    BY <1>2, <2>1, IndexServes
  <2>4. PICK p \in Seq(Bytes), n \in Nat : p = req[1].p /\ n = Len(p)
    BY <1>3
  <2>5. Word(<<>>, p, 0, M(fm), n, 0)
    <3>1. Interval(fm, <<>>) = <<0, M(fm)>>
      BY <2>3, IntervalEmpty
    <3>2. SubSeq(p, n + 1, Len(p)) = <<>>
      <4>1. n + 1 \in Int /\ Len(p) \in Int /\ Len(p) < n + 1
        BY <2>4
      <4> QED BY <4>1, SubSeqEmpty, Zenon
    <3>3. PICK u : u = Abstract!Folded(corpus[1], <<>>)
      OBVIOUS
    <3>4. Len(u) = 0
      BY <3>3 DEF Abstract!Folded
    <3>5. Abstract!Distance(u, u) = 0
      <4>1. Len(u) \in Nat
        BY <3>4
      <4>2. PICK D : Distances(D, u, u) /\ Abstract!Distance(u, u) = D[<<Len(u), Len(u)>>]
        BY <4>1, DistanceTable
      <4>3. 0 \in 0..Len(u)
        BY <3>4
      <4>4. D[<<0, 0>>] = 0 + 0
        <5>1. Distances(D, u, u)
          BY <4>2
        <5>2. PICK i \in 0..Len(u), j \in 0..Len(u) : i = 0 /\ j = 0
          BY <4>3
        <5>3. D[<<i, j>>] = IF i = 0 \/ j = 0 THEN i + j
                            ELSE Lower(1 + Lower(D[<<i - 1, j>>], D[<<i, j - 1>>]),
                                       D[<<i - 1, j - 1>>] + Cost(u, u, i, j))
          BY <4>1, <5>1, CellValue
        <5> QED BY <5>2, <5>3
      <4> QED BY <3>4, <4>2, <4>4
    <3>6. <<>> \in Seq(Bytes) /\ Len(<<>>) <= Len(p) - n + 0
      <4>1. <<>> \in Seq(Bytes)
        OBVIOUS
      <4>2. Len(<<>>) = 0
        OBVIOUS
      <4>3. Len(p) - n + 0 = 0
        BY <2>4
      <4> QED BY <4>1, <4>2, <4>3
    <3>7. Abstract!Distance(Abstract!Folded(corpus[1], <<>>),
                            Abstract!Folded(corpus[1], SubSeq(p, n + 1, Len(p)))) <= 0
      <4>1. PICK z : z = SubSeq(p, n + 1, Len(p)) /\ z = <<>>
        BY <3>2
      <4>2. Abstract!Distance(Abstract!Folded(corpus[1], <<>>), Abstract!Folded(corpus[1], z)) = 0
        BY <3>3, <3>5, <4>1
      <4> QED BY <4>1, <4>2
    <3> QED BY <3>1, <3>6, <3>7 DEF Word
  <2>6. <<g>> \in Seq(DfsCalls)
    <3>1. 0 \in 0..M(fm) /\ M(fm) \in 0..M(fm) /\ 0 < M(fm)
      BY <2>3
    <3>2. n \in 0..Len(req[1].p) /\ 0 \in 0..req[1].k
      BY <1>3, <2>4
    <3>3. Word(<<>>, req[1].p, 0, M(fm), n, 0)
      BY <2>4, <2>5
    <3>4. Follow([lo |-> 0, hi |-> M(fm), i |-> n, e |-> 0]) \in Seq(DfsCalls)
      BY <2>2, <3>1, <3>2, <3>3, WordCall
    <3>5. Follow(g) = <<g>>
      BY <3>1 DEF Follow
    <3> QED BY <2>4, <3>4, <3>5
  <2>7. PICK l : l = [calls |-> <<g>>, visited |-> Nothing, hits |-> {}]
    OBVIOUS
  <2>8. l.calls \in Seq(DfsCalls) /\ DOMAIN l = {"calls", "visited", "hits"}
    BY <2>6, <2>7
  <2> HIDE DEF g
  <2>9. pc' = "dfs" /\ loc' = l /\ fm' = fm /\ corpus' = corpus /\ req' = req
    BY <2>1, <2>7 DEF Go
  <2>10. DfsCalls' = DfsCalls
    BY <2>9 DEF DfsCalls, Reached, M
  <2>11. FuzzyHolds'
    BY <2>8, <2>9, <2>10 DEF FuzzyHolds
  <2>12. QueryHolds'
    BY <2>9, <2>11 DEF QueryHolds, LongestHolds, CountHolds, WalksHold
  <2> QED BY <1>2, <2>1, <2>12, Went DEF OpOf, Places
<1> QED BY <1>4, <1>5

\* A call of dfs is made: it hits, is pruned, or puts its own calls in front.
LEMMA DfsStep == ASSUME IInv, Dfs PROVE IInv'
<1>1. pc = "dfs" /\ pc \in Places
  BY DEF Dfs, Places
<1>2. /\ pc # "idle" /\ req[1].op = "FuzzyMatchingDocs" /\ ObjectHolds /\ Valid(fm)
      /\ req[1] \in Requests
  BY <1>1, InPlace DEF OpOf
<1>3. FuzzyQuery
  BY <1>2, Arguments DEF FuzzyQuery
<1>4. /\ DOMAIN loc = {"calls", "visited", "hits"}
      /\ loc.calls \in Seq(DfsCalls) /\ loc.calls # <<>>
  BY <1>1 DEF IInv, QueryHolds, FuzzyHolds, Dfs
<1>5. PICK f \in DfsCalls, rest \in Seq(DfsCalls) : f = Head(loc.calls) /\ rest = Tail(loc.calls)
  <2>1. PICK q \in Seq(DfsCalls) : q = loc.calls /\ q # <<>>
    BY <1>4
  <2> HIDE DEF DfsCalls
  <2>2. Head(q) \in DfsCalls /\ Tail(q) \in Seq(DfsCalls)
    BY <2>1, HeadTailProperties
  <2> QED BY <2>1, <2>2
<1>6. PICK l : /\ Go("dfs", l) /\ DOMAIN l = {"calls", "visited", "hits"}
               /\ l.calls = rest \/ (l.calls = Calls(f) \o rest /\ f.i # 0)
  <2> DEFINE key == <<f.lo, f.hi, f.i>>
             seen == [x \in DOMAIN loc.visited \cup {key} |->
                        IF x = key THEN f.e ELSE loc.visited[x]]
             hit == [loc EXCEPT !.calls = rest, !.hits = @ \cup {<<f.lo, f.hi>>}]
             pruned == [loc EXCEPT !.calls = rest]
             made == [loc EXCEPT !.calls = Calls(f) \o rest, !.visited = seen]
  <2>1. Go("dfs", IF f.i = 0 THEN hit ELSE IF Pruned(key, f.e) THEN pruned ELSE made)
    BY <1>4, <1>5 DEF Dfs
  <2>2. DOMAIN hit = DOMAIN loc /\ hit.calls = rest
    BY <1>4
  <2>3. DOMAIN pruned = DOMAIN loc /\ pruned.calls = rest
    BY <1>4
  <2>4. DOMAIN made = DOMAIN loc /\ made.calls = Calls(f) \o rest
    <3> HIDE DEF seen
    <3> QED BY <1>4
  <2> HIDE DEF hit, pruned, made, key
  <2>5. CASE f.i = 0
    BY <1>4, <2>1, <2>2, <2>5
  <2>6. CASE f.i # 0 /\ Pruned(key, f.e)
    BY <1>4, <2>1, <2>3, <2>6
  <2>7. CASE f.i # 0 /\ ~ Pruned(key, f.e)
    BY <1>4, <2>1, <2>4, <2>7
  <2> QED BY <2>5, <2>6, <2>7
<1>7. l.calls \in Seq(DfsCalls)
  <2>1. f.i # 0 => Calls(f) \in Seq(DfsCalls)
    <3> SUFFICES ASSUME f.i # 0 PROVE Calls(f) \in Seq(DfsCalls)
      OBVIOUS
    <3> QED BY <1>3, <1>5, CallsType
  <2>2. rest \in Seq(DfsCalls)
    BY <1>5
  <2>3. ASSUME f.i # 0, l.calls = Calls(f) \o rest PROVE l.calls \in Seq(DfsCalls)
    <3>1. PICK q : q = Calls(f) /\ q \in Seq(DfsCalls)
      BY <2>1, <2>3
    <3> HIDE DEF DfsCalls
    <3>2. q \o rest \in Seq(DfsCalls)
      BY <2>2, <3>1
    <3> QED BY <2>3, <3>1, <3>2
  <2> QED BY <1>6, <2>2, <2>3
<1>8. pc' = "dfs" /\ loc' = l /\ fm' = fm /\ corpus' = corpus /\ req' = req
  BY <1>6 DEF Go
<1>9. DfsCalls' = DfsCalls
  BY <1>8 DEF DfsCalls, Reached, M
<1>10. FuzzyHolds'
  BY <1>6, <1>7, <1>8, <1>9 DEF FuzzyHolds
<1>11. QueryHolds'
  BY <1>8, <1>10 DEF QueryHolds, LongestHolds, CountHolds, WalksHold
<1> QED BY <1>2, <1>6, <1>11, Went DEF OpOf, Places

\* The search is over.
LEMMA DfsEndStep == ASSUME IInv, DfsEnd PROVE IInv'
<1>1. pc = "dfs"
  BY DEF DfsEnd
<1>2. PICK x : Respond(x)
  BY DEF DfsEnd
<1> QED BY <1>1, <1>2, Responded

-----------------------------------------------------------------------------
(***************************************************************************)
(* The theorems.                                                           *)
(***************************************************************************)

\* A step keeps the invariant.
LEMMA NextInv == IInv /\ [Next]_vars => IInv'
<1> SUFFICES ASSUME IInv, [Next]_vars PROVE IInv'
  OBVIOUS
<1>1. CASE Build
  BY <1>1, BuildStep
<1>2. CASE Call
  BY <1>2, CallStep
<1>3. CASE Return
  BY <1>3, ReturnStep
<1>4. CASE UNCHANGED vars
  BY <1>4, StutterStep
<1>5. CASE ScanStep
  <2>1. CASE LongestMatch
    BY <2>1, LongestMatchStep
  <2>2. CASE LongestEnd
    BY <2>2, LongestEndStep
  <2>3. CASE LongestExtend
    BY <2>3, LongestExtendStep
  <2>4. CASE NextTokenCounts
    BY <2>4, NextTokenCountsStep
  <2>5. CASE NextByte
    BY <2>5, NextByteStep
  <2>6. CASE FuzzyMatchingDocs
    BY <2>6, FuzzyStep
  <2>7. CASE Dfs
    BY <2>7, DfsStep
  <2>8. CASE DfsEnd
    BY <2>8, DfsEndStep
  <2> QED BY <1>5, <2>1, <2>2, <2>3, <2>4, <2>5, <2>6, <2>7, <2>8 DEF ScanStep
<1>6. CASE BatchStep
  <2>1. CASE CountBatch
    BY <2>1, CountBatchStep
  <2>2. CASE CountTile
    BY <2>2, CountTileStep
  <2>3. CASE CountGather
    BY <2>3, CountGatherStep
  <2>4. CASE CountScatter
    BY <2>4, CountScatterStep
  <2>5. CASE LocateDocsBatch
    BY <2>5, LocateDocsBatchStep
  <2>6. CASE WalkRound
    BY <2>6, WalkRoundStep
  <2>7. CASE WalksEnd
    BY <2>7, WalksEndStep
  <2> QED BY <1>6, <2>1, <2>2, <2>3, <2>4, <2>5, <2>6, <2>7 DEF BatchStep
<1> QED BY <1>1, <1>2, <1>3, <1>4, <1>5, <1>6 DEF Next, QueryStep

\* Whatever is asked, the object is fresh or the index of the corpus, and the
\* locals of a query are what its place in the code says.
THEOREM Invariant == Spec => []IInv
<1>1. Init => IInv
  BY InitInv
<1>2. IInv /\ [Next]_vars => IInv'
  BY NextInv
<1> QED BY <1>1, <1>2, PTL DEF Spec

\* The locals have the types of the places.
LEMMA Types == IInv => TypeOK
<1> SUFFICES ASSUME IInv PROVE TypeOK
  OBVIOUS
<1>1. fm = Fresh \/ Valid(fm)
  BY FreshOrValid DEF IInv
<1>2. \/ pc \in {"idle", "done", "end", "extend", "byte", "dfs", "tile", "round", "scatter",
                 "walks"}
      \/ \E q \in Requests : pc = q.op
  <2>1. \/ pc \in {"idle", "done"} \/ pc \in Places
        \/ pc \notin {"idle", "done"} \cup Places /\ pc = req[1].op
    BY DEF IInv, PlaceHolds
  <2>2. pc \notin {"idle", "done"} => req[1] \in Requests
    BY DEF IInv, PlaceHolds
  <2> QED BY <2>1, <2>2 DEF Places
<1>3. pc = "extend" => loc.k \in 0..Len(req[1].p) /\ loc.lo \in 0..M(fm) /\ loc.hi \in 0..M(fm)
  BY DEF IInv, QueryHolds, LongestHolds
<1>4. ASSUME pc = "dfs", NEW n \in 1..Len(loc.calls)
      PROVE  LET f == loc.calls[n] IN
             /\ 0 <= f.lo /\ f.lo < f.hi /\ f.hi <= M(fm)
             /\ f.i \in 0..Len(req[1].p) /\ f.e \in 0..req[1].k
  <2>1. pc \in Places
    BY <1>4 DEF Places
  <2>2. ObjectHolds /\ Valid(fm)
    BY <2>1, InPlace
  <2>3. M(fm) \in Nat
    BY <2>2, IndexServes
  <2>4. loc.calls \in Seq(DfsCalls)
    BY <1>4 DEF IInv, QueryHolds, FuzzyHolds
  <2>5. PICK f \in DfsCalls : f = loc.calls[n]
    <3> HIDE DEF DfsCalls
    <3> QED BY <1>4, <2>4
  <2>6. /\ f.lo \in 0..M(fm) /\ f.hi \in 0..M(fm) /\ f.lo < f.hi
        /\ f.i \in 0..Len(req[1].p) /\ f.e \in 0..req[1].k
    BY <2>5 DEF DfsCalls
  <2> QED BY <2>3, <2>5, <2>6
<1>5. pc = "scatter" => loc.j \in 1..Len(loc.batch)
  BY DEF IInv, QueryHolds, CountHolds
<1>6. ASSUME pc = "walks", NEW g \in 1..Len(loc.walks)
      PROVE  loc.walks[g].row \in 0..(M(fm) - 1)
  <2>1. pc \in Places
    BY <1>6 DEF Places
  <2>2. ObjectHolds /\ Valid(fm)
    BY <2>1, InPlace
  <2>3. fm.text_len_ \in Nat /\ M(fm) = fm.text_len_ + 1
    BY <2>2, IndexServes
  <2>4. loc.walks \in Seq(Walks)
    BY <1>6 DEF IInv, QueryHolds, WalksHold
  <2>5. loc.walks[g] \in Walks
    <3> HIDE DEF Walks
    <3> QED BY <1>6, <2>4
  <2>6. loc.walks[g].row \in 0..fm.text_len_
    BY <2>5 DEF Walks
  <2>7. M(fm) - 1 = fm.text_len_
    BY <2>3
  <2> QED BY <2>6, <2>7
<1> QED BY <1>1, <1>2, <1>3, <1>4, <1>5, <1>6 DEF TypeOK

\* The locals that bound the loops stay in their ranges, for every corpus,
\* request, tile size and number of edits.
THEOREM TypeCorrect == Spec => []TypeOK
BY Invariant, Types, PTL

\* FuzzyMatchingDocs: the rows a call of dfs narrows down to are those of a
\* word without separators that is at most e edits away from the pattern bytes
\* behind i, whatever was inserted, replaced, skipped or pruned on the way.
THEOREM FuzzyCorrect == Spec => []FuzzySound
<1>1. IInv => FuzzySound
  <2> SUFFICES ASSUME IInv, pc = "dfs", loc.calls # <<>>
               PROVE  Reached(Head(loc.calls))
    BY DEF FuzzySound, Reached
  <2>1. PICK q \in Seq(DfsCalls) : q = loc.calls /\ q # <<>>
    BY DEF IInv, QueryHolds, FuzzyHolds
  <2>2. Head(q) \in DfsCalls
    <3> HIDE DEF DfsCalls
    <3> QED BY <2>1, HeadTailProperties
  <2>3. Reached(Head(q))
    BY <2>2 DEF DfsCalls
  <2> QED BY <2>1, <2>3
<1> QED BY <1>1, Invariant, PTL

\* CountBatch: whichever lanes of a tile end in whatever order, an active lane
\* stands for the rows of the bytes its own pattern has behind posn.
THEOREM LaneCorrect == Spec => []LaneExact
<1>1. IInv => LaneExact
  <2> SUFFICES ASSUME IInv, pc \in {"round", "scatter"}, NEW s \in Lanes(Len(Batch)),
                      loc.lane[s].active
               PROVE  Interval(fm, SubSeq(Batch[loc.t0 + s], loc.lane[s].posn + 1,
                                          Len(Batch[loc.t0 + s])))
                        = <<loc.lane[s].lo, loc.lane[s].hi>>
    BY DEF LaneExact
  <2>1. LaneHolds(loc.lane[s], Batch[loc.t0 + s])
    BY DEF IInv, QueryHolds, CountHolds
  <2> QED BY <2>1 DEF LaneHolds
<1> QED BY <1>1, Invariant, PTL

\* LocateDocsBatch: no round over the walks of a tile moves the position that
\* a walk is to report.
THEOREM WalksKeep == Spec => WalksKeepPosition
<1> DEFINE Keeps == (pc = "walks" /\ pc' = "walks") =>
             \A g \in 1..Len(loc.walks) : Target(loc'.walks[g]) = Target(loc.walks[g])
<1>1. IInv /\ [Next]_vars => [Keeps]_vars
  <2> SUFFICES ASSUME IInv, Next, pc = "walks", pc' = "walks", NEW g \in 1..Len(loc.walks)
               PROVE  Target(loc'.walks[g]) = Target(loc.walks[g])
    OBVIOUS
  <2>1. WalkRound
    BY DEF Next, Build, Call, Return, QueryStep, ScanStep, BatchStep, Respond,
           LongestMatch, LongestEnd, LongestExtend, NextTokenCounts, NextByte,
           FuzzyMatchingDocs, Dfs, DfsEnd,
           CountBatch, CountTile, CountGather, CountScatter, LocateDocsBatch, WalksEnd
  <2>2. PICK t, ws : /\ Go("walks", [t0 |-> t, walks |-> ws])
                     /\ \A h \in 1..Len(loc.walks) : Target(ws[h]) = Target(loc.walks[h])
    BY <2>1, RoundKeeps
  <2>3. loc' = [t0 |-> t, walks |-> ws]
    BY <2>2 DEF Go
  <2>4. loc'.walks = ws
    BY <2>3
  <2> QED BY <2>2, <2>4
<1>2. Spec => [][Keeps]_vars
  BY <1>1, Invariant, PTL DEF Spec
<1> QED BY <1>2 DEF WalksKeepPosition, Target

-----------------------------------------------------------------------------
(***************************************************************************)
(* What the documents themselves say, in the terms of the index.           *)
(***************************************************************************)

\* The number of positions is the length of the text and the sentinel.
LEMMA PositionsOf ==
    ASSUME NEW c, Documents(c)
    PROVE  Abstract!Positions(c) = DocBounds(c.docs)[Len(c.docs)] + 1
<1> DEFINE docs == c.docs
           D == Len(docs)
           B == DocBounds(docs)
           Eq(f) == f = [d \in 0..D |-> IF d = 0 THEN 1 ELSE f[d - 1] + Len(docs[(d - 1) + 1]) + 1]
           g == [d \in 0..D |-> B[d] + 1]
<1>1. docs \in Seq(Seq(Bytes)) /\ D \in Nat
  BY DEF Documents
<1>2. /\ B \in [0..D -> Nat] /\ B[0] = 0
      /\ \A d \in 1..D : B[d] = B[d - 1] + Len(docs[d]) + 1
  BY <1>1, BoundsFacts
<1> HIDE DEF B, docs
<1>3. Eq(g)
  <2> SUFFICES ASSUME NEW d \in 0..D
               PROVE  B[d] + 1 = IF d = 0 THEN 1 ELSE g[d - 1] + Len(docs[(d - 1) + 1]) + 1
    OBVIOUS
  <2>1. CASE d = 0
    BY <1>2, <2>1
  <2>2. CASE d # 0
    <3>1. d \in 1..D /\ d - 1 \in 0..D /\ (d - 1) + 1 = d
      BY <1>1, <2>2
    <3>2. g[d - 1] = B[d - 1] + 1 /\ B[d - 1] \in Nat /\ B[d] \in Nat
      BY <1>2, <3>1
    <3>3. docs[d] \in Seq(Bytes)
      BY <1>1, <3>1
    <3>4. PICK m \in Nat : m = Len(docs[d])
      BY <3>3
    <3>5. B[d] = B[d - 1] + m + 1
      BY <1>2, <3>1, <3>4
    <3> HIDE DEF g
    <3>6. B[d] + 1 = g[d - 1] + m + 1
      BY <3>2, <3>5
    <3> QED BY <2>2, <3>1, <3>4, <3>6
  <2> QED BY <2>1, <2>2
<1> DEFINE f == CHOOSE x : Eq(x)
<1>4. Eq(f)
  BY <1>3
<1> HIDE DEF f, g
<1>5. \A d \in Nat : d \in {e \in Nat : e <= D => f[e] = g[e]}
  <2> DEFINE T == {e \in Nat : e <= D => f[e] = g[e]}
  <2>1. 0 \in T
    BY <1>1, <1>3, <1>4
  <2>2. ASSUME NEW m \in Nat, m \in T PROVE m + 1 \in T
    <3> SUFFICES ASSUME m + 1 <= D PROVE f[m + 1] = g[m + 1]
      OBVIOUS
    <3>1. m <= D /\ m + 1 \in 0..D /\ m + 1 # 0 /\ (m + 1) - 1 = m
      BY <1>1
    <3>2. f[m] = g[m]
      BY <2>2, <3>1
    <3>3. f[m + 1] = f[(m + 1) - 1] + Len(docs[((m + 1) - 1) + 1]) + 1
      BY <1>4, <3>1
    <3>4. g[m + 1] = g[(m + 1) - 1] + Len(docs[((m + 1) - 1) + 1]) + 1
      BY <1>3, <3>1
    <3> QED BY <3>1, <3>2, <3>3, <3>4
  <2> HIDE DEF T
  <2>3. \A m \in Nat : m \in T
    BY <2>1, <2>2, NatSet
  <2> QED BY <2>3 DEF T
<1>6. f[D] = g[D]
  BY <1>1, <1>5
<1>7. g[D] = B[D] + 1
  BY <1>1 DEF g
<1>8. Abstract!Positions(c) = f[D]
  BY DEF Abstract!Positions, Abstract!NDocs, Abstract!Doc, f, docs
<1> QED BY <1>6, <1>7, <1>8 DEF B, docs

\* The two specifications count with the same operator.
LEMMA SameCardinality == ASSUME NEW S PROVE Abstract!Cardinality(S) = Cardinality(S)
  BY DEF Abstract!Cardinality, Cardinality

\* The abstract sets are those of the text.
LEMMA AbstractSets ==
    ASSUME NEW c, Documents(c), NEW p \in Seq(Bytes)
    PROVE  /\ Abstract!Occurrences(c, p) = Occurring(c.docs, c.cf, p)
           /\ Abstract!StartingWith(c, p) = Starting(c.docs, c.cf, p)
           /\ Abstract!Containing(c, p) = {h[1] : h \in Occurring(c.docs, c.cf, p)}
           /\ Abstract!EndingWith(c, p) = {h[1] : h \in Ending(c.docs, c.cf, p)}
<1> DEFINE docs == c.docs
           cf == c.cf
           D == Len(docs)
           H == Occurring(docs, cf, p)
           E == Ending(docs, cf, p)
<1>1. docs \in Seq(Seq(Bytes)) /\ D \in Nat /\ Len(p) \in Nat
  BY DEF Documents
<1>2. ASSUME NEW d, NEW off
      PROVE  Abstract!OccursAt(c, p, d, off) <=> Occurs(docs, cf, p, d, off)
  <2> DEFINE doc == docs[d + 1]
  <2>0. \A x : Abstract!Fold(cf, x) = Fold(cf, x)
    BY DEF Abstract!Fold, Abstract!IsUpper, Fold, IsUpper
  <2>1. Abstract!OccursAt(c, p, d, off)
          <=> /\ off + Len(p) <= Len(doc)
              /\ \A j \in 1..Len(p) : Fold(cf, doc[off + j]) = Fold(cf, p[j])
    BY <2>0, Zenon DEF Abstract!OccursAt, Abstract!Doc
  <2> QED BY <2>1, Zenon DEF Occurs
<1>3. Abstract!DocIds(c) = 0..(D - 1)
  BY DEF Abstract!DocIds, Abstract!NDocs
<1>4. \A d : Abstract!Doc(c, d) = docs[d + 1]
  BY DEF Abstract!Doc
<1> HIDE DEF docs, cf
<1>5. ASSUME NEW d \in 0..(D - 1), NEW off \in 0..Len(docs[d + 1])
      PROVE <<d, off>> \in H <=> Occurs(docs, cf, p, d, off)
  BY <1>1, CoordPair DEF Occurring
<1>6. ASSUME NEW h \in H
      PROVE  /\ h[1] \in 0..(D - 1) /\ h[2] \in 0..Len(docs[h[1] + 1]) /\ h = <<h[1], h[2]>>
             /\ Len(docs[h[1] + 1]) \in Nat
             /\ Occurs(docs, cf, p, h[1], h[2])
  <2>1. h \in (0..(D - 1)) \X Nat /\ h[2] <= Len(docs[h[1] + 1]) /\ Occurs(docs, cf, p, h[1], h[2])
    BY DEF Occurring, Coords
  <2>2. PICK d \in 0..(D - 1) : d = h[1]
    BY <2>1
  <2>3. d + 1 \in 1..D
    OBVIOUS
  <2>4. docs[d + 1] \in Seq(Bytes)
    BY <1>1, <2>3
  <2>5. Len(docs[d + 1]) \in Nat
    BY <2>4
  <2> QED BY <2>1, <2>2, <2>5
<1>7. Abstract!Occurrences(c, p) = H
  <2>1. ASSUME NEW o \in Abstract!Occurrences(c, p) PROVE o \in H
    <3>1. PICK d \in 0..(D - 1) : \E off \in Abstract!Offsets(c, p, d) : o = <<d, off>>
      BY <1>3 DEF Abstract!Occurrences
    <3>2. PICK off \in 0..Len(docs[d + 1]) : o = <<d, off>> /\ Occurs(docs, cf, p, d, off)
      BY <1>2, <1>4, <3>1 DEF Abstract!Offsets
    <3> QED BY <1>5, <3>2
  <2>2. ASSUME NEW h \in H PROVE h \in Abstract!Occurrences(c, p)
    <3>1. PICK d \in 0..(D - 1) : d = h[1]
      BY <1>6
    <3>2. h[2] \in Abstract!Offsets(c, p, d) /\ h = <<d, h[2]>>
      BY <1>2, <1>4, <1>6, <3>1 DEF Abstract!Offsets
    <3> QED BY <1>3, <3>2 DEF Abstract!Occurrences
  <2> QED BY <2>1, <2>2
<1>8. Abstract!StartingWith(c, p) = Starting(docs, cf, p)
  BY <1>2, <1>3 DEF Abstract!StartingWith, Starting
<1>9. Abstract!Containing(c, p) = {h[1] : h \in H}
  <2>1. ASSUME NEW d \in Abstract!Containing(c, p) PROVE \E h \in H : h[1] = d
    <3>1. d \in 0..(D - 1) /\ Abstract!Offsets(c, p, d) # {}
      BY <1>3 DEF Abstract!Containing
    <3>2. PICK off \in 0..Len(docs[d + 1]) : Occurs(docs, cf, p, d, off)
      BY <1>2, <1>4, <3>1 DEF Abstract!Offsets
    <3>3. <<d, off>> \in H
      BY <1>5, <3>1, <3>2
    <3> QED BY <3>3
  <2>2. ASSUME NEW h \in H PROVE h[1] \in Abstract!Containing(c, p)
    <3>1. h[2] \in Abstract!Offsets(c, p, h[1])
      BY <1>2, <1>4, <1>6 DEF Abstract!Offsets
    <3> QED BY <1>3, <1>6, <3>1 DEF Abstract!Containing
  <2> QED BY <2>1, <2>2
<1>10. Abstract!EndingWith(c, p) = {h[1] : h \in E}
  <2>0. \A h : h \in E <=> h \in H /\ h[2] + Len(p) = Len(docs[h[1] + 1])
    BY DEF Ending
  <2>1. ASSUME NEW d \in Abstract!EndingWith(c, p) PROVE \E h \in E : h[1] = d
    <3>1. /\ d \in 0..(D - 1) /\ Len(p) <= Len(docs[d + 1])
          /\ Occurs(docs, cf, p, d, Len(docs[d + 1]) - Len(p))
      BY <1>2, <1>3, <1>4 DEF Abstract!EndingWith
    <3>2. d + 1 \in 1..D
      BY <3>1
    <3>3. docs[d + 1] \in Seq(Bytes)
      BY <1>1, <3>2
    <3>4. Len(docs[d + 1]) \in Nat
      BY <3>3
    <3>5. PICK off \in 0..Len(docs[d + 1]) : off = Len(docs[d + 1]) - Len(p)
      <4> HIDE <3>3
      <4> QED BY <1>1, <3>1, <3>4
    <3>6. off + Len(p) = Len(docs[d + 1])
      <4> HIDE <3>3
      <4> QED BY <1>1, <3>4, <3>5
    <3>7. <<d, off>> \in H
      BY <1>5, <3>1, <3>5
    <3>8. <<d, off>> \in E
      BY <2>0, <3>6, <3>7
    <3> QED BY <3>8
  <2>2. ASSUME NEW h \in E PROVE h[1] \in Abstract!EndingWith(c, p)
    <3>1. h \in H /\ h[2] + Len(p) = Len(docs[h[1] + 1])
      BY <2>0
    <3>2. h[1] \in 0..(D - 1) /\ h[2] \in Nat /\ Occurs(docs, cf, p, h[1], h[2])
      BY <1>6, <3>1
    <3>3. Len(p) <= Len(docs[h[1] + 1]) /\ Len(docs[h[1] + 1]) - Len(p) = h[2]
      <4>1. PICK m \in Nat : m = Len(docs[h[1] + 1])
        BY <1>6, <3>1
      <4>2. PICK l \in Nat : l = Len(p)
        BY <1>1
      <4>3. PICK x \in Nat : x = h[2]
        BY <3>2
      <4>4. x + l = m
        BY <3>1, <4>1, <4>2, <4>3
      <4>5. l <= m /\ m - l = x
        BY <4>4
      <4> QED BY <4>1, <4>2, <4>3, <4>5
    <3> QED BY <1>2, <1>3, <1>4, <3>2, <3>3 DEF Abstract!EndingWith
  <2> QED BY <2>1, <2>2
<1> QED BY <1>7, <1>8, <1>9, <1>10 DEF docs, cf

\* As many elements as an interval is long.
LEMMA IntervalSize ==
    ASSUME NEW x \in Nat, NEW y \in Nat, x <= y
    PROVE  IsFiniteSet(x..(y - 1)) /\ Cardinality(x..(y - 1)) = y - x
<1>1. x \in Int /\ y - 1 \in Int
  OBVIOUS
<1>2. IsFiniteSet(x..(y - 1)) /\ Cardinality(x..(y - 1)) = IF x > y - 1 THEN 0 ELSE (y - 1) - x + 1
  BY <1>1, FS_Interval
<1> QED BY <1>2

\* Nothing occurs in no documents.
LEMMA NoDocsSets ==
    ASSUME NEW p
    PROVE  LET c == Abstract!NoDocs IN
           /\ Abstract!Occurrences(c, p) = {} /\ Abstract!Containing(c, p) = {}
           /\ Abstract!StartingWith(c, p) = {} /\ Abstract!EndingWith(c, p) = {}
<1> DEFINE c == Abstract!NoDocs
<1>1. Abstract!DocIds(c) = {}
  <2>1. c.docs = <<>>
    BY DEF Abstract!NoDocs
  <2> HIDE DEF c
  <2>2. Abstract!NDocs(c) = 0
    BY <2>1 DEF Abstract!NDocs
  <2> QED BY <2>2 DEF Abstract!DocIds
<1> HIDE DEF c
<1> QED BY <1>1 DEF Abstract!Occurrences, Abstract!Containing, Abstract!StartingWith, Abstract!EndingWith, c

\* The word of the ids of the bytes of p.
Ids(p) == [j \in 1..Len(p) |-> fm.byte_to_id_[p[j]]]

\* The interval of a word holds the rows of the word, and is <<0, 0>> without any.
LEMMA IntervalRows ==
    ASSUME ObjectHolds, Valid(fm), NEW p \in Seq(Bytes)
    PROVE  LET iv == Interval(fm, p) IN
           /\ iv \in (0..M(fm)) \X (0..M(fm))
           /\ iv = <<0, 0>> \/ iv[1] < iv[2]
           /\ RowsOf(Text, Array, Ids(p)) = iv[1]..(iv[2] - 1)
<1> DEFINE n == fm.text_len_
           Right(v) == LET iv == Interval(fm, v) IN
                       /\ iv = <<0, 0>> \/ iv[1] < iv[2]
                       /\ RowsOf(Text, Array, Ids(v)) = iv[1]..(iv[2] - 1)
           T == {m \in Nat : \A v \in Seq(Bytes) : Len(v) = m => Right(v)}
<1>1. Serves(fm, Text, Array) /\ n \in Nat /\ M(fm) = n + 1
  BY IndexServes
<1>2. \A v \in Seq(Bytes) : Interval(fm, v) \in (0..(n + 1)) \X (0..(n + 1))
  BY <1>1, IntervalType DEF Pairs
<1>3. 0 \in T
  <2> SUFFICES ASSUME NEW v \in Seq(Bytes), Len(v) = 0 PROVE Right(v)
    OBVIOUS
  <2>1. v = <<>>
    BY EmptySeq
  <2>2. Interval(fm, v) = <<0, n + 1>>
    BY <1>1, <2>1, IntervalEmpty
  <2>3. Len(Ids(v)) = 0
    BY DEF Ids
  <2>4. RowsOf(Text, Array, Ids(v)) = 0..n
    BY <1>1, <2>3, EmptyRows
  <2> HIDE DEF n
  <2>5. 0 < n + 1 /\ (n + 1) - 1 = n
    BY <1>1
  <2> QED BY <2>2, <2>4, <2>5
<1>4. ASSUME NEW m \in Nat, m \in T PROVE m + 1 \in T
  <2> SUFFICES ASSUME NEW v \in Seq(Bytes), Len(v) = m + 1 PROVE Right(v)
    OBVIOUS
  <2>1. PICK u \in Seq(Bytes), x \in Bytes :
          x = v[1] /\ Len(u) = m /\ \A j \in 1..m : v[j + 1] = u[j]
    <3>1. v # <<>>
      OBVIOUS
    <3>2. /\ Head(v) \in Bytes /\ Head(v) = v[1]
          /\ Tail(v) \in Seq(Bytes) /\ Len(Tail(v)) = Len(v) - 1
          /\ \A j \in 1..Len(Tail(v)) : Tail(v)[j] = v[j + 1]
      BY <3>1, HeadTailProperties
    <3>3. Len(Tail(v)) = m
      BY <3>2
    <3> QED BY <3>2, <3>3
  <2>2. Right(u)
    BY <1>4, <2>1
  <2> DEFINE id == fm.byte_to_id_[x]
  <2>3. PICK a \in 0..(n + 1), b \in 0..(n + 1) : Interval(fm, u) = <<a, b>>
    BY <1>2
  <2>4. RowsOf(Text, Array, Ids(u)) = a..(b - 1)
    BY <2>2, <2>3
  <2>5. Interval(fm, v) = Extended(fm, id, <<a, b>>)
    BY <1>1, <2>1, <2>3, IntervalStep
  <2>6. Fronted(Ids(v), id, Ids(u))
    <3>1. Len(Ids(v)) = m + 1 /\ Len(Ids(u)) = m
      BY <2>1 DEF Ids
    <3>2. Ids(v)[1] = id
      BY <2>1 DEF Ids
    <3>3. ASSUME NEW j \in 1..m PROVE Ids(v)[j + 1] = Ids(u)[j]
      <4>1. j + 1 \in 1..Len(v) /\ j \in 1..Len(u)
        BY <2>1
      <4> QED BY <2>1, <4>1 DEF Ids
    <3> QED BY <3>1, <3>2, <3>3 DEF Fronted
  <2>7. id \in Int /\ (id >= 0 => id \in 2..(fm.sigma_ - 1)) /\ fm.sigma_ \in Nat
    BY IdType
  <2> HIDE DEF id, T, Right
  <2>8. 0..(0 - 1) = {}
    OBVIOUS
  <2>9. CASE id < 0
    <3>1. Interval(fm, v) = <<0, 0>>
      BY <2>5, <2>9 DEF Extended
    <3>2. ASSUME NEW r \in RowsOf(Text, Array, Ids(v)) PROVE FALSE
      <4>1. r \in 0..n /\ Array \in [0..n -> 0..n] /\ Text \in [0..n -> 0..(fm.sigma_ - 1)]
        BY <1>1 DEF RowsOf, Serves, Sorted, Ended
      <4>2. PICK pos \in 0..n : pos = Array[r]
        BY <4>1
      <4>3. StandsAt(Text, pos, Ids(v)) /\ 1 \in 1..Len(Ids(v))
        <5>1. Len(Ids(v)) = m + 1
          BY <2>1 DEF Ids
        <5>2. 1 \in 1..(m + 1)
          OBVIOUS
        <5> QED BY <4>2, <5>1, <5>2 DEF RowsOf
      <4>4. Text[pos + 1 - 1] = Ids(v)[1]
        BY <4>3 DEF StandsAt
      <4>5. pos + 1 - 1 = pos
        OBVIOUS
      <4>6. Text[pos] = id
        BY <2>6, <4>4, <4>5 DEF Fronted
      <4>7. Text[pos] \in 0..(fm.sigma_ - 1)
        BY <4>1
      <4> QED BY <2>9, <4>6, <4>7, <2>7
    <3> QED BY <3>1, <3>2, <2>8 DEF Right
  <2>10. CASE ~ (id < 0)
    <3>1. PICK d \in 2..(fm.sigma_ - 1) : d = id
      BY <2>7, <2>10
    <3>2. d \in 1..(fm.sigma_ - 1) /\ d \in 0..(fm.sigma_ - 1)
      BY <2>7
    <3>3. PICK ea \in 0..(n + 1), eb \in 0..(n + 1) :
            ea = Extend(fm, d, a) /\ eb = Extend(fm, d, b)
      BY <1>1, <3>2, ExtendIsCut
    <3>4. RowsOf(Text, Array, Ids(v)) = ea..(eb - 1)
      BY <1>1, <2>4, <2>6, <3>1, <3>2, <3>3, ExtendRows
    <3>5. [e \in 1..2 |-> Extend(fm, d, <<a, b>>[e])] = <<ea, eb>>
      BY <3>3
    <3>6. CASE <<a, b>> = <<0, 0>> \/ ea >= eb
      <4>1. Interval(fm, v) = <<0, 0>>
        BY <2>5, <3>1, <3>5, <3>6 DEF Extended
      <4>2. ea >= eb
        BY <3>3, <3>6
      <4>3. ea..(eb - 1) = {}
        <5>1. ea \in Nat /\ eb \in Nat
          BY <1>1
        <5> QED BY <4>2, <5>1
      <4>4. RowsOf(Text, Array, Ids(v)) = 0..(0 - 1)
        BY <2>8, <3>4, <4>3
      <4>5. <<0, 0>>[1] = 0 /\ <<0, 0>>[2] = 0
        OBVIOUS
      <4> QED BY <4>1, <4>4, <4>5 DEF Right
    <3>7. CASE ~ (<<a, b>> = <<0, 0>> \/ ea >= eb)
      <4>1. Interval(fm, v) = <<ea, eb>>
        BY <2>5, <2>10, <3>1, <3>5, <3>7 DEF Extended
      <4>2. ea < eb
        BY <3>7
      <4> QED BY <3>4, <4>1, <4>2 DEF Right
    <3> QED BY <3>6, <3>7
  <2> QED BY <2>9, <2>10
<1> HIDE DEF T, Right
<1>5. \A m \in Nat : m \in T
  BY <1>3, <1>4, NatSet
<1>6. Len(p) \in Nat
  OBVIOUS
<1>7. Right(p)
  BY <1>5, <1>6 DEF T
<1> QED BY <1>1, <1>2, <1>7 DEF Right

\* A word without rows has none with a byte in front either.
LEMMA EmptyStays ==
    ASSUME ObjectHolds, Valid(fm), NEW p \in Seq(Bytes), NEW v \in Seq(Bytes),
           OneMore(v, p), Interval(fm, p) = <<0, 0>>
    PROVE  Interval(fm, v) = <<0, 0>>
<1>1. Serves(fm, Text, Array)
  BY IndexServes
<1>2. Interval(fm, v) = Extended(fm, fm.byte_to_id_[v[1]], <<0, 0>>)
  BY <1>1, IntervalStep DEF OneMore
<1> QED BY <1>2 DEF Extended

\* The rows of the interval are one for each occurrence.
LEMMA IntervalHits ==
    ASSUME ObjectHolds, Valid(fm), NEW p \in Seq(Bytes), p # <<>>
    PROVE  LET iv == Interval(fm, p) IN
           /\ HitRows(corpus[1].docs, Array, iv[1]..(iv[2] - 1),
                      Abstract!Occurrences(corpus[1], p))
           /\ IsFiniteSet(Abstract!Occurrences(corpus[1], p))
           /\ Cardinality(iv[1]..(iv[2] - 1)) = Cardinality(Abstract!Occurrences(corpus[1], p))
<1>1. PICK docs \in Seq(Seq(Bytes)), cf \in BOOLEAN : docs = corpus[1].docs /\ cf = corpus[1].cf
  BY IndexServes DEF Documents
<1>2. PICK rate \in Nat \ {0} : fm = Built(docs, cf, rate)
  BY <1>1, FreshInvalid DEF ObjectHolds
<1>3. fm.byte_to_id_ = ByteToId(docs, cf)
  BY <1>2 DEF Built
<1>4. fm.text_len_ = DocBounds(docs)[Len(docs)]
  BY <1>2 DEF Built
<1>5. Spells(Ids(p), ByteToId(docs, cf), p)
  BY <1>3 DEF Ids, Spells
<1>6. Hits(docs, cf, Ids(p), Occurring(docs, cf, p))
  BY <1>5, WordHits
<1>7. Sorted(TextOf(docs, cf), DocBounds(docs)[Len(docs)], Array)
  BY <1>1, <1>4, IndexServes DEF Serves, Text
<1>8. HitRows(docs, Array, RowsOf(TextOf(docs, cf), Array, Ids(p)), Occurring(docs, cf, p))
  BY <1>6, <1>7, RowHits
<1>r. /\ IsFiniteSet(Occurring(docs, cf, p))
      /\ Cardinality(RowsOf(TextOf(docs, cf), Array, Ids(p))) = Cardinality(Occurring(docs, cf, p))
  BY <1>6, <1>7, RowCount
<1>9. Text = TextOf(docs, cf)
  BY <1>1 DEF Text
<1>10. Abstract!Occurrences(corpus[1], p) = Occurring(docs, cf, p)
  BY <1>1, IndexServes, AbstractSets
<1> QED BY <1>1, <1>8, <1>r, <1>9, <1>10, IntervalRows

\* The width of the interval is the number of occurrences.
LEMMA IntervalCounts ==
    ASSUME ObjectHolds, Valid(fm), NEW p \in Seq(Bytes)
    PROVE  LET iv == Interval(fm, p) IN
           /\ Width(iv) = iv[2] - iv[1] /\ Width(iv) \in Nat
           /\ Width(iv) = Abstract!Count(corpus[1], p)
           /\ Width(iv) = 0 <=> iv = <<0, 0>>
           /\ p # <<>> => /\ Width(iv) = 0 <=> Abstract!Occurrences(corpus[1], p) = {}
                          /\ Width(iv) = Cardinality(Abstract!Occurrences(corpus[1], p))
<1> DEFINE iv == Interval(fm, p)
           H == Abstract!Occurrences(corpus[1], p)
<1>1. PICK m \in Nat : m = M(fm)
  BY IndexServes
<1>2. PICK a \in 0..m, b \in 0..m : iv = <<a, b>>
  BY <1>1, IntervalRows
<1>3. iv = <<0, 0>> \/ a < b
  BY <1>2, IntervalRows
<1>4. Width(iv) = b - a /\ b - a \in Nat /\ (b - a = 0 <=> iv = <<0, 0>>)
  BY <1>2, <1>3 DEF Width
<1>5. ASSUME p # <<>> PROVE b - a = Cardinality(H) /\ (b - a = 0 <=> H = {})
  <2>1. PICK docs \in Seq(Seq(Bytes)), cf \in BOOLEAN : docs = corpus[1].docs /\ cf = corpus[1].cf
    BY IndexServes DEF Documents
  <2>3. a <= b
    BY <1>4
  <2>4. IsFiniteSet(a..(b - 1)) /\ Cardinality(a..(b - 1)) = b - a
    BY <2>3, IntervalSize
  <2>6. IsFiniteSet(H) /\ Cardinality(H) = b - a
    BY <1>2, <1>5, <2>4, IntervalHits
  <2>7. Cardinality(H) = 0 <=> H = {}
    BY <2>6, FS_EmptySet
  <2> QED BY <2>6, <2>7
<1>6. b - a = Abstract!Count(corpus[1], p)
  <2>1. CASE p = <<>>
    <3>1. Serves(fm, Text, Array) /\ Documents(corpus[1])
      BY IndexServes
    <3>2. iv = <<0, M(fm)>>
      BY <2>1, <3>1, IntervalEmpty
    <3>3. Abstract!Count(corpus[1], p) = Abstract!Positions(corpus[1])
      BY <2>1 DEF Abstract!Count
    <3>4. Abstract!Positions(corpus[1]) = DocBounds(corpus[1].docs)[Len(corpus[1].docs)] + 1
      BY <3>1, PositionsOf
    <3>5. PICK rate \in Nat \ {0} : fm = Built(corpus[1].docs, corpus[1].cf, rate)
      BY FreshInvalid DEF ObjectHolds
    <3>6. fm.text_len_ = DocBounds(corpus[1].docs)[Len(corpus[1].docs)]
      BY <3>5 DEF Built
    <3>7. a = 0 /\ b = M(fm)
      BY <1>2, <3>2
    <3>8. b - a = m /\ M(fm) = fm.text_len_ + 1
      BY <1>1, <3>7 DEF M
    <3> QED BY <1>1, <3>3, <3>4, <3>6, <3>8
  <2>2. CASE p # <<>>
    BY <1>5, <2>2, SameCardinality DEF Abstract!Count
  <2> QED BY <2>1, <2>2
<1> HIDE DEF iv
<1>7. Width(iv) = iv[2] - iv[1]
  BY DEF Width
<1> QED BY <1>4, <1>5, <1>6, <1>7 DEF iv

-----------------------------------------------------------------------------
(***************************************************************************)
(* Answers.                                                                *)
(***************************************************************************)
Answered == res = <<Abstract!Answer(corpus, req[1])>>
RestHolds ==
    /\ pc = "idle" => req = <<>>
    /\ pc # "done" => res = <<>>
    /\ pc = "done" => Answered

\* A query for a single pattern, on an index or on none.
LEMMA ScanAnswer ==
    ASSUME NEW q
    PROVE  LET c == IF corpus = <<>> THEN Abstract!NoDocs ELSE corpus[1] IN
           /\ q.op = "LongestMatch" => Abstract!Answer(corpus, q) = Abstract!Longest(c, q.p)
           /\ q.op = "NextTokenCounts" =>
                Abstract!Answer(corpus, q)
                  = [b \in Abstract!Following(c, q.p) |-> Abstract!Count(c, Append(q.p, b))]
           /\ q.op = "FuzzyMatchingDocs" =>
                Abstract!Answer(corpus, q) = IF q.p = <<>> THEN {} ELSE Abstract!Near(c, q.p, q.k)
<1> DEFINE c == IF corpus = <<>> THEN Abstract!NoDocs ELSE corpus[1]
<1>1. q.op \notin {"Count", "CountBatch"} => Abstract!Answer(corpus, q) = Abstract!AnswerFor(c, q)
  BY DEF Abstract!Answer
<1> HIDE DEF c
<1>2. ASSUME q.op = "LongestMatch" PROVE Abstract!Answer(corpus, q) = Abstract!Longest(c, q.p)
  BY <1>1, <1>2 DEF Abstract!AnswerFor
<1>3. ASSUME q.op = "NextTokenCounts"
      PROVE  Abstract!Answer(corpus, q)
               = [b \in Abstract!Following(c, q.p) |-> Abstract!Count(c, Append(q.p, b))]
  BY <1>1, <1>3 DEF Abstract!AnswerFor
<1>4. ASSUME q.op = "FuzzyMatchingDocs"
      PROVE  Abstract!Answer(corpus, q) = IF q.p = <<>> THEN {} ELSE Abstract!Near(c, q.p, q.k)
  BY <1>1, <1>4 DEF Abstract!AnswerFor
<1> QED BY <1>2, <1>3, <1>4 DEF c

\* A batch is answered pattern by pattern.
LEMMA BatchAnswer ==
    ASSUME NEW q
    PROVE  /\ q.op = "CountBatch" =>
                Abstract!Answer(corpus, q)
                  = [j \in 1..Len(q.ps) |-> IF corpus = <<>> THEN 0
                                            ELSE Abstract!Count(corpus[1], q.ps[j])]
           /\ q.op = "LocateDocsBatch" =>
                Abstract!Answer(corpus, q)
                  = [j \in 1..Len(q.ps) |->
                       Abstract!Located(IF corpus = <<>> THEN Abstract!NoDocs ELSE corpus[1],
                                        q.ps[j])]
<1>1. ASSUME q.op = "CountBatch"
      PROVE  Abstract!Answer(corpus, q)
               = [j \in 1..Len(q.ps) |-> IF corpus = <<>> THEN 0
                                         ELSE Abstract!Count(corpus[1], q.ps[j])]
  <2>1. CASE corpus = <<>>
    BY <1>1, <2>1 DEF Abstract!Answer
  <2>2. CASE corpus # <<>>
    BY <1>1, <2>2 DEF Abstract!Answer, Abstract!AnswerFor
  <2> QED BY <2>1, <2>2
<1>2. ASSUME q.op = "LocateDocsBatch"
      PROVE  Abstract!Answer(corpus, q)
               = [j \in 1..Len(q.ps) |->
                    Abstract!Located(IF corpus = <<>> THEN Abstract!NoDocs ELSE corpus[1],
                                     q.ps[j])]
  <2> DEFINE c == IF corpus = <<>> THEN Abstract!NoDocs ELSE corpus[1]
  <2>1. Abstract!Answer(corpus, q) = Abstract!AnswerFor(c, q)
    BY <1>2 DEF Abstract!Answer
  <2> HIDE DEF c
  <2>2. Abstract!AnswerFor(c, q) = [j \in 1..Len(q.ps) |-> Abstract!Located(c, q.ps[j])]
    BY <1>2 DEF Abstract!AnswerFor
  <2> QED BY <2>1, <2>2 DEF c
<1> QED BY <1>1, <1>2

\* A valid object has a corpus, one that is not has none.
LEMMA CorpusOf ==
    ASSUME ObjectHolds
    PROVE  /\ Valid(fm) => corpus # <<>> /\ Documents(corpus[1])
           /\ ~ Valid(fm) => corpus = <<>>
BY FreshInvalid, BuiltValid DEF ObjectHolds

\* Part v of word w, from behind its first i bytes on.
PartOf(v, w, i) == i + Len(v) <= Len(w) /\ \A j \in 1..Len(v) : v[j] = w[i + j]

\* Where a word occurs, its parts occur.
LEMMA PartOccurs ==
    ASSUME NEW c, Documents(c), NEW v \in Seq(Bytes), NEW w \in Seq(Bytes), NEW i \in Nat,
           PartOf(v, w, i), Abstract!Occurrences(c, w) # {}
    PROVE  Abstract!Occurrences(c, v) # {}
<1>1. PICK docs \in Seq(Seq(Bytes)), cf \in BOOLEAN : docs = c.docs /\ cf = c.cf
  BY DEF Documents
<1>2. /\ Abstract!Occurrences(c, w) = Occurring(docs, cf, w)
      /\ Abstract!Occurrences(c, v) = Occurring(docs, cf, v)
  BY <1>1, AbstractSets
<1>3. PICK h \in Coords(docs) : Occurs(docs, cf, w, h[1], h[2])
  BY <1>2 DEF Occurring
<1>c. h \in (0..(Len(docs) - 1)) \X Nat /\ h[2] <= Len(docs[h[1] + 1])
  BY DEF Coords
<1>4. PICK d \in 0..(Len(docs) - 1), off \in Nat : d = h[1] /\ off = h[2]
  BY <1>c
<1>5. Occurs(docs, cf, w, d, off)
  BY <1>3, <1>4
<1>6. PICK doc \in Seq(Bytes) : doc = docs[d + 1]
  <2>1. d + 1 \in 1..Len(docs)
    OBVIOUS
  <2> QED BY <2>1
<1>7. PICK a \in Nat, b \in Nat, n \in Nat : a = Len(v) /\ b = Len(w) /\ n = Len(doc)
  OBVIOUS
<1>8. i + a <= b /\ off + b <= n
  BY <1>5, <1>6, <1>7 DEF PartOf, Occurs
<1>9. (off + i) + a <= n /\ off + i \in 0..n
  BY <1>8
<1>10. ASSUME NEW j \in 1..a PROVE Fold(cf, doc[(off + i) + j]) = Fold(cf, v[j])
  <2>1. i + j \in 1..b /\ off + (i + j) = (off + i) + j
    BY <1>8
  <2>2. v[j] = w[i + j]
    BY <1>7 DEF PartOf
  <2>3. Fold(cf, doc[off + (i + j)]) = Fold(cf, w[i + j])
    BY <1>5, <1>6, <1>7, <2>1 DEF Occurs
  <2> QED BY <2>1, <2>2, <2>3
<1>11. Occurs(docs, cf, v, d, off + i)
  BY <1>6, <1>7, <1>9, <1>10 DEF Occurs
<1>12. <<d, off + i>> \in Coords(docs)
  BY <1>6, <1>7, <1>9, CoordPair
<1>13. <<d, off + i>> \in Occurring(docs, cf, v)
  BY <1>11, <1>12 DEF Occurring
<1> QED BY <1>2, <1>13

-----------------------------------------------------------------------------
(***************************************************************************)
(* The answer of NextTokenCounts.                                          *)
(***************************************************************************)
Counted(p, n) == [b \in {x \in Abstract!Following(corpus[1], p) : x < n} |->
                    Abstract!Count(corpus[1], Append(p, b))]
NextAnswers ==
    pc = "byte" => loc.b \in 0..(ByteMax + 1) /\ loc.out = Counted(req[1].p, loc.b)

\* The bytes that follow p are those with rows.
LEMMA FollowingRows ==
    ASSUME ObjectHolds, Valid(fm), NEW p \in Seq(Bytes), NEW b \in Bytes
    PROVE  LET cnt == Width(Interval(fm, Append(p, b))) IN
           /\ b \in Abstract!Following(corpus[1], p) <=> ~ (fm.byte_to_id_[b] < 0 \/ cnt = 0)
           /\ cnt = Abstract!Count(corpus[1], Append(p, b))
<1> DEFINE v == Append(p, b)
           H == Abstract!Occurrences(corpus[1], v)
<1>1. v \in Seq(Bytes) /\ v # <<>> /\ Len(v) = Len(p) + 1 /\ v[Len(p) + 1] = b
  OBVIOUS
<1> HIDE DEF v
<1>2. PICK cnt \in Nat : /\ cnt = Width(Interval(fm, v))
                         /\ cnt = Abstract!Count(corpus[1], v)
                         /\ cnt = 0 <=> H = {}
  BY <1>1, IntervalCounts
<1>3. ASSUME fm.byte_to_id_[b] < 0 PROVE H = {}
  <2> SUFFICES ASSUME H # {} PROVE FALSE
    OBVIOUS
  <2> DEFINE u == <<b>>
  <2>1. u \in Seq(Bytes) /\ Len(u) = 1 /\ u[1] = b /\ u # <<>>
    OBVIOUS
  <2> HIDE DEF u
  <2>2. PartOf(u, v, Len(p))
    BY <1>1, <2>1 DEF PartOf
  <2>3. Abstract!Occurrences(corpus[1], u) # {}
    <3>1. Len(p) \in Nat
      OBVIOUS
    <3> QED BY <1>1, <2>1, <2>2, <3>1, PartOccurs, CorpusOf
  <2>4. <<>> \in Seq(Bytes) /\ Len(<<>>) = 0
    OBVIOUS
  <2>5. Interval(fm, u) = Extended(fm, fm.byte_to_id_[u[1]], Interval(fm, <<>>))
    <3>1. PICK o \in Seq(Bytes) : o = <<>> /\ Len(o) = 0
      BY <2>4
    <3>2. \A j \in 1..Len(o) : u[j + 1] = o[j]
      BY <3>1
    <3>3. Serves(fm, Text, Array)
      BY IndexServes
    <3>4. Interval(fm, u) = Extended(fm, fm.byte_to_id_[u[1]], Interval(fm, o))
      <4>1. Len(u) = Len(o) + 1
        BY <2>1, <3>1
      <4> QED BY <2>1, <4>1, <3>2, <3>3, IntervalStep
    <3> QED BY <3>1, <3>4
  <2>6. Interval(fm, u) = <<0, 0>>
    BY <1>3, <2>1, <2>5 DEF Extended
  <2>7. Abstract!Occurrences(corpus[1], u) = {}
    BY <2>1, <2>6, IntervalCounts
  <2> QED BY <2>3, <2>7
<1>4. b \in Abstract!Following(corpus[1], p) <=> H # {}
  BY DEF Abstract!Following, v, Abstract!Bytes, Bytes
<1> QED BY <1>2, <1>3, <1>4 DEF v

\* No byte has been tried; without rows for p none follows it.
LEMMA NextTokenCountsAnswers ==
    ASSUME IInv, NextTokenCounts
    PROVE  NextAnswers' /\ (pc' = "done" => Answered')
<1>1. /\ pc = "NextTokenCounts" /\ pc \notin {"idle", "done"} \cup Places
  BY DEF NextTokenCounts, Places
<1>2. req[1].op = "NextTokenCounts" /\ req[1] \in Requests /\ ObjectHolds
  BY <1>1, AtCall
<1>3. PICK p \in Seq(Bytes) : p = req[1].p
  BY <1>2, Arguments
<1> DEFINE c == IF corpus = <<>> THEN Abstract!NoDocs ELSE corpus[1]
<1>4. CASE ~ Valid(fm) \/ Width(Interval(fm, req[1].p)) = 0
  <2>1. Respond(Nothing)
    BY <1>4 DEF NextTokenCounts
  <2>2. Abstract!Following(c, p) = {}
    <3> SUFFICES ASSUME NEW b \in Bytes, Abstract!Occurrences(c, Append(p, b)) # {} PROVE FALSE
      BY DEF Abstract!Following, Abstract!Bytes, Bytes
    <3>1. CASE ~ Valid(fm)
      BY <1>2, <3>1, CorpusOf, NoDocsSets
    <3>2. CASE Valid(fm)
      <4>1. c = corpus[1] /\ Documents(c)
        BY <1>2, <3>2, CorpusOf
      <4>2. Width(Interval(fm, p)) = 0
        BY <1>3, <1>4, <3>2
      <4>3. p # <<>>
        <5>1. ASSUME p = <<>> PROVE FALSE
          <6>1. Interval(fm, p) = <<0, M(fm)>> /\ M(fm) \in Nat /\ M(fm) # 0
            BY <1>2, <3>2, <5>1, IndexServes, IntervalEmpty
          <6>2. Width(<<0, M(fm)>>) = M(fm)
            BY <6>1 DEF Width
          <6> QED BY <4>2, <6>1, <6>2
        <5> QED BY <5>1
      <4>4. Abstract!Occurrences(c, p) = {}
        BY <1>2, <3>2, <4>1, <4>2, <4>3, IntervalCounts
      <4>a. /\ Append(p, b) \in Seq(Bytes) /\ Len(Append(p, b)) = Len(p) + 1
            /\ \A j \in 1..Len(p) : Append(p, b)[j] = p[j]
        BY AppendProperties
      <4>5. PICK v \in Seq(Bytes) : v = Append(p, b)
        BY <4>a, Zenon
      <4>6. PartOf(p, v, 0)
        <5>1. PICK m \in Nat : m = Len(p)
          OBVIOUS
        <5>2. \A j \in 1..m : 0 + j = j
          OBVIOUS
        <5>3. Len(v) = m + 1 /\ \A j \in 1..m : v[j] = p[j]
          BY <4>a, <4>5, <5>1
        <5> QED BY <5>1, <5>2, <5>3 DEF PartOf
      <4>7. Abstract!Occurrences(c, p) # {}
        BY <4>1, <4>5, <4>6, PartOccurs
      <4> QED BY <4>4, <4>7
    <3> QED BY <3>1, <3>2
  <2> HIDE DEF c
  <2>3. Abstract!Answer(corpus, req[1])
          = [b \in Abstract!Following(c, p) |-> Abstract!Count(c, Append(p, b))]
    BY <1>2, <1>3, ScanAnswer DEF c
  <2>4. Abstract!Answer(corpus, req[1]) = Nothing
    BY <2>2, <2>3 DEF Nothing
  <2> QED BY <2>1, <2>4 DEF Respond, Answered, NextAnswers
<1>5. CASE ~ (~ Valid(fm) \/ Width(Interval(fm, req[1].p)) = 0)
  <2>1. Go("byte", [b |-> 0, out |-> Nothing])
    BY <1>5 DEF NextTokenCounts
  <2>2. /\ pc' = "byte" /\ loc'.b = 0 /\ loc'.out = Nothing /\ req' = req /\ corpus' = corpus
    BY <2>1 DEF Go
  <2>3. 0 \in 0..(ByteMax + 1)
    BY ByteAssumption
  <2>4. {x \in Abstract!Following(corpus[1], p) : x < 0} = {}
    BY ByteAssumption DEF Abstract!Following, Abstract!Bytes
  <2>5. Nothing = Counted(p, 0)
    BY <2>4 DEF Nothing, Counted
  <2>6. NextAnswers'
    BY <1>3, <2>2, <2>3, <2>5 DEF NextAnswers, Counted
  <2> QED BY <2>2, <2>6
<1> QED BY <1>4, <1>5

\* One byte more has been tried, or all of them have.
LEMMA NextByteAnswers ==
    ASSUME IInv, NextAnswers, NextByte
    PROVE  NextAnswers' /\ (pc' = "done" => Answered')
<1>1. pc = "byte" /\ pc \in Places
  BY DEF NextByte, Places
<1>2. Valid(fm) /\ req[1].op = OpOf(pc) /\ req[1] \in Requests /\ ObjectHolds
  BY <1>1, InPlace
<1>3. req[1].op = "NextTokenCounts"
  BY <1>1, <1>2 DEF OpOf
<1>4. PICK p \in Seq(Bytes) : p = req[1].p
  BY <1>2, <1>3, Arguments
<1>5. PICK n \in 0..(ByteMax + 1) : n = loc.b
  BY <1>1 DEF NextAnswers
<1>6. loc.out = Counted(p, n)
  BY <1>1, <1>4, <1>5 DEF NextAnswers
<1> DEFINE F == Abstract!Following(corpus[1], p)
           C(b) == Abstract!Count(corpus[1], Append(p, b))
<1>7. F \subseteq 0..ByteMax
  BY DEF Abstract!Following, Abstract!Bytes
<1>8. loc.out = [b \in {x \in F : x < n} |-> C(b)]
  BY <1>6 DEF Counted
<1>9. ByteMax \in Nat
  BY ByteAssumption
<1> HIDE DEF F
<1>10. CASE n > ByteMax
  <2>1. Respond(loc.out)
    BY <1>5, <1>10 DEF NextByte
  <2>2. {x \in F : x < n} = F
    <3>1. ASSUME NEW x \in F PROVE x < n
      <4>1. x \in 0..ByteMax
        BY <1>7
      <4> QED BY <1>9, <1>10, <4>1
    <3> QED BY <3>1
  <2>3. loc.out = [b \in F |-> C(b)]
    BY <1>8, <2>2
  <2>4. Abstract!Answer(corpus, req[1]) = [b \in F |-> C(b)]
    BY <1>2, <1>3, <1>4, ScanAnswer, CorpusOf DEF F
  <2> QED BY <2>1, <2>3, <2>4 DEF Respond, Answered, NextAnswers
<1>11. CASE ~ (n > ByteMax)
  <2> DEFINE cnt == Width(Interval(fm, Append(p, n)))
             absent == fm.byte_to_id_[n] < 0 \/ cnt = 0
             more == [x \in DOMAIN loc.out \cup {n} |-> IF x = n THEN cnt ELSE loc.out[x]]
  <2>1. n \in Bytes
    BY <1>9, <1>11 DEF Bytes
  <2>2. Go("byte", [b |-> n + 1, out |-> IF absent THEN loc.out ELSE more])
    BY <1>4, <1>5, <1>11 DEF NextByte
  <2>3. /\ n \in F <=> ~ absent
        /\ cnt = C(n)
    BY <1>2, <2>1, FollowingRows DEF F
  <2> HIDE DEF cnt, absent
  <2>f. \A x \in F : x \in Int
    BY <1>7, <1>9
  <2>g. \A x \in F : x < n + 1 <=> x < n \/ x = n
    BY <2>f, <1>5
  <2>4. (IF absent THEN loc.out ELSE more) = [b \in {x \in F : x < n + 1} |-> C(b)]
    <3>1. CASE absent
      <4>1. {x \in F : x < n + 1} = {x \in F : x < n}
        BY <2>3, <2>g, <3>1
      <4> QED BY <1>8, <3>1, <4>1
    <3>2. CASE ~ absent
      <4>1. {x \in F : x < n + 1} = {x \in F : x < n} \cup {n}
        BY <2>3, <2>g, <3>2
      <4>2. DOMAIN loc.out = {x \in F : x < n}
        BY <1>8
      <4>3. \A x \in {y \in F : y < n} \cup {n} :
              (IF x = n THEN cnt ELSE loc.out[x]) = C(x)
        BY <1>8, <2>3
      <4>4. more = [b \in {y \in F : y < n} \cup {n} |-> C(b)]
        BY <4>2, <4>3
      <4> HIDE DEF more
      <4> QED BY <3>2, <4>1, <4>4
    <3> QED BY <3>1, <3>2
  <2> HIDE DEF more
  <2>5. /\ pc' = "byte" /\ req' = req /\ corpus' = corpus
        /\ loc'.b = n + 1 /\ loc'.out = [b \in {x \in F : x < n + 1} |-> C(b)]
    BY <2>2, <2>4 DEF Go
  <2>6. n + 1 \in 0..(ByteMax + 1)
    BY <1>9, <1>11
  <2>7. loc'.out = Counted(p, n + 1)
    BY <2>5 DEF Counted, F
  <2>8. NextAnswers'
    BY <1>4, <2>5, <2>6, <2>7 DEF NextAnswers, Counted
  <2> QED BY <2>5, <2>8
<1> QED BY <1>10, <1>11

-----------------------------------------------------------------------------
(***************************************************************************)
(* The answer of LongestMatch.                                             *)
(***************************************************************************)

\* A part of a word, by its first and last place.
LEMMA SliceFacts ==
    ASSUME NEW p \in Seq(Bytes), NEW a \in Nat \ {0}, NEW b \in 0..Len(p), a <= b + 1
    PROVE  /\ SubSeq(p, a, b) \in Seq(Bytes)
           /\ Len(SubSeq(p, a, b)) = (b + 1) - a
           /\ \A j \in 1..((b + 1) - a) : SubSeq(p, a, b)[j] = p[(a + j) - 1]
<1>1. PICK n \in Nat : n = Len(p)
  OBVIOUS
<1>2. SubSeq(p, a, b) = [j \in 1..((b + 1) - a) |-> p[(a + j) - 1]]
  <2>1. SubSeq(p, a, b) = [j \in 1..(b - a + 1) |-> p[a + j - 1]]
    OBVIOUS
  <2>2. b - a + 1 = (b + 1) - a
    BY <1>1
  <2>3. \A j \in 1..((b + 1) - a) : a + j - 1 = (a + j) - 1
    OBVIOUS
  <2> QED BY <2>1, <2>2, <2>3
<1>3. ASSUME NEW j \in 1..((b + 1) - a) PROVE p[(a + j) - 1] \in Bytes
  <2>1. (a + j) - 1 \in 1..n
    BY <1>1
  <2> QED BY <1>1, <2>1
<1>4. (b + 1) - a \in Nat
  BY <1>1
<1> QED BY <1>2, <1>3, <1>4

\* A match is no better than b.
Beats(b, m) == m.length < b.length \/ (m.length = b.length /\ b.query_pos <= m.query_pos)
End(m) == m.query_pos + m.length
MatchAt(c, p, s, n) ==
    [length |-> n, query_pos |-> s,
     count |-> Cardinality(Abstract!Occurrences(c, SubSeq(p, s + 1, s + n)))]

\* A match is none, or that of a part of p that occurs.
LEMMA MatchShape ==
    ASSUME NEW c, NEW p \in Seq(Bytes), NEW m
    PROVE  m \in Abstract!Matches(c, p)
             <=> \/ m = NoBest
                 \/ \E s \in 0..Len(p) : \E n \in 1..(Len(p) - s) :
                      m = MatchAt(c, p, s, n) /\ m.count > 0
<1>1. Abstract!NoMatch = NoBest
  BY DEF Abstract!NoMatch, NoBest
<1>2. \A s, n : [length |-> n, query_pos |-> s,
                 count |-> Abstract!Cardinality(Abstract!Occurrences(c, SubSeq(p, s + 1, s + n)))]
                   = MatchAt(c, p, s, n)
  BY SameCardinality DEF MatchAt
<1>3. \A s : Abstract!MatchesAt(c, p, s) = {MatchAt(c, p, s, n) : n \in 1..(Len(p) - s)}
  BY <1>2, Zenon DEF Abstract!MatchesAt
<1> DEFINE All == UNION {Abstract!MatchesAt(c, p, s) : s \in 0..Len(p)}
<1>4. m \in All <=> \E s \in 0..Len(p) : m \in Abstract!MatchesAt(c, p, s)
  BY Zenon
<1> DEFINE At(s) == {MatchAt(c, p, s, n) : n \in 1..(Len(p) - s)}
<1>5. m \in All <=> \E s \in 0..Len(p) : \E n \in 1..(Len(p) - s) : m = MatchAt(c, p, s, n)
  <2>1. \A s : m \in At(s) <=> \E n \in 1..(Len(p) - s) : m = MatchAt(c, p, s, n)
    OBVIOUS
  <2>2. \A s : m \in Abstract!MatchesAt(c, p, s) <=> m \in At(s)
    BY <1>3, Zenon
  <2> HIDE DEF At, All
  <2> QED BY <1>4, <2>1, <2>2, Zenon
<1>6. Abstract!Matches(c, p) = {NoBest} \cup {x \in All : x.count > 0}
  BY <1>1, Zenon DEF Abstract!Matches
<1> HIDE DEF All, At
<1>7. m \in Abstract!Matches(c, p) <=> m = NoBest \/ (m \in All /\ m.count > 0)
  BY <1>6, Zenon
<1> QED BY <1>5, <1>7, Zenon

\* What the fields of a match are.
LEMMA MatchFields ==
    ASSUME NEW c, NEW p \in Seq(Bytes), NEW m \in Abstract!Matches(c, p)
    PROVE  /\ m.length \in Nat /\ m.query_pos \in Nat
           /\ m.query_pos + m.length <= Len(p)
           /\ m.length = 0 => m.query_pos = 0 /\ m = NoBest
           /\ m.length > 0 =>
                /\ Abstract!Occurrences(c, SubSeq(p, m.query_pos + 1, m.query_pos + m.length)) # {}
                /\ m = MatchAt(c, p, m.query_pos, m.length)
<1>1. CASE m = NoBest
  <2>1. m.length = 0 /\ m.query_pos = 0
    BY <1>1 DEF NoBest
  <2> QED BY <1>1, <2>1
<1>2. CASE m # NoBest
  <2>1. PICK L \in Nat : L = Len(p)
    OBVIOUS
  <2>2. PICK s \in 0..L, k \in Nat : k \in 1..(L - s) /\ m = MatchAt(c, p, s, k) /\ m.count > 0
    BY <1>2, <2>1, MatchShape
  <2>3. m.length = k /\ m.query_pos = s
    BY <2>2 DEF MatchAt
  <2>4. Abstract!Occurrences(c, SubSeq(p, s + 1, s + k)) # {}
    <3> SUFFICES ASSUME Abstract!Occurrences(c, SubSeq(p, s + 1, s + k)) = {} PROVE FALSE
      OBVIOUS
    <3>1. m.count = Cardinality({})
      BY <2>2 DEF MatchAt
    <3>2. m.count = 0
      BY <3>1, FS_EmptySet
    <3> QED BY <2>2, <3>2
  <2>5. k > 0 /\ s + k <= L
    BY <2>2
  <2>6. k # 0
    BY <2>5
  <2> QED BY <2>1, <2>2, <2>3, <2>4, <2>5, <2>6
<1> QED BY <1>1, <1>2

\* The match that beats all is the longest one.
LEMMA LongestIs ==
    ASSUME NEW c, NEW p \in Seq(Bytes), NEW b \in Abstract!Matches(c, p),
           \A m \in Abstract!Matches(c, p) : Beats(b, m)
    PROVE  Abstract!Longest(c, p) = b
<1> DEFINE S == Abstract!Matches(c, p)
           Is(m) == m \in S /\ \A x \in S : Beats(m, x)
<1>1. Abstract!Longest(c, p) = CHOOSE m \in S : \A x \in S : Beats(m, x)
  BY DEF Abstract!Longest, Beats
<1>2. ASSUME NEW m \in S, \A x \in S : Beats(m, x) PROVE m = b
  <2>1. Beats(m, b) /\ Beats(b, m)
    BY <1>2
  <2>2. /\ m.length \in Nat /\ m.query_pos \in Nat /\ b.length \in Nat /\ b.query_pos \in Nat
    BY MatchFields
  <2>3. m.length = b.length /\ m.query_pos = b.query_pos
    BY <2>1, <2>2 DEF Beats
  <2>4. CASE m.length = 0
    <3>1. m = NoBest /\ b = NoBest
      BY <2>3, <2>4, MatchFields
    <3> QED BY <3>1
  <2>5. CASE m.length # 0
    <3>1. m.length > 0 /\ b.length > 0
      BY <2>2, <2>3, <2>5
    <3>2. m = MatchAt(c, p, m.query_pos, m.length) /\ b = MatchAt(c, p, b.query_pos, b.length)
      BY <3>1, MatchFields
    <3> HIDE DEF S
    <3> QED BY <2>3, <3>2
  <2> QED BY <2>4, <2>5
<1> HIDE DEF S
<1> QED BY <1>1, <1>2

\* b is the longest match that ends at e or before, or that is the part of p of
\* length n or less that ends right behind.
Sofar(b, p, e, n) ==
    /\ b \in Abstract!Matches(corpus[1], p)
    /\ \A m \in Abstract!Matches(corpus[1], p) :
         End(m) <= e \/ (End(m) = e + 1 /\ m.length <= n) => Beats(b, m)
LongestAnswers ==
    /\ pc = "end" => /\ loc.e \in Nat
                     /\ Sofar(loc.best, req[1].p, loc.e, 0) /\ End(loc.best) <= loc.e
    /\ pc = "extend" =>
         LET p == req[1].p IN
         /\ loc.e + 1 <= Len(p) /\ loc.k <= loc.e + 1 /\ loc.len = loc.e + 1 - loc.k
         /\ Interval(fm, SubSeq(p, loc.k + 1, loc.e + 1)) = <<loc.lo, loc.hi>>
         /\ loc.lo < loc.hi
         /\ Sofar(loc.best, p, loc.e, loc.len) /\ End(loc.best) <= loc.e + 1

\* A fresh search has found nothing, and nothing ends at the start.
LEMMA LongestMatchAnswers ==
    ASSUME IInv, LongestMatch
    PROVE  LongestAnswers' /\ (pc' = "done" => Answered')
<1>1. /\ pc = "LongestMatch" /\ pc \notin {"idle", "done"} \cup Places
  BY DEF LongestMatch, Places
<1>2. req[1].op = "LongestMatch" /\ req[1] \in Requests /\ ObjectHolds
  BY <1>1, AtCall
<1>3. PICK p \in Seq(Bytes) : p = req[1].p
  BY <1>2, Arguments
<1>4. NoBest.length = 0 /\ NoBest.query_pos = 0
  BY DEF NoBest
<1>5. \A c : NoBest \in Abstract!Matches(c, p)
  BY MatchShape
<1>6. CASE ~ Valid(fm)
  <2>1. Respond(NoBest) /\ corpus = <<>>
    BY <1>2, <1>6, CorpusOf DEF LongestMatch
  <2> DEFINE c == Abstract!NoDocs
  <2>2. ASSUME NEW m \in Abstract!Matches(c, p) PROVE Beats(NoBest, m)
    <3>1. \A v : Abstract!Occurrences(c, v) = {}
      BY NoDocsSets
    <3>2. m.length \in Nat /\ ~ (m.length > 0) /\ m.query_pos \in Nat
      BY <3>1, MatchFields
    <3> QED BY <1>4, <3>2 DEF Beats
  <2>3. Abstract!Longest(c, p) = NoBest
    BY <1>5, <2>2, LongestIs
  <2> HIDE DEF c
  <2>4. Abstract!Answer(corpus, req[1]) = NoBest
    BY <1>2, <1>3, <2>1, <2>3, ScanAnswer DEF c
  <2> QED BY <2>1, <2>4 DEF Respond, Answered, LongestAnswers
<1>7. CASE Valid(fm)
  <2>1. Go("end", [best |-> NoBest, e |-> 0])
    BY <1>7 DEF LongestMatch
  <2>2. /\ pc' = "end" /\ loc'.best = NoBest /\ loc'.e = 0 /\ req' = req /\ corpus' = corpus
    BY <2>1 DEF Go
  <2>3. Sofar(NoBest, p, 0, 0)
    <3>1. ASSUME NEW m \in Abstract!Matches(corpus[1], p),
                 End(m) <= 0 \/ (End(m) = 0 + 1 /\ m.length <= 0)
          PROVE  Beats(NoBest, m)
      <4>1. m.length \in Nat /\ m.query_pos \in Nat
        BY MatchFields
      <4>2. m.length = 0
        BY <3>1, <4>1 DEF End
      <4> QED BY <1>4, <4>1, <4>2 DEF Beats
    <3> QED BY <1>5, <3>1 DEF Sofar
  <2>4. End(NoBest) = 0 /\ 0 <= 0 /\ 0 \in Nat
    BY <1>4 DEF End
  <2>5. LongestAnswers'
    BY <1>3, <2>2, <2>3, <2>4 DEF LongestAnswers, Sofar
  <2> QED BY <2>2, <2>5
<1> QED BY <1>6, <1>7

\* At the end of p every match has been seen.
LEMMA LongestEndAnswers ==
    ASSUME IInv, LongestAnswers, LongestEnd
    PROVE  LongestAnswers' /\ (pc' = "done" => Answered')
<1>1. pc = "end" /\ pc \in Places
  BY DEF LongestEnd, Places
<1>2. Valid(fm) /\ req[1].op = OpOf(pc) /\ req[1] \in Requests /\ ObjectHolds
  BY <1>1, InPlace
<1>3. req[1].op = "LongestMatch"
  BY <1>1, <1>2 DEF OpOf
<1>4. PICK p \in Seq(Bytes) : p = req[1].p
  BY <1>2, <1>3, Arguments
<1>5. PICK L \in Nat : L = Len(p)
  OBVIOUS
<1>6. PICK e \in Nat : e = loc.e
  BY <1>1 DEF LongestAnswers
<1>7. PICK b \in Abstract!Matches(corpus[1], p) : b = loc.best
  BY <1>1, <1>4 DEF LongestAnswers, Sofar
<1>8. Sofar(b, p, e, 0) /\ End(b) <= e
  BY <1>1, <1>4, <1>6, <1>7 DEF LongestAnswers
<1>9. b.length \in Nat /\ b.query_pos \in Nat
  BY MatchFields
<1>10. CASE ~ (e < L)
  <2>1. Respond(b)
    BY <1>4, <1>5, <1>6, <1>7, <1>10 DEF LongestEnd
  <2>2. ASSUME NEW m \in Abstract!Matches(corpus[1], p) PROVE Beats(b, m)
    <3>1. m.length \in Nat /\ m.query_pos \in Nat /\ m.query_pos + m.length <= L
      BY <1>5, MatchFields
    <3>2. End(m) <= e
      BY <1>10, <3>1 DEF End
    <3> QED BY <1>8, <3>2 DEF Sofar
  <2>3. Abstract!Longest(corpus[1], p) = b
    BY <2>2, LongestIs
  <2>4. Abstract!Answer(corpus, req[1]) = b
    BY <1>2, <1>3, <1>4, <2>3, CorpusOf, ScanAnswer
  <2> QED BY <2>1, <2>4 DEF Respond, Answered, LongestAnswers
<1>11. CASE e < L
  <2>1. Go("extend", [best |-> b, e |-> e, k |-> e + 1, lo |-> 0, hi |-> M(fm), len |-> 0])
    BY <1>4, <1>5, <1>6, <1>7, <1>11 DEF LongestEnd
  <2>2. /\ pc' = "extend" /\ fm' = fm /\ req' = req /\ corpus' = corpus
        /\ loc'.best = b /\ loc'.e = e /\ loc'.k = e + 1 /\ loc'.lo = 0 /\ loc'.hi = M(fm)
        /\ loc'.len = 0
    BY <2>1 DEF Go
  <2>3. e + 1 <= L /\ e + 1 <= e + 1 /\ 0 = e + 1 - (e + 1)
    BY <1>11
  <2>4. Interval(fm, SubSeq(p, (e + 1) + 1, e + 1)) = <<0, M(fm)>> /\ 0 < M(fm)
    <3>1. e + 1 \in 0..L /\ (e + 1) + 1 \in Nat \ {0} /\ ((e + 1) + 1) - ((e + 1) + 1) = 0
      BY <2>3
    <3>2. SubSeq(p, (e + 1) + 1, e + 1) \in Seq(Bytes) /\ Len(SubSeq(p, (e + 1) + 1, e + 1)) = 0
      BY <1>5, <3>1, SliceFacts
    <3>3. SubSeq(p, (e + 1) + 1, e + 1) = <<>>
      BY <3>2, EmptySeq
    <3>4. Serves(fm, Text, Array) /\ M(fm) = fm.text_len_ + 1 /\ fm.text_len_ \in Nat
      BY <1>2, IndexServes
    <3>5. Interval(fm, <<>>) = <<0, M(fm)>>
      BY <3>4, IntervalEmpty
    <3>6. 0 < M(fm)
      BY <3>4
    <3> QED BY <3>3, <3>5, <3>6
  <2>5. End(b) <= e + 1
    BY <1>8, <1>9 DEF End
  <2>6. LongestAnswers'
    BY <1>4, <1>5, <1>8, <2>2, <2>3, <2>4, <2>5 DEF LongestAnswers, Sofar
  <2> QED BY <2>2, <2>6
<1> QED BY <1>10, <1>11

\* The next byte before the match: the match is longer, or it ends here since no
\* longer part that ends here occurs.
LEMMA LongestExtendAnswers ==
    ASSUME IInv, LongestAnswers, LongestExtend
    PROVE  LongestAnswers' /\ (pc' = "done" => Answered')
<1>1. pc = "extend" /\ pc \in Places
  BY DEF LongestExtend, Places
<1>2. Valid(fm) /\ req[1].op = OpOf(pc) /\ req[1] \in Requests /\ ObjectHolds
  BY <1>1, InPlace
<1>3. req[1].op = "LongestMatch"
  BY <1>1, <1>2 DEF OpOf
<1>4. PICK p \in Seq(Bytes) : p = req[1].p
  BY <1>2, <1>3, Arguments
<1>5. PICK L \in Nat : L = Len(p)
  OBVIOUS
<1>6. PICK e \in Nat, k \in Nat : e = loc.e /\ k = loc.k
  BY <1>1, <1>4, <1>5 DEF IInv, QueryHolds, LongestHolds
<1>7. PICK lo \in 0..M(fm), hi \in 0..M(fm) : lo = loc.lo /\ hi = loc.hi
  BY <1>1 DEF IInv, QueryHolds, LongestHolds
<1>8. DOMAIN loc = {"best", "e", "k", "lo", "hi", "len"}
  BY <1>1 DEF IInv, QueryHolds, LongestHolds
<1>9. PICK b \in Abstract!Matches(corpus[1], p) : b = loc.best
  BY <1>1, <1>4 DEF LongestAnswers, Sofar
<1>10. PICK len : len = loc.len
  OBVIOUS
<1>11. /\ e + 1 <= L /\ k <= e + 1 /\ len = e + 1 - k
       /\ Interval(fm, SubSeq(p, k + 1, e + 1)) = <<lo, hi>> /\ lo < hi
       /\ Sofar(b, p, e, len) /\ End(b) <= e + 1
  BY <1>1, <1>4, <1>5, <1>6, <1>7, <1>9, <1>10 DEF LongestAnswers
<1>12. len \in Nat /\ k + len = e + 1
  BY <1>11
<1>13. b.length \in Nat /\ b.query_pos \in Nat
  BY MatchFields
<1> DEFINE id == fm.byte_to_id_[p[k]]
           nlo == Extend(fm, id, lo)
           nhi == Extend(fm, id, hi)
           u == SubSeq(p, k + 1, e + 1)
           v == SubSeq(p, k, e + 1)
<1>14. /\ u \in Seq(Bytes) /\ Len(u) = len
       /\ \A j \in 1..len : u[j] = p[((k + 1) + j) - 1]
  <2>1. k + 1 \in Nat \ {0} /\ e + 1 \in 0..L /\ k + 1 <= (e + 1) + 1
        /\ ((e + 1) + 1) - (k + 1) = len
    BY <1>11, <1>12
  <2> HIDE DEF u
  <2> QED BY <1>5, <2>1, SliceFacts DEF u
<1>15. ASSUME k # 0
       PROVE  /\ v \in Seq(Bytes) /\ Len(v) = len + 1 /\ v # <<>>
              /\ \A j \in 1..(len + 1) : v[j] = p[(k + j) - 1]
              /\ OneMore(v, u)
              /\ v[1] = p[k] /\ p[k] \in Bytes /\ id \in Int
  <2>1. k \in Nat \ {0} /\ e + 1 \in 0..L /\ k <= (e + 1) + 1 /\ ((e + 1) + 1) - k = len + 1
    BY <1>11, <1>12, <1>15
  <2> HIDE DEF v
  <2>2. /\ v \in Seq(Bytes) /\ Len(v) = len + 1
        /\ \A j \in 1..(len + 1) : v[j] = p[(k + j) - 1]
    BY <1>5, <2>1, SliceFacts DEF v
  <2>3. ASSUME NEW j \in 1..len PROVE v[j + 1] = u[j]
    <3>1. j + 1 \in 1..(len + 1) /\ (k + (j + 1)) - 1 = ((k + 1) + j) - 1
      BY <1>12
    <3> HIDE DEF u
    <3> QED BY <1>14, <2>2, <3>1
  <2>4. OneMore(v, u)
    <3> HIDE DEF u
    <3> QED BY <1>14, <2>2, <2>3 DEF OneMore
  <2>5. v[1] = p[k]
    <3>1. 1 \in 1..(len + 1) /\ (k + 1) - 1 = k
      BY <1>12
    <3> QED BY <2>2, <3>1
  <2>6. k \in 1..L
    BY <1>11, <2>1
  <2>7. p[k] \in Bytes
    BY <1>5, <2>6
  <2>8. PICK x \in Bytes : x = p[k]
    BY <2>7
  <2>9. id \in Int
    BY <1>2, <2>8, IdType
  <2>10. v # <<>>
    BY <2>2, <1>12
  <2> QED BY <2>2, <2>4, <2>5, <2>7, <2>9, <2>10
<1> HIDE DEF u, v
<1>16. Interval(fm, u) = <<lo, hi>>
  BY <1>11 DEF u
<1>17. PICK mm \in Nat : mm = M(fm)
  BY <1>2, IndexServes
<1>18. CASE k = 0 \/ id < 0 \/ nlo >= nhi
  <2>1. Go("end", [best |-> b, e |-> e + 1])
    BY <1>4, <1>6, <1>7, <1>9, <1>18 DEF LongestExtend
  <2>2. /\ pc' = "end" /\ req' = req /\ corpus' = corpus
        /\ loc'.best = b /\ loc'.e = e + 1
    BY <2>1 DEF Go
  <2>3. ASSUME k # 0 PROVE Abstract!Occurrences(corpus[1], v) = {}
    <3>1. Serves(fm, Text, Array)
      BY <1>2, IndexServes
    <3>2. Interval(fm, v) = Extended(fm, id, <<lo, hi>>)
      BY <1>14, <1>15, <1>16, <2>3, <3>1, IntervalStep DEF OneMore
    <3>3. [x \in 1..2 |-> Extend(fm, id, <<lo, hi>>[x])] = <<nlo, nhi>>
      OBVIOUS
    <3> HIDE DEF id, nlo, nhi
    <3>4. id < 0 \/ nlo >= nhi
      BY <1>18, <2>3
    <3>5. Interval(fm, v) = <<0, 0>>
      BY <3>2, <3>3, <3>4 DEF Extended
    <3> QED BY <1>2, <1>15, <2>3, <3>5, IntervalCounts
  <2>4. ASSUME NEW m \in Abstract!Matches(corpus[1], p), End(m) <= e + 1 PROVE Beats(b, m)
    <3>1. /\ m.length \in Nat /\ m.query_pos \in Nat /\ m.query_pos + m.length <= L
      BY <1>5, MatchFields
    <3>2. CASE End(m) <= e \/ m.length <= len
      <4>1. End(m) <= e \/ (End(m) = e + 1 /\ m.length <= len)
        BY <2>4, <3>1, <3>2 DEF End
      <4> QED BY <1>11, <4>1 DEF Sofar
    <3>3. CASE ~ (End(m) <= e) /\ ~ (m.length <= len)
      <4>1. PICK s \in Nat, n \in Nat : s = m.query_pos /\ n = m.length
        BY <3>1
      <4>2. s + n = e + 1 /\ n > len
        BY <2>4, <3>1, <3>3, <4>1, <1>12 DEF End
      <4>3. k # 0 /\ s + 1 <= k
        BY <1>12, <4>2
      <4>4. n > 0
        BY <1>12, <4>2
      <4> DEFINE w == SubSeq(p, s + 1, s + n)
      <4>5. Abstract!Occurrences(corpus[1], w) # {}
        BY <4>1, <4>4, MatchFields
      <4>6. /\ w \in Seq(Bytes) /\ Len(w) = n
            /\ \A j \in 1..n : w[j] = p[((s + 1) + j) - 1]
        <5>0. s + n <= L
          BY <3>1, <4>1
        <5>1. s + 1 \in Nat \ {0} /\ s + n \in 0..L /\ s + 1 <= (s + n) + 1
              /\ ((s + n) + 1) - (s + 1) = n
          <6> HIDE DEF w
          <6> QED BY <5>0
        <5> HIDE DEF w
        <5> QED BY <1>5, <5>1, SliceFacts DEF w
      <4> HIDE DEF w
      <4>7. PartOf(v, w, (k - 1) - s)
        <5>1. (k - 1) - s \in Nat /\ ((k - 1) - s) + (len + 1) = n
          BY <1>12, <4>2, <4>3
        <5>2. ASSUME NEW j \in 1..(len + 1) PROVE v[j] = w[((k - 1) - s) + j]
          <6>1. ((k - 1) - s) + j \in 1..n
            BY <1>12, <5>1
          <6>2. ((s + 1) + (((k - 1) - s) + j)) - 1 = (k + j) - 1
            BY <1>12
          <6>3. PICK i \in 1..n : i = ((k - 1) - s) + j
            BY <6>1
          <6>4. w[i] = p[((s + 1) + i) - 1]
            BY <4>6
          <6>5. w[i] = p[(k + j) - 1]
            BY <6>2, <6>3, <6>4
          <6>6. v[j] = p[(k + j) - 1]
            BY <1>15, <4>3
          <6> QED BY <6>3, <6>5, <6>6
        <5>3. ((k - 1) - s) + Len(v) <= Len(w)
          BY <1>15, <4>3, <4>6, <5>1
        <5>4. Len(v) = len + 1
          BY <1>15, <4>3
        <5> QED BY <5>2, <5>3, <5>4 DEF PartOf
      <4>8. (k - 1) - s \in Nat
        BY <4>3
      <4>9. Abstract!Occurrences(corpus[1], v) # {}
        BY <1>2, <1>15, <4>3, <4>5, <4>6, <4>7, <4>8, PartOccurs, CorpusOf
      <4> QED BY <2>3, <4>3, <4>9
    <3> QED BY <3>2, <3>3
  <2>5. Sofar(b, p, e + 1, 0)
    <3>1. ASSUME NEW m \in Abstract!Matches(corpus[1], p),
                 End(m) <= e + 1 \/ (End(m) = (e + 1) + 1 /\ m.length <= 0)
          PROVE  Beats(b, m)
      <4>1. m.length \in Nat /\ m.query_pos \in Nat
        BY MatchFields
      <4>2. CASE End(m) <= e + 1
        BY <2>4, <4>2
      <4>3. CASE m.length <= 0
        <5>1. m.length = 0
          BY <4>1, <4>3
        <5>2. m.query_pos = 0
          BY <5>1, MatchFields
        <5>3. End(m) <= e + 1
          BY <5>1, <5>2 DEF End
        <5> QED BY <2>4, <5>3
      <4> QED BY <3>1, <4>2, <4>3
    <3> QED BY <3>1 DEF Sofar
  <2>6. LongestAnswers'
    BY <1>4, <1>11, <2>2, <2>5 DEF LongestAnswers, Sofar
  <2> QED BY <2>2, <2>6
<1>19. CASE ~ (k = 0 \/ id < 0 \/ nlo >= nhi)
  <2> DEFINE nb == IF len + 1 > b.length
                     THEN [length |-> len + 1, query_pos |-> k - 1, count |-> nhi - nlo]
                     ELSE b
  <2>1. Go("extend", [loc EXCEPT !.k = k - 1, !.lo = nlo, !.hi = nhi,
                                 !.len = len + 1, !.best = nb])
    BY <1>4, <1>6, <1>7, <1>8, <1>9, <1>10, <1>19 DEF LongestExtend
  <2>2. k # 0 /\ ~ (id < 0)
    BY <1>19
  <2>3. PICK d \in 0..(fm.sigma_ - 1) : d = id
    <3>1. PICK x \in Bytes : x = p[k]
      BY <1>15, <2>2
    <3>2. PICK i : i = id
      OBVIOUS
    <3>3. i \in Int /\ ~ (i < 0) /\ (i >= 0 => i \in 2..(fm.sigma_ - 1)) /\ fm.sigma_ \in Nat
      BY <1>2, <2>2, <3>1, <3>2, IdType
    <3>4. i \in 0..(fm.sigma_ - 1)
      BY <3>3
    <3> QED BY <3>2, <3>4
  <2>4. PICK nl \in 0..mm, nh \in 0..mm : nl = Extend(fm, d, lo) /\ nh = Extend(fm, d, hi)
    BY <1>2, <1>17, ExtendType
  <2>5. nl = nlo /\ nh = nhi
    BY <2>3, <2>4
  <2>6. nl < nh
    BY <1>19, <2>5
  <2>7. Interval(fm, v) = <<nl, nh>>
    <3>1. PICK x, y : x = u /\ y = v
      OBVIOUS
    <3>2. x \in Seq(Bytes) /\ Interval(fm, x) = <<lo, hi>>
      BY <1>14, <1>16, <3>1
    <3>3. y \in Seq(Bytes) /\ OneMore(y, x) /\ y[1] = p[k]
      BY <1>15, <2>2, <3>1
    <3>4. d = fm.byte_to_id_[y[1]]
      BY <2>3, <3>3
    <3>5. lo \in 0..M(fm) /\ hi \in 0..M(fm) /\ lo < hi /\ Extend(fm, d, lo) < Extend(fm, d, hi)
      BY <1>11, <1>17, <2>4, <2>6
    <3>6. Interval(fm, y) = <<Extend(fm, d, lo), Extend(fm, d, hi)>>
      BY <1>2, <3>2, <3>3, <3>4, <3>5, Prefixed
    <3> QED BY <2>4, <3>1, <3>6
  <2> HIDE DEF id, nlo, nhi
  <2>8. nh - nl = Cardinality(Abstract!Occurrences(corpus[1], v))
    <3>1. Width(<<nl, nh>>) = nh - nl
      BY DEF Width
    <3> QED BY <1>2, <1>15, <2>2, <2>7, <3>1, IntervalCounts
  <2> DEFINE x == MatchAt(corpus[1], p, k - 1, len + 1)
  <2>9. (k - 1) + 1 = k /\ (k - 1) + (len + 1) = e + 1 /\ k - 1 \in Nat
    BY <1>12, <2>2
  <2>10. x = [length |-> len + 1, query_pos |-> k - 1, count |-> nh - nl]
    BY <2>8, <2>9 DEF MatchAt, v
  <2>11. x \in Abstract!Matches(corpus[1], p)
    <3>1. x.count = nh - nl
      BY <2>10
    <3>2. x.count > 0
      BY <2>6, <3>1
    <3>3. k - 1 \in 0..L /\ len + 1 \in 1..(L - (k - 1))
      BY <1>11, <1>12, <2>9
    <3> HIDE DEF x
    <3> QED BY <1>5, <3>2, <3>3, MatchShape DEF x
  <2>12. nb = IF len + 1 > b.length THEN x ELSE b
    BY <2>5, <2>10
  <2> HIDE DEF nb
  <2>13. x.length = len + 1 /\ x.query_pos = k - 1
    BY <2>10
  <2> HIDE DEF x
  <2>14. /\ pc' = "extend" /\ fm' = fm /\ req' = req /\ corpus' = corpus
         /\ loc'.best = nb /\ loc'.e = e /\ loc'.k = k - 1 /\ loc'.lo = nl /\ loc'.hi = nh
         /\ loc'.len = len + 1
    BY <1>6, <1>8, <2>1, <2>5 DEF Go
  <2>15. nb \in Abstract!Matches(corpus[1], p) /\ End(nb) <= e + 1
    BY <1>11, <2>9, <2>11, <2>12, <2>13 DEF End
  <2>16. ASSUME NEW m \in Abstract!Matches(corpus[1], p),
                End(m) <= e \/ (End(m) = e + 1 /\ m.length <= len + 1)
         PROVE  Beats(nb, m)
    <3>1. m.length \in Nat /\ m.query_pos \in Nat
      BY MatchFields
    <3>2. CASE End(m) <= e \/ m.length <= len
      <4>1. Beats(b, m)
        BY <1>11, <2>16, <3>2 DEF Sofar
      <4>2. CASE len + 1 > b.length
        BY <1>12, <1>13, <2>12, <2>13, <3>1, <4>1, <4>2 DEF Beats
      <4>3. CASE ~ (len + 1 > b.length)
        BY <2>12, <4>1, <4>3
      <4> QED BY <4>2, <4>3
    <3>3. CASE ~ (End(m) <= e \/ m.length <= len)
      <4>1. End(m) = e + 1 /\ m.length = len + 1
        BY <1>12, <2>16, <3>1, <3>3
      <4>2. m.query_pos = k - 1
        BY <1>12, <3>1, <4>1 DEF End
      <4>3. CASE len + 1 > b.length
        BY <2>12, <2>13, <4>1, <4>2, <4>3, <1>12, <2>9 DEF Beats
      <4>4. CASE ~ (len + 1 > b.length)
        BY <1>11, <1>12, <1>13, <2>12, <4>1, <4>2, <4>4 DEF Beats, End
      <4> QED BY <4>3, <4>4
    <3> QED BY <3>2, <3>3
  <2>17. Sofar(nb, p, e, len + 1)
    BY <2>15, <2>16 DEF Sofar
  <2>18. /\ k - 1 <= e + 1 /\ len + 1 = e + 1 - (k - 1)
    BY <1>12, <2>9
  <2>19. Interval(fm, SubSeq(p, (k - 1) + 1, e + 1)) = <<nl, nh>>
    BY <2>7, <2>9 DEF v
  <2>20. LongestAnswers'
    BY <1>4, <1>5, <1>11, <2>6, <2>14, <2>15, <2>17, <2>18, <2>19 DEF LongestAnswers, Sofar
  <2> QED BY <2>14, <2>20
<1> QED BY <1>18, <1>19

-----------------------------------------------------------------------------
(***************************************************************************)
(* The answer of CountBatch.                                               *)
(***************************************************************************)
PatternCount(x) == Abstract!Count(corpus[1], Batch[x])

\* Pattern x belongs to a tile before t, or its lane in the tile at t has ended.
Settled(x, place, t, lane) ==
    x <= t \/ (place # "tile" /\ x - t \in 1..Tile /\ ~ lane[x - t].active)

\* The result: the counts of the patterns that are settled.
Due(place, t, lane) ==
    [x \in 1..Len(Batch) |-> IF Settled(x, place, t, lane) THEN PatternCount(x) ELSE 0]
CountAnswers ==
    pc \in {"tile", "round", "scatter"} => loc.result = Due(pc, loc.t0, loc.lane)

\* The lanes are the patterns of the tile.
LEMMA LaneOf ==
    ASSUME NEW n \in Nat, n = Len(Batch), NEW t \in Nat, t = loc.t0, NEW x \in 1..n
    PROVE  /\ x - t \in Lanes(n) <=> x - t \in 1..Tile
           /\ t + (x - t) = x
BY TileAssumption DEF Lanes, MinOf

\* The patterns of a batch count as their intervals have rows.
LEMMA PatternCounts ==
    ASSUME ObjectHolds, Valid(fm), NEW p \in Seq(Bytes)
    PROVE  /\ Len(p) = 0 => Abstract!Count(corpus[1], p) = M(fm)
           /\ \A lo, hi : Interval(fm, p) = <<lo, hi>> => Abstract!Count(corpus[1], p) = hi - lo
<1>1. Abstract!Count(corpus[1], p) = Width(Interval(fm, p))
  BY IntervalCounts
<1>2. ASSUME NEW lo, NEW hi, Interval(fm, p) = <<lo, hi>>
      PROVE  Abstract!Count(corpus[1], p) = hi - lo
  BY <1>1, <1>2 DEF Width
<1>3. ASSUME Len(p) = 0 PROVE Abstract!Count(corpus[1], p) = M(fm)
  <2>1. p = <<>>
    BY <1>3
  <2>2. Serves(fm, Text, Array) /\ M(fm) \in Nat
    BY IndexServes
  <2>3. Interval(fm, p) = <<0, M(fm)>>
    BY <2>1, <2>2, IntervalEmpty
  <2>4. Abstract!Count(corpus[1], p) = M(fm) - 0
    BY <1>2, <2>3
  <2> QED BY <2>2, <2>4
<1> QED BY <1>2, <1>3

\* Position i of the suffix from n + 1 is position i + 1 of the suffix from n.
LEMMA ShiftedIndex ==
    ASSUME NEW m \in Nat, NEW n \in 1..m, NEW i \in 1..((m + 1) - (n + 1))
    PROVE  /\ i + 1 \in 1..((m + 1) - n)
           /\ (n + (i + 1)) - 1 = ((n + 1) + i) - 1
OBVIOUS

\* What an active lane comes to with the byte it is extended by: the pattern
\* occurs nowhere, or with its last byte it is counted.
LEMMA LaneCounts ==
    ASSUME ObjectHolds, Valid(fm), NEW x \in LaneStates, NEW p \in Seq(Bytes),
           LaneHolds(x, p), x.active,
           NEW id, id = fm.byte_to_id_[p[x.posn]],
           NEW lo, lo = Extend(fm, id, x.lo), NEW hi, hi = Extend(fm, id, x.hi)
    PROVE  /\ id < 0 \/ lo >= hi => Abstract!Count(corpus[1], p) = 0
           /\ ~ (id < 0) /\ ~ (lo >= hi) /\ x.posn = 1 => Abstract!Count(corpus[1], p) = hi - lo
<1>1. /\ x.lo \in 0..M(fm) /\ x.hi \in 0..M(fm) /\ x.lo < x.hi /\ x.posn \in 1..Len(p)
      /\ Interval(fm, SubSeq(p, x.posn + 1, Len(p))) = <<x.lo, x.hi>>
  BY DEF LaneStates, LaneHolds
<1>2. PICK m \in Nat : m = Len(p)
  OBVIOUS
<1>3. PICK n \in 1..m, xlo \in Nat, xhi \in Nat : n = x.posn /\ xlo = x.lo /\ xhi = x.hi
  <2>1. M(fm) \in Nat
    BY IndexServes
  <2> QED BY <1>1, <1>2, <2>1
<1> DEFINE u == SubSeq(p, n + 1, m)
           v == SubSeq(p, n, m)
<1>4. /\ u \in Seq(Bytes) /\ Len(u) = (m + 1) - (n + 1)
      /\ \A j \in 1..((m + 1) - (n + 1)) : u[j] = p[((n + 1) + j) - 1]
  <2>1. n + 1 \in Nat \ {0} /\ m \in 0..m /\ n + 1 <= m + 1
    BY <1>3
  <2> HIDE DEF u
  <2> QED BY <1>2, <2>1, SliceFacts DEF u
<1>5. /\ v \in Seq(Bytes) /\ Len(v) = (m + 1) - n
      /\ \A j \in 1..((m + 1) - n) : v[j] = p[(n + j) - 1]
  <2>1. n \in Nat \ {0} /\ m \in 0..m /\ n <= m + 1
    BY <1>3
  <2> HIDE DEF v
  <2> QED BY <1>2, <2>1, SliceFacts DEF v
<1>6. Interval(fm, u) = <<xlo, xhi>>
  BY <1>1, <1>2, <1>3
<1> HIDE DEF u
<1>7. v = p \/ n # 1
  BY <1>2
<1> HIDE DEF v
<1>8. Len(v) = Len(u) + 1 /\ v # <<>>
  <2>1. Len(v) = Len(u) + 1 /\ Len(v) # 0
    BY <1>3, <1>4, <1>5
  <2> QED BY <2>1
<1>9. ASSUME NEW j \in 1..Len(u) PROVE v[j + 1] = u[j]
  <2> SUFFICES ASSUME NEW i \in 1..((m + 1) - (n + 1)) PROVE v[i + 1] = u[i]
    BY <1>4
  <2>1. i + 1 \in 1..((m + 1) - n)
    BY ShiftedIndex
  <2>2. (n + (i + 1)) - 1 = ((n + 1) + i) - 1
    BY ShiftedIndex
  <2>3. v[i + 1] = p[(n + (i + 1)) - 1]
    BY <1>5, <2>1
  <2>4. u[i] = p[((n + 1) + i) - 1]
    BY <1>4
  <2> QED BY <2>2, <2>3, <2>4
<1>10. v[1] = p[n]
  <2>1. 1 \in 1..((m + 1) - n) /\ (n + 1) - 1 = n
    BY <1>3
  <2> QED BY <1>5, <2>1
<1>11. PartOf(v, p, n - 1)
  <2>1. (n - 1) + Len(v) <= Len(p)
    BY <1>2, <1>3, <1>5
  <2>2. ASSUME NEW j \in 1..Len(v) PROVE v[j] = p[(n - 1) + j]
    <3>1. j \in 1..((m + 1) - n) /\ (n + j) - 1 = (n - 1) + j
      BY <1>3, <1>5
    <3> QED BY <1>5, <3>1
  <2> QED BY <2>1, <2>2 DEF PartOf
<1>12. Interval(fm, v) = Extended(fm, id, <<xlo, xhi>>)
  <2>1. Serves(fm, Text, Array)
    BY IndexServes
  <2>2. id = fm.byte_to_id_[v[1]]
    BY <1>3, <1>10
  <2>3. u \in Seq(Bytes) /\ v \in Seq(Bytes)
    BY <1>4, <1>5
  <2>4. Interval(fm, v) = Extended(fm, fm.byte_to_id_[v[1]], Interval(fm, u))
    BY <1>8, <1>9, <2>1, <2>3, IntervalStep
  <2> QED BY <1>6, <2>2, <2>4
<1>13. [e \in 1..2 |-> Extend(fm, id, <<xlo, xhi>>[e])] = <<lo, hi>>
  BY <1>3
<1>14. Interval(fm, v) = IF id < 0 \/ lo >= hi THEN <<0, 0>> ELSE <<lo, hi>>
  <2>1. <<xlo, xhi>> # <<0, 0>>
    BY <1>1, <1>3
  <2>2. Extended(fm, id, <<xlo, xhi>>)
          = IF <<xlo, xhi>> = <<0, 0>> \/ id < 0 \/ <<lo, hi>>[1] >= <<lo, hi>>[2]
            THEN <<0, 0>> ELSE <<lo, hi>>
    BY <1>13 DEF Extended
  <2> QED BY <1>12, <2>1, <2>2
<1>15. ASSUME id < 0 \/ lo >= hi PROVE Abstract!Count(corpus[1], p) = 0
  <2>1. Interval(fm, v) = <<0, 0>>
    BY <1>14, <1>15
  <2>2. Abstract!Occurrences(corpus[1], v) = {}
    BY <1>5, <1>8, <2>1, IntervalCounts
  <2>3. n - 1 \in Nat
    BY <1>3
  <2>4. Abstract!Occurrences(corpus[1], p) = {}
    BY <1>5, <1>11, <2>2, <2>3, PartOccurs, CorpusOf
  <2>5. p # <<>>
    BY <1>2, <1>3
  <2>6. Width(Interval(fm, p)) = 0
    BY <2>4, <2>5, IntervalCounts
  <2> QED BY <2>6, IntervalCounts
<1>16. ASSUME ~ (id < 0), ~ (lo >= hi), x.posn = 1 PROVE Abstract!Count(corpus[1], p) = hi - lo
  <2>1. v = p
    BY <1>3, <1>7, <1>16
  <2>2. Interval(fm, p) = <<lo, hi>>
    BY <1>14, <1>16, <2>1
  <2> QED BY <2>2, PatternCounts
<1> QED BY <1>15, <1>16

\* The answer starts from zero.
LEMMA CountBatchAnswers ==
    ASSUME IInv, CountBatch
    PROVE  CountAnswers' /\ (pc' = "done" => Answered')
<1>1. /\ pc = "CountBatch" /\ pc \notin {"idle", "done"} \cup Places
  BY DEF CountBatch, Places
<1>2. req[1].op = "CountBatch" /\ req[1] \in Requests /\ ObjectHolds
  BY <1>1, AtCall
<1>3. PICK n \in Nat : n = Len(Batch)
  <2>1. Batch \in Seq(Seq(Bytes))
    BY <1>2, Arguments DEF Batch
  <2> QED BY <2>1
<1> DEFINE zero == [j \in 1..n |-> 0]
<1>4. CASE ~ Valid(fm)
  <2>1. Respond(zero)
    BY <1>3, <1>4 DEF CountBatch
  <2>2. pc' = "done" /\ res' = <<zero>> /\ req' = req /\ corpus' = corpus
    BY <2>1 DEF Respond
  <2>3. Abstract!Answer(corpus, req[1]) = zero
    BY <1>2, <1>3, <1>4, BatchAnswer, CorpusOf DEF Batch
  <2> QED BY <2>2, <2>3 DEF CountAnswers, Answered
<1>5. CASE Valid(fm)
  <2>1. PICK lane : Go("tile", [t0 |-> 0, result |-> zero, batch |-> <<>>, j |-> 0, lane |-> lane])
    BY <1>3, <1>5 DEF CountBatch
  <2> HIDE DEF zero
  <2>2. /\ pc' = "tile" /\ req' = req /\ corpus' = corpus
        /\ loc'.t0 = 0 /\ loc'.result = zero /\ loc'.lane = lane
    BY <2>1 DEF Go
  <2>3. Batch' = Batch
    BY <2>2 DEF Batch
  <2>4. ASSUME NEW x \in 1..n PROVE ~ Settled(x, "tile", 0, lane)
    BY DEF Settled
  <2>5. zero = [x \in 1..n |-> IF Settled(x, "tile", 0, lane) THEN PatternCount(x) ELSE 0]
    BY <2>4 DEF zero
  <2>8. Due(pc, loc.t0, loc.lane)' = [x \in 1..Len(Batch) |->
          IF Settled(x, "tile", 0, lane) THEN PatternCount(x) ELSE 0]
    BY <2>2, <2>3 DEF Due, PatternCount, Settled
  <2>9. loc'.result = Due(pc, loc.t0, loc.lane)'
    BY <1>3, <2>2, <2>5, <2>8
  <2> QED BY <2>2, <2>9 DEF CountAnswers
<1> QED BY <1>4, <1>5

\* What must be shown of a step: the patterns are settled as the result says.
LEMMA DueNext ==
    ASSUME NEW n \in Nat, n = Len(Batch), req' = req, corpus' = corpus,
           NEW place, NEW t, NEW lane, NEW r,
           pc' = place, loc'.t0 = t, loc'.lane = lane, loc'.result = r,
           DOMAIN r = 1..n, r = [x \in 1..n |-> r[x]],
           \A x \in 1..n : r[x] = IF Settled(x, place, t, lane) THEN PatternCount(x) ELSE 0
    PROVE  CountAnswers'
<1>1. Batch' = Batch
  BY DEF Batch
<1>2. Due(pc, loc.t0, loc.lane)'
        = [x \in 1..n |-> IF Settled(x, place, t, lane) THEN PatternCount(x) ELSE 0]
  BY <1>1 DEF Due, PatternCount, Settled
<1>3. r = [x \in 1..n |-> IF Settled(x, place, t, lane) THEN PatternCount(x) ELSE 0]
  OBVIOUS
<1> QED BY <1>2, <1>3 DEF CountAnswers

\* The lanes of the next tile start, or every pattern is settled.
LEMMA CountTileAnswers ==
    ASSUME IInv, CountAnswers, CountTile
    PROVE  CountAnswers' /\ (pc' = "done" => Answered')
<1>1. pc = "tile"
  BY DEF CountTile
<1>2. /\ ObjectHolds /\ Valid(fm) /\ req[1].op = "CountBatch" /\ Batch \in Seq(Seq(Bytes))
      /\ DOMAIN loc = {"t0", "result", "batch", "j", "lane"}
      /\ \A s \in Lanes(Len(Batch)) : s \in 1..Tile /\ Batch[loc.t0 + s] \in Seq(Bytes)
      /\ loc.lane \in [1..Tile -> LaneStates]
  BY <1>1, BatchFacts
<1>3. PICK n \in Nat, t \in Nat : n = Len(Batch) /\ t = loc.t0
  <2>1. loc.t0 \in Nat /\ Len(Batch) \in Nat
    BY <1>1, BatchFacts
  <2> QED BY <2>1
<1>4. PICK r : r = loc.result
  OBVIOUS
<1>5. r = [x \in 1..n |-> IF Settled(x, "tile", t, loc.lane) THEN PatternCount(x) ELSE 0]
  BY <1>1, <1>3, <1>4 DEF CountAnswers, Due
<1>6. \A x \in 1..n : r[x] = IF x <= t THEN PatternCount(x) ELSE 0
  BY <1>5 DEF Settled
<1>7. CASE t >= n
  <2>1. Respond(r)
    BY <1>3, <1>4, <1>7 DEF CountTile
  <2>2. pc' = "done" /\ res' = <<r>> /\ req' = req /\ corpus' = corpus
    BY <2>1 DEF Respond
  <2>3. \A x \in 1..n : r[x] = PatternCount(x)
    BY <1>6, <1>7
  <2>4. r = [x \in 1..n |-> PatternCount(x)]
    BY <1>5, <2>3
  <2>5. Abstract!Answer(corpus, req[1]) = [x \in 1..n |-> PatternCount(x)]
    <3>1. PICK q : q = req[1]
      OBVIOUS
    <3>2. corpus # <<>> /\ q.op = "CountBatch" /\ Batch = q.ps
      BY <1>2, <3>1, CorpusOf DEF Batch
    <3>3. Abstract!Answer(corpus, q) = [x \in 1..Len(q.ps) |-> Abstract!Count(corpus[1], q.ps[x])]
      BY <3>2, BatchAnswer
    <3> QED BY <1>3, <3>1, <3>2, <3>3 DEF PatternCount
  <2> QED BY <2>2, <2>4, <2>5 DEF CountAnswers, Answered
<1>8. CASE ~ (t >= n)
  <2> DEFINE len(s) == Len(Batch[t + s])
             T == Lanes(n)
             on(s) == [lo |-> 0, hi |-> M(fm), posn |-> len(s), active |-> TRUE]
             lane == [s \in 1..Tile |->
                        IF s \notin T THEN loc.lane[s]
                        ELSE IF len(s) = 0 THEN [loc.lane[s] EXCEPT !.active = FALSE] ELSE on(s)]
             out == [x \in 1..n |-> IF x - t \in T /\ Len(Batch[x]) = 0 THEN M(fm) ELSE r[x]]
  <2>1. Go("round", [loc EXCEPT !.lane = lane, !.result = out])
    BY <1>3, <1>4, <1>8 DEF CountTile
  <2>2. PICK ln : ln = lane
    OBVIOUS
  <2>3. ASSUME NEW s \in 1..Tile, s \in T
        PROVE  ln[s].active <=> len(s) # 0
    <3>1. PICK x \in LaneStates : x = loc.lane[s]
      BY <1>2
    <3>2. ln[s] = IF len(s) = 0 THEN [x EXCEPT !.active = FALSE] ELSE on(s)
      BY <2>2, <2>3, <3>1
    <3>3. ~ [x EXCEPT !.active = FALSE].active
      BY DEF LaneStates
    <3> QED BY <3>2, <3>3
  <2>4. PICK rs : rs = out
    OBVIOUS
  <2>5. /\ DOMAIN rs = 1..n /\ rs = [x \in 1..n |-> rs[x]]
        /\ \A x \in 1..n : rs[x] = IF x - t \in T /\ Len(Batch[x]) = 0 THEN M(fm) ELSE r[x]
    BY <2>4
  <2> HIDE DEF lane, out, len
  <2>6. /\ pc' = "round" /\ req' = req /\ corpus' = corpus
        /\ loc'.t0 = t /\ loc'.lane = ln /\ loc'.result = rs
    BY <1>2, <1>3, <2>1, <2>2, <2>4 DEF Go
  <2>7. ASSUME NEW x \in 1..n
        PROVE  rs[x] = IF Settled(x, "round", t, ln) THEN PatternCount(x) ELSE 0
    <3>1. (x - t \in T <=> x - t \in 1..Tile) /\ t + (x - t) = x
      BY <1>3, LaneOf
    <3>2. CASE x - t \notin T
      <4>1. Settled(x, "round", t, ln) <=> x <= t
        BY <3>1, <3>2 DEF Settled
      <4> QED BY <1>6, <2>5, <3>2, <4>1
    <3>3. CASE x - t \in T
      <4>1. PICK s \in 1..Tile : s = x - t
        BY <3>1, <3>3
      <4>2. ~ (x <= t)
        BY <4>1
      <4>3. PICK p \in Seq(Bytes) : p = Batch[x]
        BY <1>2, <1>3
      <4>4. len(s) = Len(p)
        BY <3>1, <4>1, <4>3 DEF len
      <4>5. Settled(x, "round", t, ln) <=> ~ ln[s].active
        BY <3>1, <4>1, <4>2 DEF Settled
      <4>6. Settled(x, "round", t, ln) <=> Len(p) = 0
        BY <2>3, <3>3, <4>1, <4>4, <4>5
      <4>7. CASE Len(p) = 0
        <5>1. PatternCount(x) = M(fm)
          BY <1>2, <4>3, <4>7, PatternCounts DEF PatternCount
        <5> QED BY <2>5, <3>3, <4>3, <4>6, <4>7, <5>1
      <4>8. CASE Len(p) # 0
        <5>1. rs[x] = r[x]
          BY <2>5, <4>3, <4>8
        <5> QED BY <1>6, <4>2, <4>6, <4>8, <5>1
      <4> QED BY <4>7, <4>8
    <3> QED BY <3>2, <3>3
  <2>8. CountAnswers'
    BY <1>3, <2>5, <2>6, <2>7, DueNext
  <2> QED BY <2>6, <2>8
<1> QED BY <1>7, <1>8

\* The lanes whose byte is absent have a pattern that occurs nowhere; with the
\* last lane the patterns of the tile are settled.
LEMMA CountGatherAnswers ==
    ASSUME IInv, CountAnswers, CountGather
    PROVE  CountAnswers' /\ pc' # "done"
<1>1. pc = "round"
  BY DEF CountGather
<1>2. /\ ObjectHolds /\ Valid(fm) /\ Batch \in Seq(Seq(Bytes))
      /\ DOMAIN loc = {"t0", "result", "batch", "j", "lane"}
      /\ loc.lane \in [1..Tile -> LaneStates]
  BY <1>1, BatchFacts
<1>3. PICK n \in Nat, t \in Nat : n = Len(Batch) /\ t = loc.t0
  <2>1. loc.t0 \in Nat /\ Len(Batch) \in Nat
    BY <1>1, BatchFacts
  <2> QED BY <2>1
<1>4. PICK r : r = loc.result
  OBVIOUS
<1>5. /\ DOMAIN r = 1..n /\ r = [x \in 1..n |-> r[x]]
      /\ \A x \in 1..n : r[x] = IF Settled(x, "round", t, loc.lane) THEN PatternCount(x) ELSE 0
  BY <1>1, <1>3, <1>4 DEF CountAnswers, Due
<1>6. \A s \in Lanes(Len(Batch)) : LaneHolds(loc.lane[s], Batch[loc.t0 + s])
  BY <1>1 DEF IInv, QueryHolds, CountHolds
<1>7. ASSUME NEW x \in 1..n
      PROVE  r[x] = IF Settled(x, "round", t, Kept) THEN PatternCount(x) ELSE 0
  <2>1. (x - t \in Lanes(n) <=> x - t \in 1..Tile) /\ t + (x - t) = x
    BY <1>3, LaneOf
  <2>2. CASE x - t \notin 1..Tile
    <3>1. Settled(x, "round", t, Kept) <=> Settled(x, "round", t, loc.lane)
      BY <2>2 DEF Settled
    <3> QED BY <1>5, <3>1
  <2>3. CASE x - t \in 1..Tile
    <3>1. PICK s \in 1..Tile : s = x - t
      BY <2>3
    <3>2. PICK y \in LaneStates : y = loc.lane[s]
      BY <1>2
    <3>3. s \in Lanes(Len(Batch)) /\ ~ (x <= t) /\ t + s = x
      BY <1>3, <2>1, <3>1
    <3>4. PICK p \in Seq(Bytes) : p = Batch[x]
      BY <1>2, <1>3
    <3>5. Kept[s] = IF s \notin Gathered THEN [y EXCEPT !.active = FALSE] ELSE y
      BY <3>2, <3>3 DEF Kept
    <3>6. ~ [y EXCEPT !.active = FALSE].active
      BY DEF LaneStates
    <3>7. Settled(x, "round", t, Kept) <=> ~ Kept[s].active
      BY <3>1, <3>3 DEF Settled
    <3>8. Settled(x, "round", t, loc.lane) <=> ~ y.active
      BY <3>1, <3>2, <3>3 DEF Settled
    <3>9. CASE s \in Gathered \/ ~ y.active
      <4>1. Kept[s].active <=> y.active
        BY <3>5, <3>6, <3>9
      <4> QED BY <1>5, <3>7, <3>8, <4>1
    <3>10. CASE s \notin Gathered /\ y.active
      <4>1. ~ (IdOf(s) >= 0)
        BY <3>2, <3>3, <3>10 DEF Gathered
      <4>2. LaneHolds(y, p)
        BY <1>3, <1>6, <3>2, <3>3, <3>4
      <4>3. PICK id : id = IdOf(s)
        OBVIOUS
      <4>4. id = fm.byte_to_id_[p[y.posn]]
        BY <1>3, <3>2, <3>3, <3>4, <4>3 DEF IdOf
      <4>5. id \in Int
        <5>1. y.posn \in 1..Len(p)
          BY <3>10, <4>2 DEF LaneHolds
        <5>2. PICK b \in Bytes : b = p[y.posn]
          BY <5>1
        <5> QED BY <1>2, <4>4, <5>2, IdType
      <4>6. id < 0
        BY <4>1, <4>3, <4>5
      <4>7. PatternCount(x) = 0
        BY <1>2, <3>4, <3>10, <4>2, <4>4, <4>6, LaneCounts DEF PatternCount
      <4>8. r[x] = 0
        BY <1>5, <3>8, <3>10
      <4> QED BY <4>7, <4>8
    <3> QED BY <3>9, <3>10
  <2> QED BY <2>2, <2>3
<1>8. CASE Gathered # {}
  <2>1. PICK bs : Go("scatter", [loc EXCEPT !.lane = Kept, !.j = 1, !.batch = bs])
    BY <1>8 DEF CountGather, Gathered, Kept
  <2>2. /\ pc' = "scatter" /\ req' = req /\ corpus' = corpus
        /\ loc'.t0 = t /\ loc'.lane = Kept /\ loc'.result = r
    BY <1>2, <1>3, <1>4, <2>1 DEF Go
  <2>3. \A x \in 1..n : Settled(x, "scatter", t, Kept) <=> Settled(x, "round", t, Kept)
    BY DEF Settled
  <2>4. \A x \in 1..n : r[x] = IF Settled(x, "scatter", t, Kept) THEN PatternCount(x) ELSE 0
    BY <1>7, <2>3
  <2>5. CountAnswers'
    BY <1>3, <1>5, <2>2, <2>4, DueNext
  <2> QED BY <2>2, <2>5
<1>9. CASE Gathered = {}
  <2>1. Go("tile", [loc EXCEPT !.lane = Kept, !.batch = <<>>, !.t0 = @ + Tile])
    BY <1>9 DEF CountGather, Gathered, Kept
  <2>2. /\ pc' = "tile" /\ req' = req /\ corpus' = corpus
        /\ loc'.t0 = t + Tile /\ loc'.lane = Kept /\ loc'.result = r
    BY <1>2, <1>3, <1>4, <2>1 DEF Go
  <2>3. ASSUME NEW s \in Lanes(n) PROVE ~ Kept[s].active
    <3>1. s \in 1..Tile
      BY <1>3, <1>1, BatchFacts
    <3>2. PICK y \in LaneStates : y = loc.lane[s]
      BY <1>2, <3>1
    <3>3. Kept[s] = [y EXCEPT !.active = FALSE]
      BY <1>3, <1>9, <3>1, <3>2 DEF Kept
    <3> QED BY <3>3 DEF LaneStates
  <2>4. ASSUME NEW x \in 1..n
        PROVE  Settled(x, "tile", t + Tile, Kept) <=> Settled(x, "round", t, Kept)
    <3>1. (x - t \in Lanes(n) <=> x - t \in 1..Tile) /\ t + (x - t) = x
      BY <1>3, LaneOf
    <3>2. Settled(x, "round", t, Kept) <=> x <= t \/ x - t \in 1..Tile
      BY <2>3, <3>1 DEF Settled
    <3>3. Settled(x, "tile", t + Tile, Kept) <=> x <= t + Tile
      BY DEF Settled
    <3>4. x <= t + Tile <=> x <= t \/ x - t \in 1..Tile
      BY TileAssumption
    <3> QED BY <3>2, <3>3, <3>4
  <2>5. \A x \in 1..n : r[x] = IF Settled(x, "tile", t + Tile, Kept) THEN PatternCount(x) ELSE 0
    BY <1>7, <2>4
  <2>6. CountAnswers'
    BY <1>3, <1>5, <2>2, <2>5, DueNext
  <2> QED BY <2>2, <2>6
<1> QED BY <1>8, <1>9

\* A lane that is told its interval goes on, or its pattern is counted.
LEMMA CountScatterAnswers ==
    ASSUME IInv, CountAnswers, CountScatter
    PROVE  CountAnswers' /\ pc' # "done"
<1>1. pc = "scatter"
  BY DEF CountScatter
<1>2. /\ ObjectHolds /\ Valid(fm) /\ Batch \in Seq(Seq(Bytes))
      /\ DOMAIN loc = {"t0", "result", "batch", "j", "lane"}
      /\ loc.lane \in [1..Tile -> LaneStates]
      /\ \A s \in Lanes(Len(Batch)) : s \in 1..Tile /\ Batch[loc.t0 + s] \in Seq(Bytes)
  BY <1>1, BatchFacts
<1>3. PICK n \in Nat, t \in Nat : n = Len(Batch) /\ t = loc.t0
  <2>1. loc.t0 \in Nat /\ Len(Batch) \in Nat
    BY <1>1, BatchFacts
  <2> QED BY <2>1
<1>4. PICK r : r = loc.result
  OBVIOUS
<1>5. /\ DOMAIN r = 1..n /\ r = [x \in 1..n |-> r[x]]
      /\ \A x \in 1..n : r[x] = IF Settled(x, "scatter", t, loc.lane) THEN PatternCount(x) ELSE 0
  BY <1>1, <1>3, <1>4 DEF CountAnswers, Due
<1>6. PICK b : b = loc.batch[loc.j] /\ EntryHolds(b)
  BY <1>1 DEF IInv, QueryHolds, CountHolds
<1>7. PICK s \in Lanes(Len(Batch)) : s = b.slot
  BY <1>6 DEF EntryHolds
<1>8. s \in 1..Tile /\ t + s \in 1..n
  <2>1. s \in 1..Tile
    BY <1>2
  <2> QED BY <1>3, <2>1, TileAssumption DEF Lanes, MinOf
<1>9. PICK p \in Seq(Bytes) : p = Batch[t + s]
  BY <1>2, <1>3
<1>10. PICK x \in LaneStates : x = loc.lane[s]
  BY <1>2, <1>8
<1>11. /\ x.active /\ LaneHolds(x, p) /\ b.id = IdOf(s) /\ b.id >= 0
       /\ b.lo = MapPos(fm.wm_, b.id, x.lo, fm.qlevels_)
       /\ b.hi = MapPos(fm.wm_, b.id, x.hi, fm.qlevels_)
  <2>1. LaneHolds(x, p)
    BY <1>1, <1>3, <1>9, <1>10 DEF IInv, QueryHolds, CountHolds
  <2> QED BY <1>6, <1>7, <1>10, <2>1 DEF EntryHolds
<1> DEFINE nlo == (fm.c_[b.id] - fm.first_[b.id]) + b.lo
           nhi == (fm.c_[b.id] - fm.first_[b.id]) + b.hi
           r2 == [r EXCEPT ![t + s] = IF nlo < nhi /\ x.posn - 1 = 0 THEN nhi - nlo ELSE @]
<1>12. nlo = Extend(fm, b.id, x.lo) /\ nhi = Extend(fm, b.id, x.hi)
  BY <1>11 DEF Extend
<1>13. b.id = fm.byte_to_id_[p[x.posn]]
  BY <1>3, <1>9, <1>10, <1>11 DEF IdOf
<1>14. PICK i \in 1..Len(p) : i = x.posn
  BY <1>11 DEF LaneHolds
<1>15. PICK d \in 0..(fm.sigma_ - 1) : d = b.id
  <2>1. PICK a \in Bytes : a = p[i]
    OBVIOUS
  <2>2. PICK id : id = b.id
    OBVIOUS
  <2>3. id \in Int /\ id >= 0 /\ (id >= 0 => id \in 2..(fm.sigma_ - 1)) /\ fm.sigma_ \in Nat
    BY <1>2, <1>11, <1>13, <1>14, <2>1, <2>2, IdType
  <2> QED BY <2>2, <2>3
<1>16. PICK lo \in Nat, hi \in Nat : lo = nlo /\ hi = nhi
  <2>1. x.lo \in 0..M(fm) /\ x.hi \in 0..M(fm) /\ M(fm) \in Nat
    BY <1>2, IndexServes DEF LaneStates
  <2>2. Extend(fm, d, x.lo) \in 0..M(fm) /\ Extend(fm, d, x.hi) \in 0..M(fm)
    BY <1>2, <2>1, ExtendType
  <2> QED BY <1>12, <1>15, <2>1, <2>2
<1>17. ~ (b.id < 0)
  BY <1>15
<1>18. PICK place \in {"round", "scatter"} :
         Go(place, [loc EXCEPT !.lane[s] = Told(x, nlo, nhi), !.j = @ + 1,
                               !.result[loc.t0 + s] =
                                 IF nlo < nhi /\ x.posn - 1 = 0 THEN nhi - nlo ELSE @])
  <2>1. SlotOf(loc.j) = s /\ loc.batch[loc.j] = b /\ loc.lane[s] = x
    BY <1>6, <1>7, <1>10 DEF SlotOf
  <2>2. Told(x, nlo, nhi) = IF nlo >= nhi THEN [x EXCEPT !.active = FALSE]
                            ELSE [lo |-> nlo, hi |-> nhi, posn |-> x.posn - 1,
                                  active |-> x.posn - 1 > 0]
    BY DEF Told
  <2> QED BY <2>1, <2>2 DEF CountScatter
<1>19. PICK y : y = Told(x, nlo, nhi)
  OBVIOUS
<1>20. PICK rs : rs = r2
  OBVIOUS
<1>21. /\ DOMAIN rs = 1..n /\ rs = [z \in 1..n |-> rs[z]]
       /\ rs[t + s] = IF lo < hi /\ i - 1 = 0 THEN hi - lo ELSE r[t + s]
       /\ \A z \in 1..n : z # t + s => rs[z] = r[z]
  <2> HIDE DEF nlo, nhi
  <2> QED BY <1>5, <1>8, <1>14, <1>16, <1>20
<1>22. y = IF lo >= hi THEN [x EXCEPT !.active = FALSE]
           ELSE [lo |-> lo, hi |-> hi, posn |-> i - 1, active |-> i - 1 > 0]
  <2> HIDE DEF nlo, nhi
  <2> QED BY <1>14, <1>16, <1>19 DEF Told
<1> DEFINE lane == [loc.lane EXCEPT ![s] = y]
<1>23. /\ pc' = place /\ req' = req /\ corpus' = corpus
       /\ loc'.t0 = t /\ loc'.lane = lane /\ loc'.result = rs
  <2> HIDE DEF nlo, nhi
  <2>1. /\ pc' = place /\ req' = req /\ corpus' = corpus
        /\ loc' = [loc EXCEPT !.lane[s] = y, !.j = @ + 1,
                              !.result[t + s] =
                                IF nlo < nhi /\ x.posn - 1 = 0 THEN nhi - nlo ELSE @]
    BY <1>3, <1>18, <1>19 DEF Go
  <2> QED BY <1>2, <1>3, <1>4, <1>20, <2>1
<1>24. lane[s] = y /\ \A u \in 1..Tile : u # s => lane[u] = loc.lane[u]
  BY <1>2, <1>8
<1> HIDE DEF lane, nlo, nhi, r2
<1>25. /\ lo >= hi => PatternCount(t + s) = 0
       /\ ~ (lo >= hi) /\ i = 1 => PatternCount(t + s) = hi - lo
  <2>1. lo = Extend(fm, b.id, x.lo) /\ hi = Extend(fm, b.id, x.hi)
    BY <1>12, <1>16
  <2>2. PICK id : id = b.id
    OBVIOUS
  <2>3. id = fm.byte_to_id_[p[x.posn]] /\ ~ (id < 0)
        /\ lo = Extend(fm, id, x.lo) /\ hi = Extend(fm, id, x.hi)
    BY <1>13, <1>17, <2>1, <2>2
  <2>4. /\ id < 0 \/ lo >= hi => Abstract!Count(corpus[1], p) = 0
        /\ ~ (id < 0) /\ ~ (lo >= hi) /\ x.posn = 1 => Abstract!Count(corpus[1], p) = hi - lo
    BY <1>2, <1>11, <2>3, LaneCounts
  <2> QED BY <1>9, <1>14, <2>3, <2>4 DEF PatternCount
<1>26. r[t + s] = 0
  <2>1. (t + s) - t = s /\ ~ (t + s <= t)
    BY <1>8
  <2>2. ~ Settled(t + s, "scatter", t, loc.lane)
    BY <1>10, <1>11, <2>1 DEF Settled
  <2> QED BY <1>5, <1>8, <2>2
<1>27. ASSUME NEW z \in 1..n
       PROVE  rs[z] = IF Settled(z, place, t, lane) THEN PatternCount(z) ELSE 0
  <2>1. CASE z # t + s
    <3>1. z - t # s
      BY <1>8, <2>1
    <3>2. z - t \in 1..Tile => lane[z - t] = loc.lane[z - t]
      BY <1>24, <3>1
    <3>3. Settled(z, place, t, lane) <=> Settled(z, "scatter", t, loc.lane)
      BY <3>2 DEF Settled
    <3> QED BY <1>5, <1>21, <2>1, <3>3
  <2>2. CASE z = t + s
    <3>1. z - t = s /\ ~ (z <= t)
      BY <1>8, <2>2
    <3>2. Settled(z, place, t, lane) <=> ~ y.active
      BY <1>8, <1>24, <3>1 DEF Settled
    <3>3. CASE lo >= hi
      <4>1. ~ y.active
        BY <1>22, <3>3 DEF LaneStates
      <4>2. ~ (lo < hi)
        BY <3>3
      <4> QED BY <1>21, <1>25, <1>26, <2>2, <3>2, <3>3, <4>1, <4>2
    <3>4. CASE ~ (lo >= hi) /\ i = 1
      <4>1. ~ (i - 1 > 0) /\ lo < hi /\ i - 1 = 0
        BY <3>4
      <4>2. ~ y.active
        BY <1>22, <3>4, <4>1
      <4> QED BY <1>21, <1>25, <2>2, <3>2, <3>4, <4>1, <4>2
    <3>5. CASE ~ (lo >= hi) /\ i # 1
      <4>1. i - 1 > 0 /\ i - 1 # 0
        BY <3>5
      <4>2. y.active
        BY <1>22, <3>5, <4>1
      <4> QED BY <1>21, <1>26, <2>2, <3>2, <4>1, <4>2
    <3> QED BY <3>3, <3>4, <3>5
  <2> QED BY <2>1, <2>2
<1>28. CountAnswers'
  BY <1>3, <1>21, <1>23, <1>27, DueNext
<1> QED BY <1>23, <1>28

-----------------------------------------------------------------------------
(***************************************************************************)
(* The answer of LocateDocsBatch.                                          *)
(***************************************************************************)

\* The rows of a pattern.
PatternRows(q) ==
    LET iv == Interval(fm, Batch[q]) IN IF Batch[q] = <<>> THEN {} ELSE iv[1]..(iv[2] - 1)

\* The walks of pattern q are to report the positions of its rows, each once.
Of(ws, q) == {g \in 1..Len(ws) : ws[g].q = q}
Reports(ws, q) ==
    /\ \A g \in Of(ws, q) : \E r \in PatternRows(q) : Target(ws[g]) = Array[r]
    /\ \A g, h \in Of(ws, q) : Target(ws[g]) = Target(ws[h]) => g = h
    /\ \A r \in PatternRows(q) : \E g \in Of(ws, q) : Target(ws[g]) = Array[r]
WalkAnswers ==
    pc = "walks" =>
      /\ \A q \in 1..Len(Batch) : Reports(loc.walks, q)
      /\ \A g \in 1..Len(loc.walks) : g <= loc.t0 => loc.walks[g].done

\* The walks that pattern q starts with.
LEMMA RowWalksReport ==
    ASSUME ObjectHolds, Valid(fm), Batch \in Seq(Seq(Bytes)), NEW q \in 1..Len(Batch)
    PROVE  /\ \A g \in 1..Len(RowWalks(q)) : RowWalks(q)[g].q = q
           /\ Reports(RowWalks(q), q)
<1>1. PICK p \in Seq(Bytes) : p = Batch[q]
  OBVIOUS
<1>2. /\ Serves(fm, Text, Array) /\ Sampled(fm, Array)
      /\ fm.text_len_ \in Nat /\ M(fm) = fm.text_len_ + 1
  BY IndexServes
<1>3. PICK n \in Nat : n = fm.text_len_
  BY <1>2
<1>4. \A r, x \in 0..n : Array[r] = Array[x] => r = x
  BY <1>2, <1>3 DEF Serves, Sorted
<1>5. \A r \in 0..n : LocateRow(fm, r) = Array[r]
  BY <1>2, <1>3, LocateRowExact
<1>6. Array \in [0..n -> 0..n]
  BY <1>2, <1>3 DEF Serves, Sorted
<1>7. PICK lo \in Nat, hi \in Nat : Interval(fm, p) = <<lo, hi>> /\ hi <= n + 1
  <2>1. M(fm) = n + 1
    BY <1>2, <1>3
  <2>2. Interval(fm, p) \in (0..M(fm)) \X (0..M(fm))
    BY IntervalRows
  <2> QED BY <2>1, <2>2
<1>8. PICK v : v = RowWalks(q)
  OBVIOUS
<1>9. CASE p = <<>>
  <2>1. v = <<>> /\ PatternRows(q) = {}
    BY <1>1, <1>8, <1>9 DEF RowWalks, PatternRows
  <2>2. Len(v) = 0
    BY <2>1
  <2>3. 1..Len(v) = {}
    BY <2>2
  <2> QED BY <1>8, <2>1, <2>3 DEF Reports, Of
<1>10. CASE p # <<>>
  <2>1. PICK k \in Nat : k = hi - lo
    <3>1. Width(Interval(fm, p)) \in Nat
      BY IntervalCounts
    <3>2. Width(<<lo, hi>>) = hi - lo
      BY DEF Width
    <3> QED BY <1>7, <3>1, <3>2
  <2>2. PatternRows(q) = lo..(hi - 1)
    BY <1>1, <1>7, <1>10 DEF PatternRows
  <2> DEFINE walk(m) == [row |-> lo + m - 1, steps |-> 0, q |-> q, done |-> FALSE, pos |-> 0]
  <2>3. v = [m \in 1..k |-> walk(m)]
    <3>0. <<lo, hi>>[1] = lo /\ <<lo, hi>>[2] = hi
      OBVIOUS
    <3>1. PICK iv : iv = Interval(fm, p) /\ iv[1] = lo /\ iv[2] = hi
      BY <1>7, <3>0, Zenon
    <3>2. v = [m \in 1..(iv[2] - iv[1]) |->
                 [row |-> iv[1] + m - 1, steps |-> 0, q |-> q, done |-> FALSE, pos |-> 0]]
      BY <1>1, <1>8, <1>10, <3>1 DEF RowWalks
    <3> QED BY <2>1, <3>1, <3>2
  <2>4. ASSUME NEW m \in 1..k
        PROVE  v[m].q = q /\ Target(v[m]) = Array[(lo + m) - 1]
               /\ (lo + m) - 1 \in 0..n /\ (lo + m) - 1 \in lo..(hi - 1)
    <3>0. hi <= n + 1
      BY <1>7
    <3>1. PICK r \in 0..n : r = (lo + m) - 1 /\ r \in lo..(hi - 1)
      BY <2>1, <3>0
    <3>2. lo + m - 1 = r
      BY <3>1
    <3>3. v[m] = [row |-> r, steps |-> 0, q |-> q, done |-> FALSE, pos |-> 0]
      BY <2>3, <3>2
    <3>4. Target(v[m]) = LocateRow(fm, r) + 0
      BY <3>3 DEF Target
    <3>5. LocateRow(fm, r) = Array[r] /\ Array[r] \in Nat
      BY <1>5, <1>6
    <3> QED BY <3>1, <3>3, <3>4, <3>5
  <2>5. Len(v) = k
    BY <2>3
  <2> HIDE DEF walk
  <2>6. Of(v, q) = 1..k
    BY <2>4, <2>5 DEF Of
  <2>7. \A g \in Of(v, q) : \E r \in PatternRows(q) : Target(v[g]) = Array[r]
    BY <2>2, <2>4, <2>6
  <2>8. ASSUME NEW g \in 1..k, NEW h \in 1..k, Target(v[g]) = Target(v[h]) PROVE g = h
    <3>1. (lo + g) - 1 = (lo + h) - 1
      BY <1>4, <2>4, <2>8
    <3> QED BY <3>1
  <2>9. ASSUME NEW r \in lo..(hi - 1) PROVE \E g \in 1..k : Target(v[g]) = Array[r]
    <3>1. PICK g \in 1..k : g = (r - lo) + 1 /\ (lo + g) - 1 = r
      BY <2>1
    <3>2. Target(v[g]) = Array[(lo + g) - 1]
      BY <2>4
    <3>3. Target(v[g]) = Array[r]
      BY <3>1, <3>2
    <3> QED BY <3>3
  <2> QED BY <1>8, <2>2, <2>4, <2>5, <2>6, <2>7, <2>8, <2>9 DEF Reports
<1> QED BY <1>9, <1>10

\* Walks of other patterns in front or behind do not disturb those of q.
LEMMA JoinedReports ==
    ASSUME NEW a \in Seq(Walks), NEW b \in Seq(Walks), NEW q, NEW c, c = a \o b
    PROVE  /\ (\A g \in 1..Len(b) : b[g].q # q) /\ Reports(a, q) => Reports(c, q)
           /\ (\A g \in 1..Len(a) : a[g].q # q) /\ Reports(b, q) => Reports(c, q)
<1>1. PICK m \in Nat, n \in Nat : m = Len(a) /\ n = Len(b)
  OBVIOUS
<1>2. /\ Len(c) = m + n
      /\ \A g \in 1..m : c[g] = a[g]
      /\ \A g \in (m + 1)..(m + n) : c[g] = b[g - m]
  BY <1>1
<1>3. ASSUME \A g \in 1..n : b[g].q # q, Reports(a, q) PROVE Reports(c, q)
  <2>1. ASSUME NEW g PROVE g \in Of(c, q) <=> g \in Of(a, q)
    <3>1. CASE g \in 1..m
      <4>1. g \in 1..(m + n)
        BY <3>1
      <4> QED BY <1>1, <1>2, <3>1, <4>1 DEF Of
    <3>2. CASE g \in (m + 1)..(m + n)
      <4>1. g - m \in 1..n /\ g \notin 1..m
        BY <3>2
      <4> QED BY <1>1, <1>2, <1>3, <3>2, <4>1 DEF Of
    <3>3. CASE g \notin 1..(m + n)
      <4>1. g \notin 1..m
        BY <3>3
      <4> QED BY <1>1, <1>2, <3>3, <4>1 DEF Of
    <3>4. g \in 1..(m + n) => g \in 1..m \/ g \in (m + 1)..(m + n)
      OBVIOUS
    <3> QED BY <3>1, <3>2, <3>3, <3>4
  <2>2. ASSUME NEW g \in Of(a, q) PROVE c[g] = a[g]
    <3>1. g \in 1..m
      BY <1>1 DEF Of
    <3> QED BY <1>2, <3>1
  <2>3. Of(c, q) = Of(a, q)
    BY <2>1
  <2>4. ASSUME NEW g \in Of(c, q) PROVE \E r \in PatternRows(q) : Target(c[g]) = Array[r]
    <3>1. g \in Of(a, q) /\ c[g] = a[g]
      BY <2>2, <2>3
    <3>2. \E r \in PatternRows(q) : Target(a[g]) = Array[r]
      BY <1>3, <3>1 DEF Reports
    <3> QED BY <3>1, <3>2
  <2>5. \A g, h \in Of(c, q) : Target(c[g]) = Target(c[h]) => g = h
    BY <1>3, <2>2, <2>3 DEF Reports
  <2>6. \A r \in PatternRows(q) : \E g \in Of(c, q) : Target(c[g]) = Array[r]
    BY <1>3, <2>2, <2>3 DEF Reports
  <2> QED BY <2>4, <2>5, <2>6 DEF Reports
<1>4. ASSUME \A g \in 1..m : a[g].q # q, Reports(b, q) PROVE Reports(c, q)
  <2>1. ASSUME NEW g \in Of(b, q)
        PROVE  g \in Int /\ g + m \in Of(c, q) /\ c[g + m] = b[g]
    <3>1. g \in 1..n /\ b[g].q = q
      BY <1>1, <2>1 DEF Of
    <3>2. g + m \in (m + 1)..(m + n) /\ g + m \in 1..(m + n) /\ (g + m) - m = g
      BY <3>1
    <3>3. c[g + m] = b[g]
      BY <1>2, <3>2
    <3>4. PICK x : x = g + m
      OBVIOUS
    <3>5. x \in 1..Len(c) /\ c[x].q = q
      BY <1>2, <3>1, <3>2, <3>3, <3>4
    <3>6. x \in Of(c, q)
      BY <3>5 DEF Of
    <3>7. g \in Int
      BY <3>1
    <3> QED BY <3>3, <3>4, <3>6, <3>7
  <2>2. ASSUME NEW g \in Of(c, q)
        PROVE  g \in Int /\ g - m \in Of(b, q) /\ c[g] = b[g - m]
    <3>1. g \in 1..(m + n) /\ c[g].q = q
      BY <1>2, <2>2 DEF Of
    <3>2. g \notin 1..m
      BY <1>2, <1>4, <3>1
    <3>3. g \in (m + 1)..(m + n) /\ g - m \in 1..n
      BY <3>1, <3>2
    <3> QED BY <1>1, <1>2, <3>1, <3>3 DEF Of
  <2>3. ASSUME NEW g \in Of(c, q) PROVE \E r \in PatternRows(q) : Target(c[g]) = Array[r]
    <3>1. PICK x \in Of(b, q) : c[g] = b[x]
      BY <2>2
    <3>2. \E r \in PatternRows(q) : Target(b[x]) = Array[r]
      BY <1>4 DEF Reports
    <3> QED BY <3>1, <3>2
  <2>4. ASSUME NEW g \in Of(c, q), NEW h \in Of(c, q), Target(c[g]) = Target(c[h]) PROVE g = h
    <3>1. PICK x \in Of(b, q), y \in Of(b, q) :
            x = g - m /\ y = h - m /\ c[g] = b[x] /\ c[h] = b[y]
      BY <2>2
    <3>2. x = y
      <4>1. Target(b[x]) = Target(b[y])
        BY <2>4, <3>1
      <4> QED BY <1>4, <4>1 DEF Reports
    <3>3. g \in Int /\ h \in Int
      BY <2>2
    <3> QED BY <3>1, <3>2, <3>3
  <2>5. ASSUME NEW r \in PatternRows(q) PROVE \E g \in Of(c, q) : Target(c[g]) = Array[r]
    <3>1. PICK g \in Of(b, q) : Target(b[g]) = Array[r]
      BY <1>4 DEF Reports
    <3>2. g + m \in Of(c, q) /\ c[g + m] = b[g]
      BY <2>1
    <3> QED BY <3>1, <3>2
  <2> QED BY <2>3, <2>4, <2>5 DEF Reports
<1> QED BY <1>1, <1>3, <1>4

\* The walks that are collected are those of all patterns.
LEMMA CollectedReports ==
    ASSUME ObjectHolds, Valid(fm), Batch \in Seq(Seq(Bytes)), NEW q \in 1..Len(Batch)
    PROVE  Reports(Collected, q)
<1>1. PICK n \in Nat : n = Len(Batch)
  OBVIOUS
<1>2. PICK f \in [0..n -> Seq(Walks)] :
        /\ f[0] = <<>> /\ Collected = f[n]
        /\ \A m \in 1..n : f[m] = f[m - 1] \o RowWalks(m)
  BY <1>1, CollectedTable
<1> DEFINE Upto(m) == /\ \A x \in 1..m : Reports(f[m], x)
                      /\ \A g \in 1..Len(f[m]) : f[m][g].q \in 1..m
           T == {m \in Nat : m <= n => Upto(m)}
<1>3. 0 \in T
  <2>1. Len(f[0]) = 0
    BY <1>2
  <2>2. 1..0 = {} /\ 1..Len(f[0]) = {}
    BY <2>1
  <2> QED BY <2>2
<1>4. ASSUME NEW m \in Nat, m \in T PROVE m + 1 \in T
  <2> SUFFICES ASSUME m + 1 <= n PROVE Upto(m + 1)
    OBVIOUS
  <2>1. m + 1 \in 1..n /\ (m + 1) - 1 = m /\ m <= n /\ m \in 0..n
    OBVIOUS
  <2>2. Upto(m)
    BY <1>4, <2>1
  <2> HIDE DEF T
  <2>c. PICK c : c = f[m + 1]
    OBVIOUS
  <2>3. PICK a \in Seq(Walks), b \in Seq(Walks) : a = f[m] /\ b = RowWalks(m + 1) /\ c = f[m + 1]
    BY <1>1, <1>2, <2>c, <2>1, RowWalksType
  <2>4. c = a \o b
    BY <1>2, <2>1, <2>3
  <2>5. (\A g \in 1..Len(b) : b[g].q = m + 1) /\ Reports(b, m + 1)
    BY <1>1, <2>1, <2>3, RowWalksReport
  <2>6. (\A x \in 1..m : Reports(a, x)) /\ (\A g \in 1..Len(a) : a[g].q \in 1..m)
    BY <2>2, <2>3
  <2>7. m + 1 \notin 1..m
    OBVIOUS
  <2>8. ASSUME NEW x \in 1..(m + 1) PROVE Reports(c, x)
    <3>1. CASE x = m + 1
      <4>1. \A g \in 1..Len(a) : a[g].q # x
        BY <2>6, <2>7, <3>1
      <4> QED BY <2>4, <2>5, <3>1, <4>1, JoinedReports
    <3>2. CASE x # m + 1
      <4>1. x \in 1..m
        BY <3>2
      <4>2. \A g \in 1..Len(b) : b[g].q # x
        BY <2>5, <3>2
      <4> QED BY <2>4, <2>6, <4>1, <4>2, JoinedReports
    <3> QED BY <3>1, <3>2
  <2>9. ASSUME NEW g \in 1..Len(c) PROVE c[g].q \in 1..(m + 1)
    <3>1. PICK i \in Nat, j \in Nat : i = Len(a) /\ j = Len(b)
      OBVIOUS
    <3>2. /\ Len(c) = i + j
          /\ \A x \in 1..i : c[x] = a[x]
          /\ \A x \in (i + 1)..(i + j) : c[x] = b[x - i]
      BY <2>4, <3>1
    <3>3. CASE g \in 1..i
      <4>1. PICK z : z = c[g].q
        OBVIOUS
      <4>2. z \in 1..m
        BY <2>6, <3>1, <3>2, <3>3, <4>1
      <4>3. z \in 1..(m + 1)
        BY <4>2
      <4> QED BY <4>1, <4>3
    <3>4. CASE g \notin 1..i
      <4>1. g \in (i + 1)..(i + j) /\ g - i \in 1..j
        BY <3>2, <3>4
      <4>2. c[g].q = m + 1
        BY <2>5, <3>1, <3>2, <4>1
      <4>3. m + 1 \in 1..(m + 1)
        OBVIOUS
      <4> QED BY <4>2, <4>3
    <3> QED BY <3>3, <3>4
  <2> QED BY <2>3, <2>8, <2>9
<1> HIDE DEF T, Upto
<1>5. \A m \in Nat : m \in T
  BY <1>3, <1>4, NatSet
<1>6. Upto(n)
  BY <1>5 DEF T
<1> QED BY <1>1, <1>2, <1>6 DEF Upto

\* The walks are collected.
LEMMA LocateDocsBatchAnswers ==
    ASSUME IInv, LocateDocsBatch
    PROVE  WalkAnswers' /\ (pc' = "done" => Answered')
<1>1. /\ pc = "LocateDocsBatch" /\ pc \notin {"idle", "done"} \cup Places
  BY DEF LocateDocsBatch, Places
<1>2. req[1].op = "LocateDocsBatch" /\ req[1] \in Requests /\ ObjectHolds
  BY <1>1, AtCall
<1>3. Batch \in Seq(Seq(Bytes))
  BY <1>2, Arguments DEF Batch
<1>4. CASE ~ Valid(fm)
  <2> DEFINE none == [q \in 1..Len(Batch) |-> Nothing]
  <2>1. Respond(none)
    BY <1>4 DEF LocateDocsBatch
  <2>2. pc' = "done" /\ res' = <<none>> /\ req' = req /\ corpus' = corpus
    BY <2>1 DEF Respond
  <2>3. ASSUME NEW p PROVE Abstract!Located(Abstract!NoDocs, p) = Nothing
    <3>1. (IF p = <<>> THEN {} ELSE Abstract!Occurrences(Abstract!NoDocs, p)) = {}
      BY NoDocsSets
    <3>2. Abstract!Located(Abstract!NoDocs, p) = [o \in {} |-> 1]
      BY <3>1 DEF Abstract!Located
    <3>3. Nothing = [o \in {} |-> 1]
      BY DEF Nothing
    <3> QED BY <3>2, <3>3
  <2>4. PICK q : q = req[1]
    OBVIOUS
  <2>5. corpus = <<>> /\ q.op = "LocateDocsBatch" /\ Batch = q.ps
    BY <1>2, <1>4, <2>4, CorpusOf DEF Batch
  <2>6. Abstract!Answer(corpus, q)
          = [j \in 1..Len(q.ps) |-> Abstract!Located(Abstract!NoDocs, q.ps[j])]
    BY <2>5, BatchAnswer
  <2>7. Abstract!Answer(corpus, q) = none
    BY <2>3, <2>5, <2>6
  <2> QED BY <2>2, <2>4, <2>7 DEF WalkAnswers, Answered
<1>5. CASE Valid(fm)
  <2>1. Go("walks", [t0 |-> 0, walks |-> Collected])
    BY <1>5 DEF LocateDocsBatch, Collected, Collection, RowWalks
  <2>2. PICK ws \in Seq(Walks) : ws = Collected
    BY <1>2, <1>3, <1>5, CollectedType
  <2>3. /\ pc' = "walks" /\ loc'.t0 = 0 /\ loc'.walks = ws
        /\ fm' = fm /\ req' = req /\ corpus' = corpus
    BY <2>1, <2>2 DEF Go
  <2>4. Batch' = Batch
    BY <2>3 DEF Batch
  <2>5. \A q \in 1..Len(Batch) : Reports(ws, q)
    BY <1>2, <1>3, <1>5, <2>2, CollectedReports
  <2>6. ASSUME NEW q PROVE Reports(ws, q)' <=> Reports(ws, q)
    BY <2>3, <2>4 DEF Reports, Of, PatternRows, Target, Array
  <2>7. \A q \in 1..Len(Batch)' : Reports(loc.walks, q)'
    BY <2>3, <2>4, <2>5, <2>6
  <2>8. \A g \in 1..Len(loc'.walks) : ~ (g <= loc'.t0)
    BY <2>3
  <2> QED BY <2>3, <2>7, <2>8 DEF WalkAnswers
<1> QED BY <1>4, <1>5

\* A round loses no walk, and a tile is left when its walks are over.
LEMMA WalkRoundAnswers ==
    ASSUME IInv, WalkAnswers, WalkRound
    PROVE  WalkAnswers' /\ pc' # "done"
<1>1. pc = "walks"
  BY DEF WalkRound
<1>2. PICK n \in Nat, old \in Seq(Walks), t0 \in Nat :
        old = loc.walks /\ n = Len(old) /\ t0 = loc.t0
  <2>1. loc.t0 \in Nat /\ loc.walks \in Seq(Walks)
    BY <1>1 DEF IInv, QueryHolds, WalksHold
  <2> QED BY <2>1
<1> DEFINE T == {t0 + s : s \in Lanes(n)}
           Pend == {g \in T : ~ old[g].done /\ old[g].row \notin fm.sampled_bv_}
           New(g) == IF g \in Pend THEN Stepped(old[g])
                     ELSE IF g \in T /\ ~ old[g].done THEN Stop(old[g]) ELSE old[g]
           ws == [g \in 1..n |-> New(g)]
           t == IF Pend = {} THEN t0 + Tile ELSE t0
<1>3. Go("walks", [t0 |-> t, walks |-> ws])
  BY <1>2 DEF WalkRound, Stepped
<1>4. PICK new : new = ws
  OBVIOUS
<1>5. Len(new) = n /\ \A g \in 1..n : new[g] = New(g)
  BY <1>4
<1>6. ASSUME NEW g \in 1..n
      PROVE  /\ new[g].q = old[g].q
             /\ old[g].done => new[g].done
             /\ g \in T /\ g \notin Pend => new[g].done
  <2>1. PICK w \in Walks : w = old[g]
    BY <1>2
  <2>2. Stepped(w).q = w.q /\ Stepped(w).done = w.done
    BY DEF Stepped, Walks
  <2>3. Stop(w).q = w.q /\ Stop(w).done
    BY DEF Stop, Walks
  <2>4. CASE g \in Pend
    BY <1>5, <2>1, <2>2, <2>4
  <2>5. CASE g \notin Pend /\ g \in T /\ ~ w.done
    BY <1>5, <2>1, <2>3, <2>5
  <2>6. CASE g \notin Pend /\ ~ (g \in T /\ ~ w.done)
    BY <1>5, <2>1, <2>6
  <2> QED BY <2>4, <2>5, <2>6
<1>7. /\ pc' = "walks" /\ loc'.walks = new /\ loc'.t0 = t
      /\ fm' = fm /\ req' = req /\ corpus' = corpus
  BY <1>3, <1>4 DEF Go
<1>8. ASSUME NEW g \in 1..n PROVE Target(new[g]) = Target(old[g])
  <2>1. PICK tt, us : /\ Go("walks", [t0 |-> tt, walks |-> us])
                      /\ \A x \in 1..Len(loc.walks) : Target(us[x]) = Target(loc.walks[x])
    BY RoundKeeps
  <2>2. us = new
    <3>1. loc'.walks = us
      BY <2>1 DEF Go
    <3> QED BY <1>7, <3>1
  <2> QED BY <1>2, <2>1, <2>2
<1>9. ASSUME NEW g \in 1..n, g <= t PROVE new[g].done
  <2>1. CASE g <= t0
    <3>1. old[g].done
      BY <1>1, <1>2, <2>1 DEF WalkAnswers
    <3> QED BY <1>6, <3>1
  <2>2. CASE ~ (g <= t0)
    <3>1. t # t0
      BY <1>9, <2>2
    <3>2. Pend = {} /\ t = t0 + Tile
      BY <3>1
    <3>3. g - t0 \in Lanes(n) /\ t0 + (g - t0) = g
      BY <1>2, <1>9, <2>2, <3>2, TileAssumption DEF Lanes, MinOf
    <3>4. g \in T
      BY <3>3
    <3> QED BY <1>6, <3>2, <3>4
  <2> QED BY <2>1, <2>2
<1> HIDE DEF t, T, Pend, New
<1>10. ASSUME NEW q, Reports(old, q) PROVE Reports(new, q)
  <2>1. Of(new, q) = Of(old, q)
    BY <1>2, <1>5, <1>6 DEF Of
  <2>2. \A g \in Of(old, q) : Target(new[g]) = Target(old[g])
    BY <1>2, <1>8 DEF Of
  <2>3. ASSUME NEW g \in Of(new, q) PROVE \E r \in PatternRows(q) : Target(new[g]) = Array[r]
    <3>1. \E r \in PatternRows(q) : Target(old[g]) = Array[r]
      BY <1>10, <2>1 DEF Reports
    <3> QED BY <2>1, <2>2, <3>1
  <2>4. \A g, h \in Of(new, q) : Target(new[g]) = Target(new[h]) => g = h
    BY <1>10, <2>1, <2>2 DEF Reports
  <2>5. \A r \in PatternRows(q) : \E g \in Of(new, q) : Target(new[g]) = Array[r]
    BY <1>10, <2>1, <2>2 DEF Reports
  <2> QED BY <2>3, <2>4, <2>5 DEF Reports
<1>11. Batch' = Batch
  BY <1>7 DEF Batch
<1>12. ASSUME NEW q PROVE Reports(new, q)' <=> Reports(new, q)
  BY <1>7, <1>11 DEF Reports, Of, PatternRows, Target, Array
<1>13. \A q \in 1..Len(Batch)' : Reports(loc.walks, q)'
  BY <1>1, <1>2, <1>7, <1>10, <1>11, <1>12 DEF WalkAnswers
<1>14. \A g \in 1..Len(loc'.walks) : g <= loc'.t0 => loc'.walks[g].done
  BY <1>5, <1>7, <1>9
<1> QED BY <1>7, <1>13, <1>14 DEF WalkAnswers

\* The walks report what is located.
LEMMA WalksEndAnswers ==
    ASSUME IInv, WalkAnswers, WalksEnd
    PROVE  Answered'
<1>1. pc = "walks" /\ pc \in Places
  BY DEF WalksEnd, Places
<1>2. req[1].op = "LocateDocsBatch" /\ req[1] \in Requests /\ ObjectHolds /\ Valid(fm)
  BY <1>1, InPlace DEF OpOf
<1>3. PICK n \in Nat, ws \in Seq(Walks), t0 \in Nat :
        ws = loc.walks /\ n = Len(ws) /\ t0 = loc.t0 /\ t0 >= n
  <2>1. loc.t0 \in Nat /\ loc.walks \in Seq(Walks)
    BY <1>1 DEF IInv, QueryHolds, WalksHold
  <2>2. loc.t0 >= Len(loc.walks)
    BY DEF WalksEnd
  <2> QED BY <2>1, <2>2
<1>4. Batch \in Seq(Seq(Bytes))
  BY <1>2, Arguments DEF Batch
<1> DEFINE HitOf(g) == Hit(fm, ws[g].pos)
           OfPattern(q) == {g \in 1..n : ws[g].q = q /\ ws[g].done /\ ws[g].pos < fm.text_len_}
           Bag(q) == [h \in {HitOf(g) : g \in OfPattern(q)} |->
                        Cardinality({g \in OfPattern(q) : HitOf(g) = h})]
           out == [q \in 1..Len(Batch) |-> Bag(q)]
<1>5. Respond(out)
  BY <1>3 DEF WalksEnd
<1>6. PICK docs \in Seq(Seq(Bytes)), cf \in BOOLEAN : docs = corpus[1].docs /\ cf = corpus[1].cf
  BY <1>2, IndexServes DEF Documents
<1>7. PICK rate \in Nat \ {0} : fm = Built(docs, cf, rate)
  BY <1>2, <1>6, FreshInvalid DEF ObjectHolds
<1>8. fm.text_len_ = DocBounds(docs)[Len(docs)] /\ fm.doc_start_ = DocBounds(docs)
  BY <1>7 DEF Built
<1>9. \A pos : Hit(fm, pos) = HitAt(docs, pos)
  BY <1>8 DEF Hit, HitAt
<1>10. ASSUME NEW g \in 1..n PROVE ws[g].done /\ Target(ws[g]) = ws[g].pos
  <2>1. g <= t0
    BY <1>3
  <2>2. ws[g].done
    BY <1>1, <1>3, <2>1 DEF WalkAnswers
  <2> QED BY <2>2 DEF Target
<1>11. ASSUME NEW q \in 1..Len(Batch) PROVE Bag(q) = Abstract!Located(corpus[1], Batch[q])
  <2>1. PICK p \in Seq(Bytes) : p = Batch[q]
    BY <1>4
  <2>2. Reports(ws, q)
    BY <1>1, <1>3 DEF WalkAnswers
  <2>3. Of(ws, q) = {g \in 1..n : ws[g].q = q}
    BY <1>3 DEF Of
  <2>4. CASE p = <<>>
    <3>1. PatternRows(q) = {}
      BY <2>1, <2>4 DEF PatternRows
    <3>2. OfPattern(q) = {}
      BY <2>2, <2>3, <3>1 DEF Reports
    <3>3. {HitOf(g) : g \in OfPattern(q)} = {}
      BY <3>2
    <3>4. Bag(q) = [h \in {} |-> 1]
      BY <3>3
    <3>5. Abstract!Located(corpus[1], p) = [h \in {} |-> 1]
      BY <2>4 DEF Abstract!Located
    <3> QED BY <2>1, <3>4, <3>5
  <2>5. CASE p # <<>>
    <3> DEFINE H == Abstract!Occurrences(corpus[1], p)
               R == PatternRows(q)
    <3>1. R = Interval(fm, p)[1]..(Interval(fm, p)[2] - 1)
      BY <2>1, <2>5 DEF PatternRows
    <3>2. HitRows(docs, Array, R, H)
      BY <1>2, <1>6, <2>5, <3>1, IntervalHits
    <3> HIDE DEF H, R
    <3>3. ASSUME NEW g \in Of(ws, q)
          PROVE  \E r \in R : /\ ws[g].pos = Array[r] /\ HitOf(g) = HitAt(docs, Array[r])
                              /\ ws[g].pos < fm.text_len_
      <4>1. g \in 1..n
        BY <2>3
      <4>2. PICK r \in R : Target(ws[g]) = Array[r]
        BY <2>2 DEF Reports, R
      <4>3. ws[g].pos = Array[r]
        BY <1>10, <4>1, <4>2
      <4>4. Array[r] < fm.text_len_
        BY <1>8, <3>2 DEF HitRows
      <4> QED BY <1>9, <4>3, <4>4
    <3>4. OfPattern(q) = Of(ws, q)
      BY <1>10, <2>3, <3>3
    <3> HIDE DEF OfPattern, HitOf
    <3>5. ASSUME NEW g \in OfPattern(q) PROVE HitOf(g) \in H
      BY <3>2, <3>3, <3>4 DEF HitRows
    <3>6. ASSUME NEW h \in H PROVE \E g \in OfPattern(q) : HitOf(g) = h
      <4>1. PICK r \in R : HitAt(docs, Array[r]) = h
        BY <3>2 DEF HitRows
      <4>2. PICK g \in Of(ws, q) : Target(ws[g]) = Array[r]
        BY <2>2 DEF Reports, R
      <4>3. ws[g].pos = Array[r]
        BY <1>10, <2>3, <4>2
      <4>4. HitOf(g) = h
        BY <1>9, <4>1, <4>3 DEF HitOf
      <4> QED BY <3>4, <4>4
    <3>7. ASSUME NEW g \in OfPattern(q), NEW x \in OfPattern(q), HitOf(g) = HitOf(x) PROVE g = x
      <4>1. PICK r \in R : ws[g].pos = Array[r] /\ HitOf(g) = HitAt(docs, Array[r])
        BY <3>3, <3>4
      <4>2. PICK s \in R : ws[x].pos = Array[s] /\ HitOf(x) = HitAt(docs, Array[s])
        BY <3>3, <3>4
      <4>3. r = s
        BY <3>2, <3>7, <4>1, <4>2 DEF HitRows
      <4>4. Target(ws[g]) = Target(ws[x])
        BY <1>10, <2>3, <3>4, <4>1, <4>2, <4>3
      <4> QED BY <2>2, <3>4, <4>4 DEF Reports
    <3>8. {HitOf(g) : g \in OfPattern(q)} = H
      BY <3>5, <3>6
    <3>9. ASSUME NEW h \in H PROVE Cardinality({g \in OfPattern(q) : HitOf(g) = h}) = 1
      <4>1. PICK x \in OfPattern(q) : HitOf(x) = h
        BY <3>6
      <4>2. {g \in OfPattern(q) : HitOf(g) = h} = {x}
        BY <3>7, <4>1
      <4> QED BY <4>2, FS_Singleton
    <3>10. Bag(q) = [h \in H |-> 1]
      BY <3>8, <3>9
    <3>11. Abstract!Located(corpus[1], p) = [h \in H |-> 1]
      BY <2>5 DEF Abstract!Located, H
    <3> QED BY <2>1, <3>10, <3>11
  <2> QED BY <2>4, <2>5
<1>12. pc' = "done" /\ res' = <<out>> /\ req' = req /\ corpus' = corpus
  BY <1>5 DEF Respond
<1>13. PICK q : q = req[1]
  OBVIOUS
<1>14. corpus # <<>> /\ q.op = "LocateDocsBatch" /\ Batch = q.ps
  BY <1>2, <1>13, CorpusOf DEF Batch
<1>15. Abstract!Answer(corpus, q) = [j \in 1..Len(q.ps) |-> Abstract!Located(corpus[1], q.ps[j])]
  BY <1>14, BatchAnswer
<1> HIDE DEF Bag
<1>16. Abstract!Answer(corpus, q) = out
  BY <1>11, <1>14, <1>15
<1> QED BY <1>12, <1>13, <1>16 DEF Answered

-----------------------------------------------------------------------------
(***************************************************************************)
(* The answer of FuzzyMatchingDocs: what dfs has seen.                     *)
(***************************************************************************)
Has(s, g) == \E n \in 1..Len(s) : s[n] = g

\* What two sequences have together.
LEMMA HasBoth ==
    ASSUME NEW S, NEW a \in Seq(S), NEW b \in Seq(S), NEW g
    PROVE  Has(a \o b, g) <=> Has(a, g) \/ Has(b, g)
<1>1. PICK m \in Nat, n \in Nat : m = Len(a) /\ n = Len(b)
  OBVIOUS
<1> DEFINE c == a \o b
<1>2. Len(c) = m + n
  BY <1>1
<1>3. ASSUME NEW j \in 1..(m + n) PROVE c[j] = IF j <= m THEN a[j] ELSE b[j - m]
  BY <1>1
<1> HIDE DEF c
<1>4. ASSUME NEW j \in 1..(m + n), c[j] = g PROVE Has(a, g) \/ Has(b, g)
  <2>1. CASE j <= m
    <3>1. j \in 1..m /\ a[j] = g
      BY <1>3, <1>4, <2>1
    <3> QED BY <1>1, <3>1 DEF Has
  <2>2. CASE ~ (j <= m)
    <3>1. j - m \in 1..n /\ b[j - m] = g
      BY <1>3, <1>4, <2>2
    <3> QED BY <1>1, <3>1 DEF Has
  <2> QED BY <2>1, <2>2
<1>5. ASSUME Has(a, g) PROVE Has(c, g)
  <2>1. PICK j \in 1..m : a[j] = g
    BY <1>1, <1>5 DEF Has
  <2>2. j \in 1..(m + n) /\ c[j] = g
    BY <1>3, <2>1
  <2> QED BY <1>2, <2>2 DEF Has
<1>6. ASSUME Has(b, g) PROVE Has(c, g)
  <2>1. PICK j \in 1..n : b[j] = g
    BY <1>1, <1>6 DEF Has
  <2>2. j + m \in 1..(m + n) /\ ~ (j + m <= m) /\ (j + m) - m = j
    OBVIOUS
  <2>3. c[j + m] = g
    BY <1>3, <2>1, <2>2
  <2> QED BY <1>2, <2>2, <2>3 DEF Has
<1>7. Has(c, g) => Has(a, g) \/ Has(b, g)
  BY <1>2, <1>4 DEF Has
<1> QED BY <1>5, <1>6, <1>7 DEF c

\* A call for rows is made.
LEMMA HasFollow ==
    ASSUME NEW f, NEW d, NEW lo, NEW hi, lo = Extend(fm, d, f.lo), hi = Extend(fm, d, f.hi),
           lo < hi, NEW i, NEW e
    PROVE  Has(CallOf(f, d, i, e), [lo |-> lo, hi |-> hi, i |-> i, e |-> e])
<1> DEFINE g == [lo |-> lo, hi |-> hi, i |-> i, e |-> e]
<1>1. g.lo < g.hi
  OBVIOUS
<1>2. CallOf(f, d, i, e) = Follow(g)
  BY DEF CallOf
<1> HIDE DEF g
<1>3. CallOf(f, d, i, e) = <<g>>
  BY <1>1, <1>2 DEF Follow
<1>4. Has(<<g>>, g)
  <2>1. Len(<<g>>) = 1 /\ <<g>>[1] = g /\ 1 \in 1..1
    OBVIOUS
  <2> QED BY <2>1 DEF Has
<1> QED BY <1>3, <1>4 DEF g

\* With edits left a pattern byte is skipped, and every symbol is put in and
\* put in the place of a pattern byte.
LEMMA EditsMade ==
    ASSUME FuzzyQuery, NEW f \in DfsCalls, f.i # 0, f.e < req[1].k
    PROVE  /\ Has(Calls(f), Skip(f))
           /\ \A d \in 2..(fm.sigma_ - 1) : \A g :
                Has(SymbolCalls(f, d), g) => Has(Calls(f), g)
<1>1. PICK n \in Nat : n = fm.sigma_ - 1
  <2>1. Serves(fm, Text, Array)
    BY IndexServes DEF FuzzyQuery
  <2> QED BY <2>1 DEF Serves, Ended
<1>2. PICK t \in [0..n -> Seq(DfsCalls)] :
        /\ t[0] = <<Skip(f)>> /\ AllCalls(f) = t[n]
        /\ \A d \in 1..n : t[d] = t[d - 1] \o SymbolCalls(f, d)
  BY <1>1, AllCallsTable
<1>3. \A d : SymbolCalls(f, d) \in Seq(DfsCalls)
  BY SymbolCallsType
<1>4. Calls(f) = t[n]
  <2>1. Calls(f) = IF f.e < req[1].k THEN AllCalls(f)
                   ELSE IF PatternId(f) < 0 THEN <<>> ELSE CallOf(f, PatternId(f), f.i - 1, f.e)
    BY DEF Calls, AllCalls, CallTable, SymbolCalls, CallOf, PatternId, Skip
  <2> QED BY <1>2, <2>1
<1> HIDE DEF DfsCalls
<1>5. ASSUME NEW d \in 1..n, NEW g
      PROVE  Has(t[d], g) <=> Has(t[d - 1], g) \/ Has(SymbolCalls(f, d), g)
  <2>1. d - 1 \in 0..n
    OBVIOUS
  <2>2. PICK a \in Seq(DfsCalls), b \in Seq(DfsCalls) : a = t[d - 1] /\ b = SymbolCalls(f, d)
    BY <1>2, <1>3, <2>1
  <2>3. t[d] = a \o b
    BY <1>2, <2>2
  <2> QED BY <2>2, <2>3, HasBoth
<1> DEFINE T == {m \in Nat : m <= n => /\ Has(t[m], Skip(f))
                                       /\ \A d \in 1..m : \A g :
                                            Has(SymbolCalls(f, d), g) => Has(t[m], g)}
<1>6. 0 \in T
  <2>1. PICK x : x = Skip(f)
    OBVIOUS
  <2>2. Len(<<x>>) = 1 /\ <<x>>[1] = x /\ 1 \in 1..1
    OBVIOUS
  <2>3. Has(t[0], Skip(f))
    BY <1>2, <2>1, <2>2 DEF Has
  <2> QED BY <2>3
<1>7. ASSUME NEW m \in Nat, m \in T PROVE m + 1 \in T
  <2> SUFFICES ASSUME m + 1 <= n
               PROVE  /\ Has(t[m + 1], Skip(f))
                      /\ \A d \in 1..(m + 1) : \A g :
                           Has(SymbolCalls(f, d), g) => Has(t[m + 1], g)
    OBVIOUS
  <2>1. m <= n /\ m + 1 \in 1..n /\ (m + 1) - 1 = m
    OBVIOUS
  <2>2. \A g : Has(t[m + 1], g) <=> Has(t[m], g) \/ Has(SymbolCalls(f, m + 1), g)
    BY <1>5, <2>1
  <2>3. /\ Has(t[m], Skip(f))
        /\ \A d \in 1..m : \A g : Has(SymbolCalls(f, d), g) => Has(t[m], g)
    BY <1>7, <2>1
  <2>4. ASSUME NEW d \in 1..(m + 1), NEW g, Has(SymbolCalls(f, d), g) PROVE Has(t[m + 1], g)
    <3>1. d = m + 1 \/ d \in 1..m
      OBVIOUS
    <3> QED BY <2>2, <2>3, <2>4, <3>1
  <2> HIDE DEF T
  <2> QED BY <2>2, <2>3, <2>4
<1> HIDE DEF T
<1>8. \A m \in Nat : m \in T
  BY <1>6, <1>7, NatSet
<1>9. /\ Has(t[n], Skip(f))
      /\ \A d \in 1..n : \A g : Has(SymbolCalls(f, d), g) => Has(t[n], g)
  BY <1>8 DEF T
<1>10. ASSUME NEW d \in 2..(fm.sigma_ - 1) PROVE d \in 1..n
  BY <1>1
<1> QED BY <1>4, <1>9, <1>10

\* The calls for rows that are made.
Ext(f, d, i, e) == [lo |-> Extend(fm, d, f.lo), hi |-> Extend(fm, d, f.hi), i |-> i, e |-> e]

\* With edits left a symbol is put in and replaces or matches a pattern byte.
LEMMA CallsMade ==
    ASSUME FuzzyQuery, NEW f \in DfsCalls, f.i # 0, NEW d \in 2..(fm.sigma_ - 1),
           Extend(fm, d, f.lo) < Extend(fm, d, f.hi)
    PROVE  /\ f.e < req[1].k => /\ Has(Calls(f), Ext(f, d, f.i, f.e + 1))
                                /\ PatternId(f) # d => Has(Calls(f), Ext(f, d, f.i - 1, f.e + 1))
           /\ PatternId(f) = d => Has(Calls(f), Ext(f, d, f.i - 1, f.e))
<1>1. d \in Symbols
  BY DEF Symbols
<1> DEFINE i0 == f.i - 1
           e0 == IF PatternId(f) = d THEN f.e ELSE f.e + 1
           a == CallOf(f, d, i0, e0)
           b == CallOf(f, d, f.i, f.e + 1)
<1>2. SymbolCalls(f, d) = a \o b
  BY <1>1 DEF SymbolCalls
<1>3. ASSUME NEW i, NEW e PROVE Has(CallOf(f, d, i, e), Ext(f, d, i, e))
  BY HasFollow DEF Ext
<1>4. Has(a, Ext(f, d, i0, e0)) /\ Has(b, Ext(f, d, f.i, f.e + 1))
  BY <1>3
<1>5. CASE f.e < req[1].k
  <2>1. /\ CallOf(f, d, f.i, f.e + 1) \in Seq(DfsCalls)
        /\ CallOf(f, d, f.i - 1, f.e + 1) \in Seq(DfsCalls)
        /\ PatternId(f) = d => CallOf(f, d, f.i - 1, f.e) \in Seq(DfsCalls)
    BY <1>5, SymbolCall
  <2>2. a \in Seq(DfsCalls) /\ b \in Seq(DfsCalls)
    BY <2>1
  <2>3. \A g : Has(SymbolCalls(f, d), g) => Has(Calls(f), g)
    BY <1>5, EditsMade
  <2> HIDE DEF a, b, DfsCalls
  <2>4. \A g : Has(a \o b, g) <=> Has(a, g) \/ Has(b, g)
    BY <2>2, HasBoth
  <2>5. Has(Calls(f), Ext(f, d, i0, e0)) /\ Has(Calls(f), Ext(f, d, f.i, f.e + 1))
    BY <1>2, <1>4, <2>3, <2>4
  <2> QED BY <1>5, <2>5
<1>6. CASE ~ (f.e < req[1].k)
  <2>1. Calls(f) = IF f.e < req[1].k THEN AllCalls(f)
                   ELSE IF PatternId(f) < 0 THEN <<>> ELSE CallOf(f, PatternId(f), f.i - 1, f.e)
    BY DEF Calls, AllCalls, CallTable, SymbolCalls, CallOf, PatternId, Skip
  <2>2. ~ (d < 0)
    OBVIOUS
  <2>3. ASSUME PatternId(f) = d PROVE Has(Calls(f), Ext(f, d, f.i - 1, f.e))
    <3>1. Calls(f) = CallOf(f, d, f.i - 1, f.e)
      BY <1>6, <2>1, <2>2, <2>3
    <3> QED BY <1>3, <3>1
  <2> QED BY <1>6, <2>3
<1> QED BY <1>5, <1>6

\* A call has been made as soon as it hit, or was visited with as few errors.
Key(f) == <<f.lo, f.hi, f.i>>
CallAt(key, e) == [lo |-> key[1], hi |-> key[2], i |-> key[3], e |-> e]
Met(l, g) == IF g.i = 0 THEN <<g.lo, g.hi>> \in l.hits
             ELSE Key(g) \in DOMAIN l.visited /\ l.visited[Key(g)] <= g.e
Seen(l, g) == Has(l.calls, g) \/ Met(l, g)
FirstCall == [lo |-> 0, hi |-> M(fm), i |-> Len(req[1].p), e |-> 0]

\* Hits are those of calls, what a visited call calls has been made or is to
\* come, and so is the first call.
Visit(l, f) == f \in DfsCalls /\ f.i # 0 /\ \A g : Has(Calls(f), g) => Seen(l, g)
Explored(l) ==
    /\ \A h \in l.hits : \E f \in DfsCalls : f.i = 0 /\ h = <<f.lo, f.hi>>
    /\ \A key \in DOMAIN l.visited : Visit(l, CallAt(key, l.visited[key]))
    /\ Seen(l, FirstCall)
FuzzyAnswers == pc = "dfs" => Explored(loc) /\ req[1].p # <<>>

\* The first of the calls to come, and the others.
LEMMA HasFirst ==
    ASSUME NEW S, NEW s \in Seq(S), s # <<>>, NEW g
    PROVE  Has(s, g) <=> g = Head(s) \/ Has(Tail(s), g)
<1>1. /\ Head(s) = s[1] /\ Tail(s) \in Seq(S) /\ Len(Tail(s)) = Len(s) - 1
      /\ \A j \in 1..Len(Tail(s)) : Tail(s)[j] = s[j + 1]
  BY HeadTailProperties
<1>m. PICK m \in Nat : m = Len(s) /\ m # 0
  BY EmptySeq
<1>n. PICK n \in Nat : n = m - 1 /\ m = n + 1
  <2>1. m - 1 \in Nat /\ m = (m - 1) + 1
    BY <1>m
  <2> QED BY <2>1
<1>t. PICK t : t = Tail(s)
  OBVIOUS
<1>2. t = Tail(s) /\ n = Len(t) /\ Len(s) = n + 1
  BY <1>1, <1>m, <1>n, <1>t
<1>3. \A j \in 1..n : t[j] = s[j + 1]
  BY <1>1, <1>2
<1>4. ASSUME NEW j \in 1..(n + 1), s[j] = g PROVE g = s[1] \/ Has(t, g)
  <2>1. CASE j = 1
    BY <1>4, <2>1
  <2>2. CASE j # 1
    <3>1. j - 1 \in 1..n /\ (j - 1) + 1 = j
      BY <2>2
    <3>2. t[j - 1] = g
      BY <1>3, <1>4, <3>1
    <3> QED BY <1>2, <3>1, <3>2 DEF Has
  <2> QED BY <2>1, <2>2
<1>5. ASSUME NEW j \in 1..n, t[j] = g PROVE Has(s, g)
  <2>1. j + 1 \in 1..(n + 1) /\ s[j + 1] = g
    BY <1>3, <1>5
  <2> QED BY <1>2, <2>1 DEF Has
<1>6. 1 \in 1..(n + 1)
  OBVIOUS
<1>7. ASSUME g = s[1] PROVE Has(s, g)
  BY <1>2, <1>6, <1>7 DEF Has
<1>8. ASSUME Has(s, g) PROVE g = s[1] \/ Has(t, g)
  <2>1. PICK j \in 1..(n + 1) : s[j] = g
    BY <1>2, <1>8 DEF Has
  <2> QED BY <1>4, <2>1
<1>9. ASSUME Has(t, g) PROVE Has(s, g)
  <2>1. PICK j \in 1..n : t[j] = g
    BY <1>2, <1>9 DEF Has
  <2> QED BY <1>5, <2>1
<1> QED BY <1>1, <1>2, <1>7, <1>8, <1>9

\* What was called is met by the step that makes the call, and what was met
\* stays so.
Advances(l, f, rest) ==
    \/ f.i = 0 /\ l.calls = rest /\ l.hits = loc.hits \cup {<<f.lo, f.hi>>} /\ l.visited = loc.visited
    \/ /\ f.i # 0 /\ Pruned(Key(f), f.e)
       /\ l.calls = rest /\ l.hits = loc.hits /\ l.visited = loc.visited
    \/ /\ f.i # 0 /\ ~ Pruned(Key(f), f.e)
       /\ l.calls = Calls(f) \o rest /\ l.hits = loc.hits
       /\ l.visited = [x \in DOMAIN loc.visited \cup {Key(f)} |->
                         IF x = Key(f) THEN f.e ELSE loc.visited[x]]

\* What one step of the search does to its locals.
LEMMA DfsAdvances ==
    ASSUME IInv, Dfs
    PROVE  /\ FuzzyQuery /\ loc.calls \in Seq(DfsCalls) /\ loc.calls # <<>> /\ pc = "dfs"
           /\ \E l, f, rest :
                /\ Go("dfs", l) /\ f \in DfsCalls /\ rest \in Seq(DfsCalls)
                /\ f = Head(loc.calls) /\ rest = Tail(loc.calls)
                /\ Advances(l, f, rest)
<1>1. pc = "dfs" /\ pc \in Places
  BY DEF Dfs, Places
<1>2. /\ pc # "idle" /\ req[1].op = "FuzzyMatchingDocs" /\ ObjectHolds /\ Valid(fm)
      /\ req[1] \in Requests
  BY <1>1, InPlace DEF OpOf
<1>3. FuzzyQuery
  BY <1>2, Arguments DEF FuzzyQuery
<1>4. /\ DOMAIN loc = {"calls", "visited", "hits"}
      /\ loc.calls \in Seq(DfsCalls) /\ loc.calls # <<>>
  BY <1>1 DEF IInv, QueryHolds, FuzzyHolds, Dfs
<1>5. PICK f \in DfsCalls, rest \in Seq(DfsCalls) : f = Head(loc.calls) /\ rest = Tail(loc.calls)
  <2>1. PICK q \in Seq(DfsCalls) : q = loc.calls /\ q # <<>>
    BY <1>4
  <2> HIDE DEF DfsCalls
  <2>2. Head(q) \in DfsCalls /\ Tail(q) \in Seq(DfsCalls)
    BY <2>1, HeadTailProperties
  <2> QED BY <2>1, <2>2
<1> DEFINE key == <<f.lo, f.hi, f.i>>
           seen == [x \in DOMAIN loc.visited \cup {key} |->
                      IF x = key THEN f.e ELSE loc.visited[x]]
           more == loc.hits \cup {<<f.lo, f.hi>>}
           hit == [loc EXCEPT !.calls = rest, !.hits = @ \cup {<<f.lo, f.hi>>}]
           pruned == [loc EXCEPT !.calls = rest]
           made == [loc EXCEPT !.calls = Calls(f) \o rest, !.visited = seen]
<1>6. Go("dfs", IF f.i = 0 THEN hit ELSE IF Pruned(key, f.e) THEN pruned ELSE made)
  BY <1>4, <1>5 DEF Dfs
<1>7. hit.calls = rest /\ hit.hits = more /\ hit.visited = loc.visited
  <2> HIDE DEF more
  <2>1. hit = [loc EXCEPT !.calls = rest, !.hits = more]
    BY DEF more
  <2> QED BY <1>4, <2>1
<1>8. pruned.calls = rest /\ pruned.hits = loc.hits /\ pruned.visited = loc.visited
  BY <1>4
<1>9. made.calls = Calls(f) \o rest /\ made.hits = loc.hits /\ made.visited = seen
  <2> HIDE DEF seen
  <2> QED BY <1>4
<1>10. Key(f) = key
  BY DEF Key
<1> HIDE DEF hit, pruned, made
<1>11. \E l : Go("dfs", l) /\ Advances(l, f, rest)
  <2>1. CASE f.i = 0
    BY <1>6, <1>7, <2>1 DEF Advances
  <2>2. CASE f.i # 0 /\ Pruned(key, f.e)
    BY <1>6, <1>8, <1>10, <2>2 DEF Advances
  <2>3. CASE f.i # 0 /\ ~ Pruned(key, f.e)
    BY <1>6, <1>9, <1>10, <2>3 DEF Advances
  <2> QED BY <2>1, <2>2, <2>3
<1> QED BY <1>1, <1>3, <1>4, <1>5, <1>11

\* What the search has seen stays seen.
LEMMA SeenStays ==
    ASSUME FuzzyQuery, loc.calls \in Seq(DfsCalls), loc.calls # <<>>, Explored(loc),
           NEW l, NEW f \in DfsCalls, NEW rest \in Seq(DfsCalls),
           f = Head(loc.calls), rest = Tail(loc.calls), Advances(l, f, rest)
    PROVE  /\ \A g : g.e \in Nat /\ Seen(loc, g) => Seen(l, g)
           /\ f.i # 0 /\ ~ Pruned(Key(f), f.e) =>
                \A g : Has(Calls(f), g) => Seen(l, g)
<1>1. ASSUME NEW g PROVE Has(loc.calls, g) <=> g = f \/ Has(rest, g)
  <2> HIDE DEF DfsCalls
  <2> QED BY HasFirst
<1>2. f.e \in Nat /\ f.e <= f.e
  <2>1. f.e \in Nat
    BY CallFacts
  <2> QED BY <2>1
<1>3. ASSUME NEW key \in DOMAIN loc.visited PROVE loc.visited[key] \in Nat
  <2>1. PICK v : v = CallAt(key, loc.visited[key]) /\ v \in DfsCalls
    BY DEF Explored, Visit
  <2>2. v.e \in Nat /\ v.e = loc.visited[key]
    BY <2>1, CallFacts DEF CallAt
  <2> QED BY <2>2
<1>4. CASE f.i = 0 /\ l.calls = rest /\ l.hits = loc.hits \cup {<<f.lo, f.hi>>}
           /\ l.visited = loc.visited
  <2>1. ASSUME NEW g, Met(loc, g) PROVE Met(l, g)
    BY <1>4, <2>1 DEF Met
  <2>2. Met(l, f)
    BY <1>4 DEF Met
  <2>3. ASSUME NEW g, Seen(loc, g) PROVE Seen(l, g)
    BY <1>1, <1>4, <2>1, <2>2, <2>3 DEF Seen
  <2> QED BY <1>4, <2>3
<1>5. CASE /\ f.i # 0 /\ Pruned(Key(f), f.e)
           /\ l.calls = rest /\ l.hits = loc.hits /\ l.visited = loc.visited
  <2>1. ASSUME NEW g, Met(loc, g) PROVE Met(l, g)
    BY <1>5, <2>1 DEF Met
  <2>2. Met(l, f)
    BY <1>5 DEF Met, Pruned
  <2>3. ASSUME NEW g, Seen(loc, g) PROVE Seen(l, g)
    BY <1>1, <1>5, <2>1, <2>2, <2>3 DEF Seen
  <2> QED BY <1>5, <2>3
<1>6. CASE /\ f.i # 0 /\ ~ Pruned(Key(f), f.e)
           /\ l.calls = Calls(f) \o rest /\ l.hits = loc.hits
           /\ l.visited = [x \in DOMAIN loc.visited \cup {Key(f)} |->
                             IF x = Key(f) THEN f.e ELSE loc.visited[x]]
  <2>1. /\ DOMAIN l.visited = DOMAIN loc.visited \cup {Key(f)}
        /\ l.visited[Key(f)] = f.e
        /\ \A x \in DOMAIN loc.visited : x # Key(f) => l.visited[x] = loc.visited[x]
    BY <1>6
  <2>2. Met(l, f)
    BY <1>2, <1>6, <2>1 DEF Met
  <2>3. PICK q \in Seq(DfsCalls) : q = Calls(f)
    BY <1>6, CallsType
  <2>4. ASSUME NEW g PROVE Has(l.calls, g) <=> Has(Calls(f), g) \/ Has(rest, g)
    <3> HIDE DEF DfsCalls
    <3>1. l.calls = q \o rest
      BY <1>6, <2>3
    <3>2. Has(q \o rest, g) <=> Has(q, g) \/ Has(rest, g)
      BY HasBoth
    <3> QED BY <2>3, <3>1, <3>2, Zenon
  <2>5. ASSUME NEW g, g.e \in Nat, Met(loc, g) PROVE Met(l, g)
    <3>1. CASE g.i = 0
      BY <1>6, <2>5, <3>1 DEF Met
    <3>2. CASE g.i # 0 /\ Key(g) # Key(f)
      <4>1. Key(g) \in DOMAIN loc.visited /\ loc.visited[Key(g)] <= g.e
        BY <2>5, <3>2 DEF Met
      <4>2. Key(g) \in DOMAIN l.visited /\ l.visited[Key(g)] = loc.visited[Key(g)]
        BY <2>1, <3>2, <4>1
      <4> QED BY <3>2, <4>1, <4>2 DEF Met
    <3>3. CASE g.i # 0 /\ Key(g) = Key(f)
      <4>1. Key(f) \in DOMAIN loc.visited /\ loc.visited[Key(f)] <= g.e
        BY <2>5, <3>3 DEF Met
      <4>2. PICK v \in Nat : v = loc.visited[Key(f)]
        BY <1>3, <4>1
      <4>3. ~ (v <= f.e)
        BY <1>6, <4>1, <4>2 DEF Pruned
      <4>4. v <= g.e
        BY <4>1, <4>2
      <4>5. f.e <= g.e
        <5>1. PICK a \in Nat, b \in Nat : a = f.e /\ b = g.e
          BY <1>2, <2>5
        <5> QED BY <4>3, <4>4, <5>1
      <4> QED BY <2>1, <3>3, <4>5 DEF Met
    <3> QED BY <3>1, <3>2, <3>3
  <2>6. ASSUME NEW g, g.e \in Nat, Seen(loc, g) PROVE Seen(l, g)
    BY <1>1, <2>2, <2>4, <2>5, <2>6 DEF Seen
  <2>7. ASSUME NEW g, Has(Calls(f), g) PROVE Seen(l, g)
    BY <2>4, <2>7 DEF Seen
  <2> QED BY <2>6, <2>7
<1> QED BY <1>4, <1>5, <1>6 DEF Advances

\* A call is told by its key and its errors.
LEMMA CallAtKey ==
    ASSUME NEW f \in DfsCalls
    PROVE  CallAt(Key(f), f.e) = f
<1>1. f \in [lo : 0..M(fm), hi : 0..M(fm), i : 0..Len(req[1].p), e : 0..req[1].k]
  BY DEF DfsCalls
<1>2. f = [lo |-> f.lo, hi |-> f.hi, i |-> f.i, e |-> f.e]
  BY <1>1
<1>3. Key(f)[1] = f.lo /\ Key(f)[2] = f.hi /\ Key(f)[3] = f.i
  BY DEF Key
<1> QED BY <1>2, <1>3 DEF CallAt

\* The closure of the search is kept.
LEMMA ExploredStays ==
    ASSUME FuzzyQuery, loc.calls \in Seq(DfsCalls), loc.calls # <<>>, Explored(loc),
           NEW l, NEW f \in DfsCalls, NEW rest \in Seq(DfsCalls),
           f = Head(loc.calls), rest = Tail(loc.calls), Advances(l, f, rest)
    PROVE  Explored(l)
<1>1. /\ \A g : g.e \in Nat /\ Seen(loc, g) => Seen(l, g)
      /\ f.i # 0 /\ ~ Pruned(Key(f), f.e) => \A g : Has(Calls(f), g) => Seen(l, g)
  BY SeenStays
<1>2. Seen(l, FirstCall)
  <2>1. FirstCall.e \in Nat
    BY DEF FirstCall
  <2> QED BY <1>1, <2>1 DEF Explored
<1>3. ASSUME NEW h \in l.hits PROVE \E v \in DfsCalls : v.i = 0 /\ h = <<v.lo, v.hi>>
  <2>1. h \in loc.hits \/ (f.i = 0 /\ h = <<f.lo, f.hi>>)
    BY DEF Advances
  <2> QED BY <2>1 DEF Explored
<1>4. ASSUME NEW v, Visit(loc, v) PROVE Visit(l, v)
  <2>1. ASSUME NEW g, Has(Calls(v), g) PROVE Seen(l, g)
    <3>1. v \in DfsCalls /\ v.i # 0 /\ Seen(loc, g)
      BY <1>4, <2>1 DEF Visit
    <3>2. PICK q \in Seq(DfsCalls) : q = Calls(v)
      BY <3>1, CallsType
    <3>3. g \in DfsCalls
      <4>1. PICK n \in 1..Len(q) : q[n] = g
        BY <2>1, <3>2 DEF Has
      <4> HIDE DEF DfsCalls
      <4> QED BY <4>1
    <3>4. g.e \in Nat
      BY <3>3, CallFacts
    <3> QED BY <1>1, <3>1, <3>4
  <2> QED BY <1>4, <2>1 DEF Visit
<1>5. ASSUME NEW key \in DOMAIN l.visited PROVE Visit(l, CallAt(key, l.visited[key]))
  <2>1. CASE key \in DOMAIN loc.visited /\ l.visited[key] = loc.visited[key]
    BY <1>4, <2>1 DEF Explored
  <2>2. CASE ~ (key \in DOMAIN loc.visited /\ l.visited[key] = loc.visited[key])
    <3>1. /\ f.i # 0 /\ ~ Pruned(Key(f), f.e)
          /\ l.visited = [x \in DOMAIN loc.visited \cup {Key(f)} |->
                            IF x = Key(f) THEN f.e ELSE loc.visited[x]]
      BY <2>2 DEF Advances
    <3>2. key = Key(f) /\ l.visited[key] = f.e
      BY <2>2, <3>1
    <3>3. CallAt(key, l.visited[key]) = f
      BY <3>2, CallAtKey
    <3> QED BY <1>1, <3>1, <3>3 DEF Visit
  <2> QED BY <2>1, <2>2
<1> QED BY <1>2, <1>3, <1>5 DEF Explored

\* One step of the search.
LEMMA DfsAnswers ==
    ASSUME IInv, FuzzyAnswers, Dfs
    PROVE  FuzzyAnswers' /\ pc' # "done"
<1>1. FuzzyQuery /\ loc.calls \in Seq(DfsCalls) /\ loc.calls # <<>> /\ pc = "dfs"
  BY DfsAdvances
<1>2. PICK l, f, rest :
        /\ Go("dfs", l) /\ f \in DfsCalls /\ rest \in Seq(DfsCalls)
        /\ f = Head(loc.calls) /\ rest = Tail(loc.calls)
        /\ Advances(l, f, rest)
  BY DfsAdvances
<1>3. Explored(l)
  BY <1>1, <1>2, ExploredStays DEF FuzzyAnswers
<1>4. pc' = "dfs" /\ loc' = l /\ fm' = fm /\ corpus' = corpus /\ req' = req
  BY <1>2 DEF Go
<1>5. DfsCalls' = DfsCalls
  BY <1>4 DEF DfsCalls, Reached, M
<1>6. ASSUME NEW g PROVE Calls(g)' = Calls(g)
  BY <1>4 DEF Calls, Symbols, Follow
<1>7. FirstCall' = FirstCall
  BY <1>4 DEF FirstCall, M
<1>8. Explored(loc)'
  BY <1>3, <1>4, <1>5, <1>6, <1>7 DEF Explored, Visit, Seen, Met, Key, CallAt, Has
<1>9. req[1].p # <<>>
  BY <1>1 DEF FuzzyAnswers
<1> QED BY <1>4, <1>8, <1>9 DEF FuzzyAnswers

\* The first call is to come.
LEMMA FuzzyMatchingAnswers ==
    ASSUME IInv, FuzzyMatchingDocs
    PROVE  FuzzyAnswers' /\ (pc' = "done" => Answered')
<1>1. /\ pc = "FuzzyMatchingDocs" /\ pc \notin {"idle", "done"} \cup Places
  BY DEF FuzzyMatchingDocs, Places
<1>2. req[1].op = "FuzzyMatchingDocs" /\ req[1] \in Requests /\ ObjectHolds
  BY <1>1, AtCall
<1>3. req[1].p \in Seq(Bytes) /\ req[1].k \in Nat
  BY <1>2, Arguments
<1> DEFINE c == IF corpus = <<>> THEN Abstract!NoDocs ELSE corpus[1]
<1>4. PICK q : q = req[1]
  OBVIOUS
<1>5. Abstract!Answer(corpus, q) = IF q.p = <<>> THEN {} ELSE Abstract!Near(c, q.p, q.k)
  BY <1>2, <1>4, ScanAnswer
<1>6. CASE ~ Valid(fm) \/ q.p = <<>>
  <2>1. Respond({})
    BY <1>4, <1>6 DEF FuzzyMatchingDocs
  <2>2. q.p = <<>> \/ corpus = <<>>
    BY <1>2, <1>6, CorpusOf
  <2>3. ASSUME corpus = <<>> PROVE Abstract!Near(c, q.p, q.k) = {}
    <3>1. c = Abstract!NoDocs
      BY <2>3
    <3>2. Len(c.docs) = 0
      BY <3>1 DEF Abstract!NoDocs
    <3>3. Abstract!DocIds(c) = {}
      <4> HIDE DEF c
      <4> QED BY <3>2 DEF Abstract!DocIds, Abstract!NDocs
    <3> QED BY <3>3 DEF Abstract!Near
  <2>4. Abstract!Answer(corpus, q) = {}
    BY <1>5, <2>2, <2>3
  <2>5. pc' = "done" /\ res' = <<Abstract!Answer(corpus, q)>> /\ corpus' = corpus /\ req' = req
    BY <2>1, <2>4 DEF Respond
  <2>6. Answered'
    BY <1>4, <2>5 DEF Answered
  <2> QED BY <2>5, <2>6 DEF FuzzyAnswers
<1>7. CASE ~ (~ Valid(fm) \/ q.p = <<>>)
  <2> DEFINE g == [lo |-> 0, hi |-> M(fm), i |-> Len(req[1].p), e |-> 0]
  <2>1. Go("dfs", [calls |-> <<g>>, visited |-> Nothing, hits |-> {}])
    BY <1>4, <1>7 DEF FuzzyMatchingDocs
  <2>2. PICK l : l = [calls |-> <<g>>, visited |-> Nothing, hits |-> {}]
    OBVIOUS
  <2>3. l.calls = <<g>> /\ l.visited = Nothing /\ l.hits = {}
    BY <2>2
  <2>4. pc' = "dfs" /\ loc' = l /\ fm' = fm /\ corpus' = corpus /\ req' = req
    BY <2>1, <2>2 DEF Go
  <2>5. FirstCall' = g
    BY <2>4 DEF FirstCall, M
  <2> HIDE DEF g
  <2>6. Has(loc'.calls, g)
    <3>1. Len(<<g>>) = 1 /\ <<g>>[1] = g /\ 1 \in 1..1
      OBVIOUS
    <3> QED BY <2>3, <2>4, <3>1 DEF Has
  <2>7. Seen(loc, FirstCall)'
    BY <2>5, <2>6 DEF Seen, Has
  <2>8. DOMAIN loc'.visited = {} /\ loc'.hits = {}
    BY <2>3, <2>4 DEF Nothing
  <2>9. Explored(loc)'
    BY <2>7, <2>8 DEF Explored
  <2>10. req'[1].p # <<>>
    BY <1>4, <1>7, <2>4
  <2> QED BY <2>4, <2>9, <2>10 DEF FuzzyAnswers
<1> QED BY <1>6, <1>7

-----------------------------------------------------------------------------
(***************************************************************************)
(* Words, rows and places in documents.                                    *)
(***************************************************************************)

\* The documents that are indexed, and what the index has of them.
Mirrors(docs, cf) ==
    /\ ObjectHolds /\ Valid(fm)
    /\ docs \in Seq(Seq(Bytes)) /\ docs = corpus[1].docs
    /\ cf \in BOOLEAN /\ cf = corpus[1].cf
    /\ Text = TextOf(docs, cf)
    /\ fm.byte_to_id_ = ByteToId(docs, cf) /\ fm.sigma_ = Sigma(docs, cf)
    /\ fm.doc_start_ = DocBounds(docs) /\ fm.text_len_ = DocBounds(docs)[Len(docs)]

\* A document's number is one less than its place in the list.
LEMMA NumberedDocument ==
    ASSUME NEW docs \in Seq(Seq(Bytes)), NEW d \in 0..(Len(docs) - 1)
    PROVE  d + 1 \in 1..Len(docs) /\ docs[d + 1] \in Seq(Bytes)
<1>1. PICK n \in Nat : n = Len(docs)
  OBVIOUS
<1>2. d + 1 \in 1..n
  BY <1>1
<1> QED BY <1>1, <1>2

\* The index of a corpus has its documents.
LEMMA ValidMirrors ==
    ASSUME ObjectHolds, Valid(fm)
    PROVE  \E docs, cf : Mirrors(docs, cf)
<1>1. PICK docs \in Seq(Seq(Bytes)), cf \in BOOLEAN : docs = corpus[1].docs /\ cf = corpus[1].cf
  BY IndexServes DEF Documents
<1>2. PICK rate \in Nat \ {0} : fm = Built(docs, cf, rate)
  BY <1>1, FreshInvalid DEF ObjectHolds
<1>3. /\ fm.byte_to_id_ = ByteToId(docs, cf) /\ fm.sigma_ = Sigma(docs, cf)
      /\ fm.doc_start_ = DocBounds(docs) /\ fm.text_len_ = DocBounds(docs)[Len(docs)]
  BY <1>2 DEF Built
<1>4. Text = TextOf(docs, cf)
  BY <1>1 DEF Text
<1> QED BY <1>1, <1>3, <1>4 DEF Mirrors

\* The row of a place in a document is among those of the words that occur there.
LEMMA RowStands ==
    ASSUME NEW docs, NEW cf, Mirrors(docs, cf), NEW w \in Seq(Bytes),
           NEW d \in 0..(Len(docs) - 1), NEW off \in 0..Len(docs[d + 1]),
           NEW r \in 0..fm.text_len_, Array[r] = DocBounds(docs)[d] + off
    PROVE  r \in Interval(fm, w)[1]..(Interval(fm, w)[2] - 1) <=> Occurs(docs, cf, w, d, off)
<1>1. /\ ObjectHolds /\ Valid(fm) /\ docs \in Seq(Seq(Bytes)) /\ cf \in BOOLEAN
      /\ fm.byte_to_id_ = ByteToId(docs, cf) /\ Text = TextOf(docs, cf)
  BY DEF Mirrors
<1>2. Spells(Ids(w), ByteToId(docs, cf), w)
  BY <1>1 DEF Ids, Spells
<1>3. StandsAt(Text, Array[r], Ids(w)) <=> Occurs(docs, cf, w, d, off)
  <2>1. StandsAt(TextOf(docs, cf), DocBounds(docs)[d] + off, Ids(w)) <=> Occurs(docs, cf, w, d, off)
    BY <1>1, <1>2, WordStands
  <2> QED BY <1>1, <2>1
<1>4. Array \in [0..fm.text_len_ -> 0..fm.text_len_]
  BY <1>1, IndexServes DEF Serves, Sorted
<1>5. r \in RowsOf(Text, Array, Ids(w)) <=> StandsAt(Text, Array[r], Ids(w))
  BY <1>4 DEF RowsOf
<1>6. RowsOf(Text, Array, Ids(w)) = Interval(fm, w)[1]..(Interval(fm, w)[2] - 1)
  BY <1>1, IntervalRows
<1> QED BY <1>3, <1>5, <1>6

\* The place in a document that a row stands for.
LEMMA RowPlace ==
    ASSUME NEW docs, NEW cf, Mirrors(docs, cf),
           NEW r \in 0..fm.text_len_, Array[r] < fm.text_len_
    PROVE  LET d == DocOf(fm.doc_start_, Array[r]) IN
           /\ d \in 0..(Len(docs) - 1)
           /\ \E off \in 0..Len(docs[d + 1]) : Array[r] = DocBounds(docs)[d] + off
<1>1. /\ ObjectHolds /\ Valid(fm) /\ docs \in Seq(Seq(Bytes)) /\ fm.doc_start_ = DocBounds(docs)
      /\ fm.text_len_ = DocBounds(docs)[Len(docs)]
  BY DEF Mirrors
<1>2. Array \in [0..fm.text_len_ -> 0..fm.text_len_] /\ fm.text_len_ \in Nat
  BY <1>1, IndexServes DEF Serves, Sorted
<1>3. PICK pos \in Nat : pos = Array[r]
  BY <1>2
<1>4. pos < DocBounds(docs)[Len(docs)]
  BY <1>1, <1>3
<1> DEFINE d == DocOf(DocBounds(docs), pos)
<1>5. /\ d \in 0..(Len(docs) - 1)
      /\ DocBounds(docs)[d] \in Nat
      /\ pos - DocBounds(docs)[d] \in 0..Len(docs[d + 1])
      /\ pos = DocBounds(docs)[d] + (pos - DocBounds(docs)[d])
  BY <1>1, <1>4, DocCoord
<1> QED BY <1>1, <1>3, <1>5

\* The row of a place in a document.
LEMMA PlaceRow ==
    ASSUME NEW docs, NEW cf, Mirrors(docs, cf),
           NEW d \in 0..(Len(docs) - 1), NEW off \in 0..Len(docs[d + 1])
    PROVE  \E r \in 0..fm.text_len_ :
             /\ Array[r] = DocBounds(docs)[d] + off /\ Array[r] < fm.text_len_
             /\ DocOf(fm.doc_start_, Array[r]) = d
<1>1. /\ ObjectHolds /\ Valid(fm) /\ docs \in Seq(Seq(Bytes)) /\ fm.doc_start_ = DocBounds(docs)
      /\ fm.text_len_ = DocBounds(docs)[Len(docs)]
  BY DEF Mirrors
<1>2. \A p \in 0..fm.text_len_ : \E r \in 0..fm.text_len_ : Array[r] = p
  BY <1>1, IndexServes DEF Serves, Sorted
<1>3. fm.text_len_ \in Nat
  BY <1>1, IndexServes
<1> DEFINE p == DocBounds(docs)[d] + off
<1>4. p \in Nat /\ p < DocBounds(docs)[Len(docs)] /\ DocOf(DocBounds(docs), p) = d
  BY <1>1, DocText
<1> HIDE DEF p
<1>5. p \in 0..fm.text_len_ /\ p < fm.text_len_
  BY <1>1, <1>3, <1>4
<1>6. PICK r \in 0..fm.text_len_ : Array[r] = p
  BY <1>2, <1>5
<1> QED BY <1>1, <1>4, <1>5, <1>6 DEF p

\* The last x bytes in front of a place of a document.
Slice(docs, d, end, x) == SubSeq(docs[d + 1], (end - x) + 1, end)
Sliced(docs, cf, d, end, x, v) ==
    /\ v \in Seq(Bytes) /\ Len(v) = x
    /\ \A j \in 1..x : v[j] = docs[d + 1][(end - x) + j] /\ v[j] \in Bytes
    /\ end - x \in 0..Len(docs[d + 1])
    /\ Occurs(docs, cf, v, d, end - x)
    /\ Interval(fm, v) \in (0..M(fm)) \X (0..M(fm))
    /\ Interval(fm, v)[1] < Interval(fm, v)[2]

\* It occurs there, and has rows.
LEMMA SliceOccurs ==
    ASSUME NEW docs, NEW cf, Mirrors(docs, cf), NEW d \in 0..(Len(docs) - 1),
           NEW end \in 0..Len(docs[d + 1]), NEW x \in 0..end
    PROVE  Sliced(docs, cf, d, end, x, Slice(docs, d, end, x))
<1> DEFINE v == Slice(docs, d, end, x)
<1>1. PICK doc \in Seq(Bytes) : doc = docs[d + 1]
  <2>1. d + 1 \in 1..Len(docs) /\ docs \in Seq(Seq(Bytes))
    BY DEF Mirrors
  <2> QED BY <2>1
<1>2. PICK n \in Nat : n = Len(doc)
  OBVIOUS
<1>3. end \in 0..n /\ x \in 0..end
  BY <1>1, <1>2
<1>4. PICK a \in Nat \ {0} : a = (end - x) + 1
  BY <1>3
<1>5. a <= end + 1 /\ (end + 1) - a = x
  BY <1>3, <1>4
<1>6. /\ SubSeq(doc, a, end) \in Seq(Bytes) /\ Len(SubSeq(doc, a, end)) = x
      /\ \A j \in 1..x : SubSeq(doc, a, end)[j] = doc[(a + j) - 1]
  BY <1>2, <1>3, <1>5, SliceFacts
<1>7. v = SubSeq(doc, a, end)
  BY <1>1, <1>4 DEF Slice
<1> HIDE DEF v
<1>8. v \in Seq(Bytes) /\ Len(v) = x
  BY <1>6, <1>7
<1>9. ASSUME NEW j \in 1..x PROVE v[j] = doc[(end - x) + j] /\ v[j] \in Bytes
  <2>1. (a + j) - 1 = (end - x) + j /\ (end - x) + j \in 1..n
    BY <1>3, <1>4
  <2> QED BY <1>2, <1>6, <1>7, <2>1
<1>10. end - x \in 0..n /\ (end - x) + x <= n
  BY <1>3
<1>11. Occurs(docs, cf, v, d, end - x)
  BY <1>1, <1>2, <1>8, <1>9, <1>10 DEF Occurs
<1>12. PICK off \in 0..Len(docs[d + 1]) : off = end - x
  BY <1>1, <1>2, <1>10
<1>13. PICK r \in 0..fm.text_len_ : Array[r] = DocBounds(docs)[d] + off
  BY PlaceRow
<1>14. r \in Interval(fm, v)[1]..(Interval(fm, v)[2] - 1)
  BY <1>8, <1>11, <1>12, <1>13, RowStands
<1>15. Interval(fm, v) \in (0..M(fm)) \X (0..M(fm))
  BY <1>8, IntervalRows DEF Mirrors
<1>16. Interval(fm, v)[1] < Interval(fm, v)[2]
  <2>1. M(fm) \in Nat
    BY IndexServes DEF Mirrors
  <2>2. PICK lo \in Nat, hi \in Nat : lo = Interval(fm, v)[1] /\ hi = Interval(fm, v)[2]
    BY <1>15, <2>1
  <2>3. r \in lo..(hi - 1)
    BY <1>14, <2>2
  <2>4. lo < hi
    BY <2>2, <2>3
  <2> QED BY <2>2, <2>4
<1>17. Sliced(docs, cf, d, end, x, v)
  BY <1>1, <1>2, <1>8, <1>9, <1>10, <1>11, <1>15, <1>16 DEF Sliced
<1> QED BY <1>17 DEF v

\* One byte more extends the interval by its symbol.
LEMMA SliceExtends ==
    ASSUME NEW docs, NEW cf, Mirrors(docs, cf), NEW d \in 0..(Len(docs) - 1),
           NEW end \in 0..Len(docs[d + 1]), NEW x \in 1..end,
           NEW lo, NEW hi, Interval(fm, Slice(docs, d, end, x - 1)) = <<lo, hi>>
    PROVE  LET a == docs[d + 1][(end + 1) - x]
               id == fm.byte_to_id_[a]
           IN /\ a \in Bytes /\ Fold(cf, a) \in Present(docs, cf)
              /\ id \in 2..(fm.sigma_ - 1)
              /\ Interval(fm, Slice(docs, d, end, x)) = <<Extend(fm, id, lo), Extend(fm, id, hi)>>
              /\ Extend(fm, id, lo) < Extend(fm, id, hi)
<1> DEFINE a == docs[d + 1][(end + 1) - x]
           id == fm.byte_to_id_[a]
<1>0. /\ ObjectHolds /\ Valid(fm) /\ docs \in Seq(Seq(Bytes)) /\ cf \in BOOLEAN
      /\ fm.byte_to_id_ = ByteToId(docs, cf) /\ fm.sigma_ = Sigma(docs, cf)
  BY DEF Mirrors
<1>1. PICK n \in Nat : n = Len(docs[d + 1])
  <2>1. d + 1 \in 1..Len(docs)
    BY <1>0
  <2>2. docs[d + 1] \in Seq(Bytes)
    BY <1>0, <2>1
  <2> QED BY <2>2
<1>2. end \in 0..n /\ x \in 1..end /\ (end + 1) - x \in 1..n
      /\ x - 1 \in 0..end /\ x \in 0..end /\ (x - 1) + 1 = x /\ (end - x) + 1 = (end + 1) - x
  BY <1>1
<1>3. a \in Bytes /\ Fold(cf, a) \in Present(docs, cf) /\ id \in 2..(fm.sigma_ - 1)
  <2>1. d + 1 \in 1..Len(docs)
    BY <1>0
  <2>2. (end + 1) - x \in 1..Len(docs[d + 1])
    BY <1>1, <1>2
  <2> QED BY <1>0, <2>1, <2>2, PresentFacts, AlphabetFacts
<1>4. PICK u, v : u = Slice(docs, d, end, x - 1) /\ v = Slice(docs, d, end, x)
  OBVIOUS
<1>5. Sliced(docs, cf, d, end, x - 1, u) /\ Sliced(docs, cf, d, end, x, v)
  BY <1>2, <1>4, SliceOccurs
<1>6. /\ u \in Seq(Bytes) /\ Len(u) = x - 1
      /\ \A j \in 1..(x - 1) : u[j] = docs[d + 1][(end - (x - 1)) + j]
      /\ v \in Seq(Bytes) /\ Len(v) = x /\ \A j \in 1..x : v[j] = docs[d + 1][(end - x) + j]
      /\ Interval(fm, v)[1] < Interval(fm, v)[2]
      /\ Interval(fm, v) \in (0..M(fm)) \X (0..M(fm))
  BY <1>5 DEF Sliced
<1>7. v[1] = a
  <2>1. 1 \in 1..x
    BY <1>2
  <2> QED BY <1>2, <1>6, <2>1
<1>8. ASSUME NEW j \in 1..Len(u) PROVE v[j + 1] = u[j]
  <2>1. j \in 1..(x - 1)
    BY <1>6
  <2>2. j + 1 \in 1..x /\ (end - x) + (j + 1) = (end - (x - 1)) + j
    BY <1>2, <2>1
  <2>3. u[j] = docs[d + 1][(end - (x - 1)) + j]
    BY <1>6, <2>1
  <2>4. v[j + 1] = docs[d + 1][(end - x) + (j + 1)]
    BY <1>6, <2>2
  <2> QED BY <2>2, <2>3, <2>4
<1>9. Len(v) = Len(u) + 1
  BY <1>2, <1>6
<1> HIDE DEF id, a
<1>10. Serves(fm, Text, Array)
  BY <1>0, IndexServes
<1>11. Interval(fm, v) = Extended(fm, id, <<lo, hi>>)
  <2>1. Interval(fm, v) = Extended(fm, fm.byte_to_id_[v[1]], Interval(fm, u))
    BY <1>6, <1>8, <1>9, <1>10, IntervalStep
  <2> QED BY <1>4, <1>7, <2>1 DEF id
<1>12. Interval(fm, v) # <<0, 0>>
  BY <1>6
<1>13. /\ Interval(fm, v) = [e \in 1..2 |-> Extend(fm, id, <<lo, hi>>[e])]
  BY <1>11, <1>12 DEF Extended
<1>14. Interval(fm, v) = <<Extend(fm, id, lo), Extend(fm, id, hi)>>
  BY <1>13
<1>15. Extend(fm, id, lo) < Extend(fm, id, hi)
  <2>1. PICK y, z : y = Extend(fm, id, lo) /\ z = Extend(fm, id, hi)
    OBVIOUS
  <2>2. <<y, z>>[1] = y /\ <<y, z>>[2] = z
    OBVIOUS
  <2>3. <<y, z>>[1] < <<y, z>>[2]
    BY <1>6, <1>14, <2>1
  <2> QED BY <2>1, <2>2, <2>3
<1>16. Interval(fm, Slice(docs, d, end, x)) = <<Extend(fm, id, lo), Extend(fm, id, hi)>>
  BY <1>4, <1>14
<1> QED BY <1>3, <1>15, <1>16 DEF id, a

-----------------------------------------------------------------------------
(***************************************************************************)
(* A search that is over has been everywhere it had to be.                 *)
(***************************************************************************)
Over(docs, cf, d, end) ==
    /\ FuzzyQuery /\ Explored(loc) /\ loc.calls = <<>>
    /\ Mirrors(docs, cf) /\ d \in 0..(Len(docs) - 1) /\ end \in 0..Len(docs[d + 1])

\* The rows of the last x bytes in front of a place were visited for all of the
\* pattern but its last y bytes, or hit for fewer bytes.
Covered(docs, d, end, x, y, e) ==
    IF y = Len(req[1].p)
      THEN \E z \in 0..x : Interval(fm, Slice(docs, d, end, z)) \in loc.hits
      ELSE \E f : /\ Visit(loc, f) /\ f.i = Len(req[1].p) - y /\ f.e <= e
                  /\ Interval(fm, Slice(docs, d, end, x)) = <<f.lo, f.hi>>

\* A call that was met for these rows covers the cell.
LEMMA SeenCovers ==
    ASSUME NEW docs, NEW cf, NEW d, NEW end, Over(docs, cf, d, end),
           NEW x \in Nat, NEW y \in 0..Len(req[1].p), NEW e \in Nat,
           NEW g, Seen(loc, g), g.i = Len(req[1].p) - y, g.e <= e, g.e \in Nat,
           Interval(fm, Slice(docs, d, end, x)) = <<g.lo, g.hi>>
    PROVE  Covered(docs, d, end, x, y, e)
<1>1. PICK n \in Nat : n = Len(req[1].p)
  <2>1. PICK p \in Seq(Bytes) : p = req[1].p
    BY DEF Over, FuzzyQuery
  <2> QED BY <2>1
<1>2. Explored(loc) /\ loc.calls = <<>>
  BY DEF Over
<1>3. ~ Has(loc.calls, g)
  <2>1. 1..Len(<<>>) = {}
    OBVIOUS
  <2> QED BY <1>2, <2>1 DEF Has
<1>4. Met(loc, g)
  BY <1>3 DEF Seen
<1>5. CASE y = n
  <2>1. g.i = 0
    BY <1>1, <1>5
  <2>2. <<g.lo, g.hi>> \in loc.hits
    BY <1>4, <2>1 DEF Met
  <2>3. x \in 0..x
    OBVIOUS
  <2> QED BY <1>1, <1>5, <2>2, <2>3 DEF Covered
<1>6. CASE y # n
  <2>1. g.i # 0
    BY <1>1, <1>6
  <2>2. Key(g) \in DOMAIN loc.visited /\ loc.visited[Key(g)] <= g.e
    BY <1>4, <2>1 DEF Met
  <2>3. PICK f : f = CallAt(Key(g), loc.visited[Key(g)])
    OBVIOUS
  <2>4. Visit(loc, f)
    BY <1>2, <2>2, <2>3 DEF Explored
  <2>5. f.lo = g.lo /\ f.hi = g.hi /\ f.i = g.i /\ f.e = loc.visited[Key(g)]
    BY <2>3 DEF CallAt, Key
  <2>6. f.e \in Nat
    <3>1. FuzzyQuery /\ f \in DfsCalls
      BY <2>4 DEF Over, Visit
    <3> QED BY <3>1, CallFacts
  <2>7. f.e <= e
    <3>1. PICK a \in Nat, b \in Nat : a = f.e /\ b = g.e
      BY <2>6
    <3>2. a <= b /\ b <= e
      BY <2>2, <2>5, <3>1
    <3> QED BY <3>1, <3>2
  <2> QED BY <1>1, <1>6, <2>4, <2>5, <2>7 DEF Covered
<1> QED BY <1>5, <1>6

\* The empty word is where the search starts.
LEMMA CoveredFirst ==
    ASSUME NEW docs, NEW cf, NEW d, NEW end, Over(docs, cf, d, end)
    PROVE  Covered(docs, d, end, 0, 0, 0)
<1>1. PICK n \in Nat : n = Len(req[1].p)
  BY DEF Over, FuzzyQuery
<1>2. /\ FuzzyQuery /\ Explored(loc) /\ Mirrors(docs, cf) /\ d \in 0..(Len(docs) - 1)
      /\ end \in 0..Len(docs[d + 1])
  BY DEF Over
<1>3. PICK g : g = FirstCall
  OBVIOUS
<1>4. g.lo = 0 /\ g.hi = M(fm) /\ g.i = n /\ g.e = 0
  BY <1>1, <1>3 DEF FirstCall
<1>5. Seen(loc, g)
  BY <1>2, <1>3 DEF Explored
<1>6. Interval(fm, Slice(docs, d, end, 0)) = <<0, M(fm)>>
  <2>1. d + 1 \in 1..Len(docs)
    BY <1>2 DEF Mirrors
  <2>2. docs[d + 1] \in Seq(Bytes)
    BY <1>2, <2>1 DEF Mirrors
  <2>3. 0 \in 0..end
    BY <1>2, <2>2
  <2>4. PICK v : v = Slice(docs, d, end, 0) /\ v \in Seq(Bytes) /\ Len(v) = 0
    BY <1>2, <2>3, SliceOccurs DEF Sliced
  <2>5. v = <<>>
    BY <2>4, EmptySeq
  <2>6. Serves(fm, Text, Array)
    BY <1>2, IndexServes DEF FuzzyQuery
  <2> QED BY <2>4, <2>5, <2>6, IntervalEmpty
<1>7. g.i = Len(req[1].p) - 0 /\ g.e <= 0 /\ g.e \in Nat /\ 0 \in 0..Len(req[1].p)
  BY <1>1, <1>4
<1> QED BY <1>4, <1>5, <1>6, <1>7, SeenCovers

\* A call that was visited.
Called(docs, d, end, x, n, y, e, f) ==
    /\ f \in DfsCalls /\ Visit(loc, f)
    /\ f.i = n - y /\ f.i # 0 /\ f.e <= e /\ f.e \in Nat
    /\ f.i - 1 = n - (y + 1) /\ n \in Nat /\ y # n /\ f.i \in 1..n
    /\ Interval(fm, Slice(docs, d, end, x)) = <<f.lo, f.hi>>

\* A covered cell in front of the end of the pattern has such a call.
LEMMA CoveredCall ==
    ASSUME NEW docs, NEW cf, NEW d, NEW end, Over(docs, cf, d, end),
           NEW x \in Nat, NEW n, n = Len(req[1].p), NEW y \in 0..(n - 1), NEW e \in Nat,
           Covered(docs, d, end, x, y, e)
    PROVE  \E f : Called(docs, d, end, x, n, y, e, f)
<1>1. n \in Nat
  BY DEF Over, FuzzyQuery
<1>2. y # n /\ n - y \in 1..n /\ n - y # 0 /\ (n - y) - 1 = n - (y + 1)
  BY <1>1
<1>3. PICK f : /\ Visit(loc, f) /\ f.i = n - y /\ f.e <= e
               /\ Interval(fm, Slice(docs, d, end, x)) = <<f.lo, f.hi>>
  BY <1>2 DEF Covered
<1>4. f \in DfsCalls
  BY <1>3 DEF Visit
<1>5. f.e \in Nat
  BY <1>4, CallFacts DEF Over
<1> QED BY <1>1, <1>2, <1>3, <1>4, <1>5 DEF Called

\* A pattern byte is skipped.
LEMMA CoveredSkip ==
    ASSUME NEW docs, NEW cf, NEW d, NEW end, Over(docs, cf, d, end),
           NEW x \in Nat, NEW n, n = Len(req[1].p), NEW y \in 0..(n - 1), NEW e \in Nat,
           Covered(docs, d, end, x, y, e), e < req[1].k
    PROVE  Covered(docs, d, end, x, y + 1, e + 1)
<1>c. PICK f : Called(docs, d, end, x, n, y, e, f)
  BY CoveredCall
<1>1. /\ f \in DfsCalls /\ Visit(loc, f)
      /\ f.i = n - y /\ f.i # 0 /\ f.e <= e /\ f.e \in Nat
      /\ f.i - 1 = n - (y + 1) /\ n \in Nat /\ y # n /\ f.i \in 1..n
      /\ Interval(fm, Slice(docs, d, end, x)) = <<f.lo, f.hi>>
  BY <1>c DEF Called
<1>2. FuzzyQuery /\ req[1].k \in Nat
  BY DEF Over, FuzzyQuery
<1>3. f.e < req[1].k /\ f.e + 1 <= e + 1 /\ f.e + 1 \in Nat
  <2>1. PICK a \in Nat, k \in Nat : a = f.e /\ k = req[1].k
    BY <1>1, <1>2
  <2>2. a <= e /\ e < k
    BY <1>1, <2>1
  <2> QED BY <2>1, <2>2
<1>4. Seen(loc, Skip(f))
  BY <1>1, <1>2, <1>3, EditsMade DEF Visit
<1>5. PICK g : g = Skip(f)
  OBVIOUS
<1>6. g.i = f.i - 1 /\ g.e = f.e + 1 /\ g.lo = f.lo /\ g.hi = f.hi
  <2>1. f \in [lo : 0..M(fm), hi : 0..M(fm), i : 0..Len(req[1].p), e : 0..req[1].k]
    BY <1>1 DEF DfsCalls
  <2> QED BY <1>5, <2>1 DEF Skip
<1>7. y + 1 \in 0..n /\ e + 1 \in Nat
  BY <1>1
<1>8. Seen(loc, g) /\ g.i = Len(req[1].p) - (y + 1) /\ g.e <= e + 1 /\ g.e \in Nat
  BY <1>1, <1>3, <1>4, <1>5, <1>6
<1>9. Interval(fm, Slice(docs, d, end, x)) = <<g.lo, g.hi>>
  BY <1>1, <1>6
<1>10. PICK y1 \in 0..Len(req[1].p), e1 \in Nat : y1 = y + 1 /\ e1 = e + 1
  BY <1>7
<1> QED BY <1>8, <1>9, <1>10, SeenCovers

\* A byte of the document is put in, replaces a byte of the pattern, or is that
\* byte.
LEMMA CoveredByte ==
    ASSUME NEW docs, NEW cf, NEW d, NEW end, Over(docs, cf, d, end),
           NEW x \in 1..end, NEW n, n = Len(req[1].p), NEW y \in 0..(n - 1), NEW e \in Nat,
           Covered(docs, d, end, x - 1, y, e)
    PROVE  /\ e < req[1].k => /\ Covered(docs, d, end, x, y, e + 1)
                              /\ Covered(docs, d, end, x, y + 1, e + 1)
           /\ Fold(cf, docs[d + 1][(end + 1) - x]) = Fold(cf, req[1].p[n - y])
                => Covered(docs, d, end, x, y + 1, e)
<1>0. /\ FuzzyQuery /\ req[1].k \in Nat /\ req[1].p \in Seq(Bytes)
      /\ Mirrors(docs, cf) /\ d \in 0..(Len(docs) - 1) /\ end \in 0..Len(docs[d + 1])
  BY DEF Over, FuzzyQuery
<1>n. x \in Nat /\ x - 1 \in Nat
  <2>1. docs[d + 1] \in Seq(Bytes)
    <3>1. docs \in Seq(Seq(Bytes))
      BY <1>0 DEF Mirrors
    <3> QED BY <1>0, <3>1, NumberedDocument
  <2>2. PICK m \in Nat : m = Len(docs[d + 1])
    BY <2>1
  <2>3. end \in 0..m
    BY <1>0, <2>2
  <2> QED BY <2>3
<1>c. PICK f : Called(docs, d, end, x - 1, n, y, e, f)
  BY <1>n, CoveredCall
<1>1. /\ f \in DfsCalls /\ Visit(loc, f)
      /\ f.i = n - y /\ f.i # 0 /\ f.e <= e /\ f.e \in Nat
      /\ f.i - 1 = n - (y + 1) /\ n \in Nat /\ y # n /\ f.i \in 1..n
      /\ Interval(fm, Slice(docs, d, end, x - 1)) = <<f.lo, f.hi>>
  BY <1>c DEF Called
<1>2. PICK a, id : a = docs[d + 1][(end + 1) - x] /\ id = fm.byte_to_id_[a]
  OBVIOUS
<1>3. /\ a \in Bytes /\ Fold(cf, a) \in Present(docs, cf) /\ id \in 2..(fm.sigma_ - 1)
      /\ Interval(fm, Slice(docs, d, end, x)) = <<Extend(fm, id, f.lo), Extend(fm, id, f.hi)>>
      /\ Extend(fm, id, f.lo) < Extend(fm, id, f.hi)
  <2>1. PICK lo, hi : lo = f.lo /\ hi = f.hi
    OBVIOUS
  <2>2. Interval(fm, Slice(docs, d, end, x - 1)) = <<lo, hi>>
    BY <1>1, <2>1
  <2>3. /\ a \in Bytes /\ Fold(cf, a) \in Present(docs, cf) /\ id \in 2..(fm.sigma_ - 1)
        /\ Interval(fm, Slice(docs, d, end, x)) = <<Extend(fm, id, lo), Extend(fm, id, hi)>>
        /\ Extend(fm, id, lo) < Extend(fm, id, hi)
    <3>1. LET b == docs[d + 1][(end + 1) - x]
              i == fm.byte_to_id_[b]
          IN /\ b \in Bytes /\ Fold(cf, b) \in Present(docs, cf)
             /\ i \in 2..(fm.sigma_ - 1)
             /\ Interval(fm, Slice(docs, d, end, x)) = <<Extend(fm, i, lo), Extend(fm, i, hi)>>
             /\ Extend(fm, i, lo) < Extend(fm, i, hi)
      BY <1>0, <2>2, SliceExtends
    <3> QED BY <1>2, <3>1
  <2> QED BY <2>1, <2>3
<1>4. /\ f.e < req[1].k => /\ Has(Calls(f), Ext(f, id, f.i, f.e + 1))
                           /\ PatternId(f) # id => Has(Calls(f), Ext(f, id, f.i - 1, f.e + 1))
      /\ PatternId(f) = id => Has(Calls(f), Ext(f, id, f.i - 1, f.e))
  BY <1>0, <1>1, <1>3, CallsMade
<1>5. ASSUME NEW y1 \in 0..n, NEW e1 \in Nat, NEW i1, NEW e2 \in Nat, i1 = n - y1, e2 <= e1,
             Has(Calls(f), Ext(f, id, i1, e2))
      PROVE  Covered(docs, d, end, x, y1, e1)
  <2>1. PICK g : g = Ext(f, id, i1, e2)
    OBVIOUS
  <2>2. /\ g.lo = Extend(fm, id, f.lo) /\ g.hi = Extend(fm, id, f.hi) /\ g.i = i1 /\ g.e = e2
    BY <2>1 DEF Ext
  <2>3. Seen(loc, g)
    BY <1>1, <1>5, <2>1 DEF Visit
  <2>4. Interval(fm, Slice(docs, d, end, x)) = <<g.lo, g.hi>>
    BY <1>3, <2>2
  <2>5. g.i = Len(req[1].p) - y1 /\ g.e <= e1 /\ g.e \in Nat /\ y1 \in 0..Len(req[1].p)
    BY <1>5, <2>2
  <2> QED BY <1>n, <2>3, <2>4, <2>5, SeenCovers
<1>6. /\ y \in 0..n /\ y + 1 \in 0..n /\ f.i = n - y /\ f.i - 1 = n - (y + 1)
      /\ f.e + 1 \in Nat /\ e + 1 \in Nat /\ f.e + 1 <= e + 1 /\ f.e <= e + 1 /\ f.e <= e
  <2>1. PICK z \in Nat : z = f.e
    BY <1>1
  <2>2. z <= e
    BY <1>1, <2>1
  <2>3. z + 1 \in Nat /\ e + 1 \in Nat /\ z + 1 <= e + 1 /\ z <= e + 1
    BY <2>2
  <2>4. y \in 0..n /\ y + 1 \in 0..n
    BY <1>1
  <2> QED BY <1>1, <2>1, <2>2, <2>3, <2>4
<1>7. ASSUME e < req[1].k
      PROVE  Covered(docs, d, end, x, y, e + 1) /\ Covered(docs, d, end, x, y + 1, e + 1)
  <2>1. f.e < req[1].k
    <3>1. PICK z \in Nat, k \in Nat : z = f.e /\ k = req[1].k
      BY <1>0, <1>1
    <3>2. z <= e /\ e < k
      BY <1>1, <1>7, <3>1
    <3> QED BY <3>1, <3>2
  <2>2. Covered(docs, d, end, x, y, e + 1)
    BY <1>4, <1>5, <1>6, <2>1
  <2>3. CASE PatternId(f) = id
    BY <1>1, <1>4, <1>5, <1>6, <2>2, <2>3
  <2>4. CASE PatternId(f) # id
    BY <1>4, <1>5, <1>6, <2>1, <2>2, <2>4
  <2> QED BY <2>3, <2>4
<1>8. ASSUME Fold(cf, a) = Fold(cf, req[1].p[n - y])
      PROVE  Covered(docs, d, end, x, y + 1, e)
  <2>1. PICK b \in Bytes : b = req[1].p[n - y]
    <3>1. PICK p \in Seq(Bytes) : p = req[1].p
      BY <1>0
    <3>2. n = Len(p) /\ n - y \in 1..n
      BY <1>1, <3>1
    <3>3. p[n - y] \in Bytes
      BY <3>2
    <3> QED BY <3>1, <3>3
  <2>2. docs \in Seq(Seq(Bytes)) /\ cf \in BOOLEAN /\ fm.byte_to_id_ = ByteToId(docs, cf)
    BY <1>0 DEF Mirrors
  <2>3. ByteToId(docs, cf)[b] = ByteToId(docs, cf)[a]
    <3>1. ByteToId(docs, cf)[b] = ByteToId(docs, cf)[a] <=> Fold(cf, b) = Fold(cf, a)
      BY <1>3, <2>2, SameId
    <3> QED BY <1>8, <2>1, <3>1
  <2>4. PatternId(f) = id
    BY <1>1, <1>2, <2>1, <2>2, <2>3 DEF PatternId
  <2> QED BY <1>1, <1>4, <1>5, <1>6, <2>4
<1> QED BY <1>2, <1>7, <1>8

\* More errors cover what fewer do.
LEMMA CoveredMore ==
    ASSUME NEW docs, NEW cf, NEW d, NEW end, Over(docs, cf, d, end),
           NEW x, NEW y, NEW e \in Nat, NEW e1 \in Nat, e <= e1, Covered(docs, d, end, x, y, e)
    PROVE  Covered(docs, d, end, x, y, e1)
<1>1. CASE y = Len(req[1].p)
  BY <1>1 DEF Covered
<1>2. CASE y # Len(req[1].p)
  <2>1. PICK f : /\ Visit(loc, f) /\ f.i = Len(req[1].p) - y /\ f.e <= e
                 /\ Interval(fm, Slice(docs, d, end, x)) = <<f.lo, f.hi>>
    BY <1>2 DEF Covered
  <2>2. f.e \in Nat
    <3>1. FuzzyQuery /\ f \in DfsCalls
      BY <2>1 DEF Over, Visit
    <3> QED BY <3>1, CallFacts
  <2>3. f.e <= e1
    BY <2>1, <2>2
  <2> QED BY <1>2, <2>1, <2>3 DEF Covered
<1> QED BY <1>1, <1>2

\* Behind the whole pattern the bytes put in are not looked at.
LEMMA CoveredEnd ==
    ASSUME NEW docs, NEW d, NEW end, NEW x \in Nat, NEW z \in 0..x, NEW y, y = Len(req[1].p),
           NEW e, NEW e1, Covered(docs, d, end, z, y, e)
    PROVE  Covered(docs, d, end, x, y, e1)
<1>1. PICK j \in 0..z : Interval(fm, Slice(docs, d, end, j)) \in loc.hits
  BY DEF Covered
<1>2. j \in 0..x
  OBVIOUS
<1> QED BY <1>1, <1>2 DEF Covered

\* The letters that a cell of the table compares.
LEMMA CellCost ==
    ASSUME NEW docs, NEW cf, NEW d, NEW end, Over(docs, cf, d, end),
           NEW m \in 0..end, NEW x \in 1..m, NEW p, p = req[1].p, NEW y \in 1..Len(p),
           NEW u, u = Abstract!Folded(corpus[1], Slice(docs, d, end, m)),
           NEW v, v = Abstract!Folded(corpus[1], p)
    PROVE  Cost(u, v, x, y)
             = IF Fold(cf, docs[d + 1][(end + 1) - x]) = Fold(cf, p[Len(p) - (y - 1)])
               THEN 0 ELSE 1
<1>0. /\ Mirrors(docs, cf) /\ d \in 0..(Len(docs) - 1) /\ end \in 0..Len(docs[d + 1])
      /\ p \in Seq(Bytes) /\ cf = corpus[1].cf
  BY DEF Over, FuzzyQuery, Mirrors
<1>1. PICK n \in Nat : n = Len(p)
  BY <1>0
<1>t. end \in Nat /\ m \in Nat
  <2>1. docs[d + 1] \in Seq(Bytes)
    <3>1. docs \in Seq(Seq(Bytes))
      BY <1>0 DEF Mirrors
    <3> QED BY <1>0, <3>1, NumberedDocument
  <2>2. PICK l \in Nat : l = Len(docs[d + 1])
    BY <2>1
  <2>3. end \in 0..l
    BY <1>0, <2>2
  <2> QED BY <2>3
<1>2. PICK w : /\ w = Slice(docs, d, end, m) /\ Len(w) = m
               /\ \A j \in 1..m : w[j] = docs[d + 1][(end - m) + j]
  BY <1>0, SliceOccurs DEF Sliced
<1>3. /\ m + 1 - x \in 1..m /\ (end - m) + (m + 1 - x) = (end + 1) - x
      /\ n + 1 - y \in 1..n /\ n + 1 - y = n - (y - 1)
  BY <1>1, <1>t
<1>f. \A b : Abstract!Fold(corpus[1].cf, b) = Fold(cf, b)
  BY <1>0 DEF Abstract!Fold, Abstract!IsUpper, Fold, IsUpper
<1>4. Len(u) = m /\ u = [j \in 1..m |-> Fold(cf, w[j])]
  <2>1. u = [j \in 1..Len(w) |-> Fold(cf, w[j])]
    BY <1>2, <1>f DEF Abstract!Folded
  <2> QED BY <1>2, <1>t, <2>1
<1>5. Len(v) = n /\ v = [j \in 1..n |-> Fold(cf, p[j])]
  <2>1. v = [j \in 1..Len(p) |-> Fold(cf, p[j])]
    BY <1>f DEF Abstract!Folded
  <2> QED BY <1>1, <2>1
<1>6. u[m + 1 - x] = Fold(cf, docs[d + 1][(end + 1) - x])
  <2>1. u[m + 1 - x] = Fold(cf, w[m + 1 - x])
    BY <1>3, <1>4
  <2>2. w[m + 1 - x] = docs[d + 1][(end + 1) - x]
    BY <1>2, <1>3
  <2> QED BY <2>1, <2>2
<1>7. v[n + 1 - y] = Fold(cf, p[n - (y - 1)])
  BY <1>3, <1>5
<1>8. Cost(u, v, x, y) = IF u[m + 1 - x] = v[n + 1 - y] THEN 0 ELSE 1
  BY <1>4, <1>5 DEF Cost
<1> QED BY <1>1, <1>6, <1>7, <1>8

\* What the table holds in a cell.
Entry(D, u, v, x, y) ==
    D[<<x, y>>] = IF x = 0 \/ y = 0 THEN x + y
                  ELSE Lower(1 + Lower(D[<<x - 1, y>>], D[<<x, y - 1>>]),
                             D[<<x - 1, y - 1>>] + Cost(u, v, x, y))

\* The table is the recursive definition.
LEMMA CellIs ==
    ASSUME NEW u, NEW v, NEW m \in Nat, NEW n \in Nat, Len(u) = m, Len(v) = n,
           NEW D, Distances(D, u, v), NEW x \in 0..m, NEW y \in 0..n
    PROVE  Entry(D, u, v, x, y)
<1>1. Len(u) \in Nat /\ Len(v) \in Nat /\ x \in 0..Len(u) /\ y \in 0..Len(v)
  OBVIOUS
<1> QED BY <1>1, CellValue DEF Entry

\* A cell of the table is covered if the ones before it are.
Before3(D, docs, d, end, x, y, m, n) ==
    \A x1 \in 0..m : \A y1 \in 0..n :
        x1 + y1 < x + y /\ D[<<x1, y1>>] <= req[1].k
          => Covered(docs, d, end, x1, y1, D[<<x1, y1>>])

\* The cheapest of its neighbours covers it.
LEMMA CoveredCell ==
    ASSUME NEW docs, NEW cf, NEW d, NEW end, Over(docs, cf, d, end),
           NEW m \in 0..end, NEW n, n = Len(req[1].p),
           NEW u, u = Abstract!Folded(corpus[1], Slice(docs, d, end, m)), Len(u) = m,
           NEW v, v = Abstract!Folded(corpus[1], req[1].p), Len(v) = n,
           m \in Nat, n \in Nat,
           NEW D \in [Cells(u, v) -> Nat], Distances(D, u, v),
           NEW x \in 0..m, NEW y \in 0..n, Before3(D, docs, d, end, x, y, m, n),
           D[<<x, y>>] <= req[1].k
    PROVE  Covered(docs, d, end, x, y, D[<<x, y>>])
<1>1. ASSUME NEW i \in 0..m, NEW j \in 0..n PROVE D[<<i, j>>] \in Nat
  <2>1. <<i, j>> \in Cells(u, v)
    BY <1>1 DEF Cells
  <2> QED BY <2>1
<1>2. PICK t \in Nat : t = D[<<x, y>>]
  BY <1>1
<1>k. PICK k \in Nat : k = req[1].k
  BY DEF Over, FuzzyQuery
<1>3. t <= k
  BY <1>2, <1>k
<1>4. t = IF x = 0 \/ y = 0 THEN x + y
          ELSE Lower(1 + Lower(D[<<x - 1, y>>], D[<<x, y - 1>>]),
                     D[<<x - 1, y - 1>>] + Cost(u, v, x, y))
  <2>1. Entry(D, u, v, x, y)
    BY CellIs
  <2> QED BY <1>2, <2>1 DEF Entry
<1>t. end \in Nat /\ x \in Nat /\ y \in Nat /\ m <= end
  <2>1. Mirrors(docs, cf) /\ d \in 0..(Len(docs) - 1) /\ end \in 0..Len(docs[d + 1])
    BY DEF Over
  <2>2. docs[d + 1] \in Seq(Bytes)
    <3>1. docs \in Seq(Seq(Bytes))
      BY <2>1 DEF Mirrors
    <3> QED BY <2>1, <3>1, NumberedDocument
  <2>3. PICK l \in Nat : l = Len(docs[d + 1])
    BY <2>2
  <2>4. end \in 0..l
    BY <2>1, <2>3
  <2> QED BY <2>4
<1>5. ASSUME NEW i \in 0..m, NEW j \in 0..n, i + j < x + y, NEW e \in Nat,
             e = D[<<i, j>>], e <= k
      PROVE  Covered(docs, d, end, i, j, e)
  <2>1. D[<<i, j>>] <= req[1].k
    BY <1>5, <1>k
  <2>2. Covered(docs, d, end, i, j, D[<<i, j>>])
    BY <1>5, <2>1 DEF Before3
  <2> QED BY <1>5, <2>2
\* One byte more of the document.
<1>6. ASSUME x # 0, NEW e \in Nat, Covered(docs, d, end, x - 1, y, e), e + 1 = t
      PROVE  Covered(docs, d, end, x, y, t)
  <2>1. x \in 1..end /\ x \in Nat /\ x - 1 \in 0..x
    BY <1>6, <1>t
  <2>2. CASE y = n
    BY <1>6, <2>1, <2>2, CoveredEnd
  <2>3. CASE y # n
    <3>1. y \in 0..(n - 1) /\ e < k
      BY <1>3, <1>6, <2>3
    <3>2. Covered(docs, d, end, x, y, e + 1)
      BY <1>6, <1>k, <2>1, <3>1, CoveredByte
    <3> QED BY <1>6, <3>2
  <2> QED BY <2>2, <2>3
\* One byte more of the pattern.
<1>7. ASSUME y # 0, NEW e \in Nat, Covered(docs, d, end, x, y - 1, e), e + 1 = t
      PROVE  Covered(docs, d, end, x, y, t)
  <2>1. y - 1 \in 0..(n - 1) /\ e < k /\ (y - 1) + 1 = y /\ x \in Nat
    BY <1>3, <1>7
  <2>2. Covered(docs, d, end, x, (y - 1) + 1, e + 1)
    BY <1>7, <1>k, <2>1, CoveredSkip
  <2> QED BY <1>7, <2>1, <2>2
\* One byte more of both.
<1>8. ASSUME x # 0, y # 0, NEW e \in Nat, Covered(docs, d, end, x - 1, y - 1, e),
             e + Cost(u, v, x, y) = t
      PROVE  Covered(docs, d, end, x, y, t)
  <2>1. x \in 1..m /\ x \in 1..end /\ y \in 1..n /\ y - 1 \in 0..(n - 1) /\ (y - 1) + 1 = y
    BY <1>8, <1>t
  <2>2. PICK p \in Seq(Bytes) : p = req[1].p
    BY DEF Over, FuzzyQuery
  <2> DEFINE same == Fold(cf, docs[d + 1][(end + 1) - x]) = Fold(cf, p[n - (y - 1)])
  <2>3. Cost(u, v, x, y) = IF same THEN 0 ELSE 1
    BY <2>1, <2>2, CellCost
  <2> HIDE DEF same
  <2>4. CASE same
    <3>1. Covered(docs, d, end, x, (y - 1) + 1, e)
      BY <1>8, <2>1, <2>2, <2>4, CoveredByte DEF same
    <3>2. e = t
      BY <1>8, <2>3, <2>4
    <3> QED BY <2>1, <3>1, <3>2
  <2>5. CASE ~ same
    <3>1. e + 1 = t
      BY <1>8, <2>3, <2>5
    <3>2. e < k
      BY <1>3, <3>1
    <3>3. Covered(docs, d, end, x, (y - 1) + 1, e + 1)
      BY <1>8, <1>k, <2>1, <3>2, CoveredByte
    <3> QED BY <2>1, <3>1, <3>3
  <2> QED BY <2>4, <2>5
<1>9. CASE x = 0 /\ y = 0
  <2>1. t = 0
    BY <1>4, <1>9
  <2> QED BY <1>2, <1>9, <2>1, CoveredFirst
<1>10. CASE x # 0 /\ y = 0
  <2>1. x - 1 \in 0..m /\ (x - 1) + y < x + y /\ t = x
    BY <1>4, <1>10
  <2>2. D[<<x - 1, y>>] = x - 1
    <3>1. PICK i \in 0..m, j \in 0..n : i = x - 1 /\ j = y
      BY <2>1
    <3>2. Entry(D, u, v, i, j)
      BY <3>1, CellIs
    <3>3. D[<<i, j>>] = i + j
      BY <1>10, <3>1, <3>2 DEF Entry
    <3> QED BY <1>t, <1>10, <3>1, <3>3
  <2>3. PICK e \in Nat : e = x - 1 /\ e <= k /\ e + 1 = t
    BY <1>3, <1>10, <2>1
  <2>4. Covered(docs, d, end, x - 1, y, e)
    BY <1>5, <2>1, <2>2, <2>3
  <2> QED BY <1>2, <1>6, <1>10, <2>3, <2>4
<1>11. CASE x = 0 /\ y # 0
  <2>1. y - 1 \in 0..n /\ x + (y - 1) < x + y /\ t = y
    BY <1>4, <1>11
  <2>2. D[<<x, y - 1>>] = y - 1
    <3>1. PICK i \in 0..m, j \in 0..n : i = x /\ j = y - 1
      BY <2>1
    <3>2. Entry(D, u, v, i, j)
      BY <3>1, CellIs
    <3>3. D[<<i, j>>] = i + j
      BY <1>11, <3>1, <3>2 DEF Entry
    <3> QED BY <1>t, <1>11, <3>1, <3>3
  <2>3. PICK e \in Nat : e = y - 1 /\ e <= k /\ e + 1 = t
    BY <1>3, <1>11, <2>1
  <2>4. Covered(docs, d, end, x, y - 1, e)
    BY <1>5, <2>1, <2>2, <2>3
  <2> QED BY <1>2, <1>7, <1>11, <2>3, <2>4
<1>12. CASE x # 0 /\ y # 0
  <2>1. /\ x - 1 \in 0..m /\ y - 1 \in 0..n
        /\ (x - 1) + y < x + y /\ x + (y - 1) < x + y /\ (x - 1) + (y - 1) < x + y
    <3>1. x - 1 \in 0..m /\ y - 1 \in 0..n
      BY <1>12
    <3>2. (x - 1) + y < x + y /\ x + (y - 1) < x + y /\ (x - 1) + (y - 1) < x + y
      BY <1>t
    <3> QED BY <3>1, <3>2
  <2>2. PICK a \in Nat : a = D[<<x - 1, y>>]
    BY <1>1, <2>1
  <2>3. PICK b \in Nat : b = D[<<x, y - 1>>]
    BY <1>1, <2>1
  <2>4. PICK g \in Nat : g = D[<<x - 1, y - 1>>]
    BY <1>1, <2>1
  <2>5. PICK h \in 0..1 : h = Cost(u, v, x, y)
    BY DEF Cost
  <2>6. t = Lower(1 + Lower(a, b), g + h)
    BY <1>4, <1>12, <2>2, <2>3, <2>4, <2>5
  <2>7. t = a + 1 \/ t = b + 1 \/ t = g + h
    BY <2>6 DEF Lower
  <2>8. CASE t = a + 1
    <3>1. a <= k
      BY <1>3, <2>8
    <3>2. Covered(docs, d, end, x - 1, y, a)
      BY <1>5, <2>1, <2>2, <3>1
    <3> QED BY <1>2, <1>6, <1>12, <2>8, <3>2
  <2>9. CASE t = b + 1
    <3>1. b <= k
      BY <1>3, <2>9
    <3>2. Covered(docs, d, end, x, y - 1, b)
      BY <1>5, <2>1, <2>3, <3>1
    <3> QED BY <1>2, <1>7, <1>12, <2>9, <3>2
  <2>10. CASE t = g + h
    <3>1. g <= k
      BY <1>3, <2>10
    <3>2. Covered(docs, d, end, x - 1, y - 1, g)
      BY <1>5, <2>1, <2>4, <3>1
    <3>3. g + Cost(u, v, x, y) = t
      BY <2>5, <2>10
    <3> QED BY <1>2, <1>8, <1>12, <3>2, <3>3
  <2> QED BY <2>7, <2>8, <2>9, <2>10
<1> QED BY <1>9, <1>10, <1>11, <1>12

\* All the cells within the budget are covered, the last one too.
LEMMA CoveredCells ==
    ASSUME NEW docs, NEW cf, NEW d, NEW end, Over(docs, cf, d, end), NEW m \in 0..end,
           Abstract!Distance(Abstract!Folded(corpus[1], Slice(docs, d, end, m)),
                             Abstract!Folded(corpus[1], req[1].p)) <= req[1].k
    PROVE  \E z \in 0..m : Interval(fm, Slice(docs, d, end, z)) \in loc.hits
<1>0. /\ FuzzyQuery /\ Mirrors(docs, cf) /\ d \in 0..(Len(docs) - 1)
      /\ end \in 0..Len(docs[d + 1])
  BY DEF Over
<1>1. PICK p \in Seq(Bytes), n \in Nat : p = req[1].p /\ n = Len(p)
  BY <1>0 DEF FuzzyQuery
<1>2. PICK w \in Seq(Bytes) : w = Slice(docs, d, end, m) /\ Len(w) = m
  BY <1>0, SliceOccurs DEF Sliced
<1>m. m \in Nat
  BY <1>2
<1>3. PICK u : u = Abstract!Folded(corpus[1], Slice(docs, d, end, m))
  OBVIOUS
<1>4. PICK v : v = Abstract!Folded(corpus[1], req[1].p)
  OBVIOUS
<1>5. Len(u) = m
  <2>1. u = [j \in 1..Len(w) |-> Abstract!Fold(corpus[1].cf, w[j])]
    BY <1>2, <1>3 DEF Abstract!Folded
  <2> QED BY <1>2, <1>m, <2>1
<1>6. Len(v) = n
  <2>1. v = [j \in 1..Len(p) |-> Abstract!Fold(corpus[1].cf, p[j])]
    BY <1>1, <1>4 DEF Abstract!Folded
  <2> QED BY <1>1, <2>1
<1>7. PICK D \in [Cells(u, v) -> Nat] :
        Distances(D, u, v) /\ Abstract!Distance(u, v) = D[<<Len(u), Len(v)>>]
  <2>1. Len(u) \in Nat /\ Len(v) \in Nat
    BY <1>1, <1>m, <1>5, <1>6
  <2> QED BY <2>1, DistanceTable
<1>8. D[<<m, n>>] <= req[1].k
  BY <1>3, <1>4, <1>5, <1>6, <1>7
<1> DEFINE Cover(x, y) == D[<<x, y>>] <= req[1].k => Covered(docs, d, end, x, y, D[<<x, y>>])
           T == {s \in Nat : \A x \in 0..m : \A y \in 0..n : x + y < s => Cover(x, y)}
<1>9. 0 \in T
  <2>1. ASSUME NEW x \in 0..m, NEW y \in 0..n PROVE ~ (x + y < 0)
    BY <1>1, <1>m
  <2> QED BY <2>1
<1>10. ASSUME NEW s \in Nat, s \in T PROVE s + 1 \in T
  <2> SUFFICES ASSUME NEW x \in 0..m, NEW y \in 0..n, x + y < s + 1,
                      D[<<x, y>>] <= req[1].k
               PROVE  Covered(docs, d, end, x, y, D[<<x, y>>])
    OBVIOUS
  <2>1. ASSUME NEW x1 \in 0..m, NEW y1 \in 0..n, x1 + y1 < x + y, D[<<x1, y1>>] <= req[1].k
        PROVE  Covered(docs, d, end, x1, y1, D[<<x1, y1>>])
    <3>1. x1 + y1 < s
      BY <1>1, <1>m, <2>1
    <3> QED BY <1>10, <2>1, <3>1
  <2>2. Before3(D, docs, d, end, x, y, m, n)
    BY <2>1 DEF Before3
  <2>3. n = Len(req[1].p)
    BY <1>1
  <2> QED BY <1>m, <1>1, <1>3, <1>4, <1>5, <1>6, <1>7, <2>2, <2>3, CoveredCell
<1> HIDE DEF T
<1>11. \A s \in Nat : s \in T
  BY <1>9, <1>10, NatSet
<1>12. Cover(m, n)
  <2>1. m + n + 1 \in T
    BY <1>1, <1>m, <1>11
  <2>2. m \in 0..m /\ n \in 0..n /\ m + n < m + n + 1
    BY <1>1, <1>m
  <2> QED BY <2>1, <2>2 DEF T
<1>13. Covered(docs, d, end, m, n, D[<<m, n>>])
  BY <1>8, <1>12
<1> QED BY <1>1, <1>13 DEF Covered

-----------------------------------------------------------------------------
(***************************************************************************)
(* The documents of the rows that were hit.                                *)
(***************************************************************************)
RowsHit == UNION {h[1]..(h[2] - 1) : h \in loc.hits}

\* The search is over and hit rows of the index.
Searched(docs, cf) ==
    /\ FuzzyQuery /\ Explored(loc) /\ loc.calls = <<>> /\ Mirrors(docs, cf)
    /\ corpus # <<>> /\ Serves(fm, Text, Array)

\* Distances are numbers.
LEMMA DistanceNat ==
    ASSUME NEW c, NEW a \in Seq(Bytes), NEW b \in Seq(Bytes)
    PROVE  Abstract!Distance(Abstract!Folded(c, a), Abstract!Folded(c, b)) \in Nat
<1>1. PICK u, v : u = Abstract!Folded(c, a) /\ v = Abstract!Folded(c, b)
  OBVIOUS
<1>2. Len(u) \in Nat
  <2>1. u = [j \in 1..Len(a) |-> Abstract!Fold(c.cf, a[j])]
    BY <1>1 DEF Abstract!Folded
  <2> QED BY <2>1
<1>3. Len(v) \in Nat
  <2>1. v = [j \in 1..Len(b) |-> Abstract!Fold(c.cf, b[j])]
    BY <1>1 DEF Abstract!Folded
  <2> QED BY <2>1
<1>4. PICK D \in [Cells(u, v) -> Nat] :
        Distances(D, u, v) /\ Abstract!Distance(u, v) = D[<<Len(u), Len(v)>>]
  BY <1>2, <1>3, DistanceTable
<1>5. <<Len(u), Len(v)>> \in Cells(u, v)
  <2>1. Len(u) \in 0..Len(u) /\ Len(v) \in 0..Len(v)
    BY <1>2, <1>3
  <2> QED BY <2>1 DEF Cells
<1>6. D[<<Len(u), Len(v)>>] \in Nat
  BY <1>4, <1>5
<1> QED BY <1>1, <1>4, <1>6

\* A row that was hit is one of a word within the budget.
LEMMA HitRow ==
    ASSUME NEW docs, NEW cf, Searched(docs, cf), NEW r \in RowsHit
    PROVE  /\ r \in 0..fm.text_len_
           /\ \E w \in Seq(Bytes) : Word(w, req[1].p, Interval(fm, w)[1], Interval(fm, w)[2], 0, req[1].k)
                /\ r \in Interval(fm, w)[1]..(Interval(fm, w)[2] - 1)
<1>1. FuzzyQuery /\ Explored(loc)
  BY DEF Searched
<1>2. PICK h \in loc.hits : r \in h[1]..(h[2] - 1)
  BY DEF RowsHit
<1>3. PICK f \in DfsCalls : f.i = 0 /\ h = <<f.lo, f.hi>>
  BY <1>1, <1>2 DEF Explored
<1>4. /\ f.lo \in 0..M(fm) /\ f.hi \in 0..M(fm)
      /\ f.e \in 0..req[1].k /\ f.e \in Nat
      /\ \E w : Word(w, req[1].p, f.lo, f.hi, f.i, f.e)
  BY <1>1, <1>3, CallFacts
<1>5. PICK lo \in Nat, hi \in Nat : lo = f.lo /\ hi = f.hi /\ hi <= M(fm)
  <2>1. PICK m \in Nat : m = M(fm)
    BY DEF Searched, Serves, Ended, M
  <2> QED BY <1>4, <2>1
<1>6. h[1] = lo /\ h[2] = hi
  <2>1. <<lo, hi>>[1] = lo /\ <<lo, hi>>[2] = hi
    OBVIOUS
  <2> QED BY <1>3, <1>5, <2>1
<1>7. PICK w : Word(w, req[1].p, lo, hi, 0, f.e)
  BY <1>3, <1>4, <1>5
<1>8. w \in Seq(Bytes) /\ Interval(fm, w) = <<lo, hi>>
  BY <1>7 DEF Word
<1>9. PICK x : x = Interval(fm, w)
  OBVIOUS
<1>10. x[1] = lo /\ x[2] = hi
  <2>1. <<lo, hi>>[1] = lo /\ <<lo, hi>>[2] = hi
    OBVIOUS
  <2> QED BY <1>8, <1>9, <2>1
<1>11. r \in lo..(hi - 1)
  BY <1>2, <1>6
<1>12. r \in 0..fm.text_len_
  <2>1. PICK m \in Nat : m = fm.text_len_ /\ M(fm) = m + 1
    BY DEF Searched, Serves, Ended, M
  <2>2. hi <= m + 1
    BY <1>5, <2>1
  <2> QED BY <1>5, <1>11, <2>1, <2>2
<1>13. Word(w, req[1].p, lo, hi, 0, req[1].k)
  <2>1. PICK p \in Seq(Bytes), k \in Nat, e \in Nat, n \in Nat :
          p = req[1].p /\ k = req[1].k /\ e = f.e /\ n = Len(p) /\ e <= k
    BY <1>1, <1>4 DEF FuzzyQuery
  <2>2. PICK g \in Nat : g = Abstract!Distance(Abstract!Folded(corpus[1], w),
                               Abstract!Folded(corpus[1], SubSeq(p, 0 + 1, Len(p))))
    <3>1. 0 + 1 \in 1..(Len(p) + 1)
      OBVIOUS
    <3>2. SubSeq(p, 0 + 1, Len(p)) \in Seq(Bytes)
      BY <3>1, SuffixFacts
    <3>3. PICK y \in Seq(Bytes) : y = SubSeq(p, 0 + 1, Len(p))
      BY <3>2
    <3>4. Abstract!Distance(Abstract!Folded(corpus[1], w), Abstract!Folded(corpus[1], y)) \in Nat
      BY <1>8, <3>3, DistanceNat
    <3> QED BY <3>3, <3>4
  <2>3. Len(w) <= n - 0 + e /\ g <= e
    BY <1>7, <2>1, <2>2 DEF Word
  <2>4. Len(w) <= n - 0 + k /\ g <= k
    <3>1. PICK l \in Nat : l = Len(w)
      BY <1>8
    <3>2. l <= n - 0 + k
      BY <2>1, <2>3, <3>1
    <3>3. g <= k
      BY <2>1, <2>2, <2>3
    <3> QED BY <3>1, <3>2, <3>3
  <2> QED BY <1>8, <2>1, <2>2, <2>4 DEF Word
<1> QED BY <1>8, <1>9, <1>10, <1>11, <1>12, <1>13

\* Where a word occurs, the bytes of the document are its own after folding.
LEMMA FoldedSame ==
    ASSUME NEW docs, NEW cf, Mirrors(docs, cf), NEW w \in Seq(Bytes),
           NEW d \in 0..(Len(docs) - 1), NEW off \in 0..Len(docs[d + 1]),
           Occurs(docs, cf, w, d, off)
    PROVE  /\ off + Len(w) \in off..Len(docs[d + 1])
           /\ Abstract!Folded(corpus[1], SubSeq(docs[d + 1], off + 1, off + Len(w)))
                = Abstract!Folded(corpus[1], w)
<1>1. PICK doc \in Seq(Bytes) : doc = docs[d + 1]
  <2>1. d + 1 \in 1..Len(docs) /\ docs \in Seq(Seq(Bytes))
    BY DEF Mirrors
  <2> QED BY <2>1
<1>2. PICK l \in Nat, n \in Nat : l = Len(doc) /\ n = Len(w)
  OBVIOUS
<1>3. off \in 0..l
  BY <1>1, <1>2
<1>4. off + n <= l /\ \A j \in 1..n : Fold(cf, doc[off + j]) = Fold(cf, w[j])
  BY <1>1, <1>2 DEF Occurs
<1>5. off + 1 \in Nat \ {0} /\ off + n \in 0..l /\ off + 1 <= (off + n) + 1
      /\ ((off + n) + 1) - (off + 1) = n
  BY <1>3, <1>4
<1>6. PICK v : v = SubSeq(doc, off + 1, off + n)
  OBVIOUS
<1>7. Len(v) = n /\ \A j \in 1..n : v[j] = doc[((off + 1) + j) - 1]
  BY <1>2, <1>5, <1>6, SliceFacts
<1>8. ASSUME NEW j \in 1..n PROVE Fold(cf, v[j]) = Fold(cf, w[j])
  <2>1. ((off + 1) + j) - 1 = off + j
    BY <1>3
  <2>2. v[j] = doc[off + j]
    BY <1>7, <2>1
  <2> QED BY <1>4, <2>2
<1>f. \A b : Abstract!Fold(corpus[1].cf, b) = Fold(cf, b)
  BY DEF Mirrors, Abstract!Fold, Abstract!IsUpper, Fold, IsUpper
<1>9. Abstract!Folded(corpus[1], v) = [j \in 1..n |-> Fold(cf, v[j])]
  BY <1>7, <1>f DEF Abstract!Folded
<1>10. Abstract!Folded(corpus[1], w) = [j \in 1..n |-> Fold(cf, w[j])]
  BY <1>2, <1>f DEF Abstract!Folded
<1>11. Abstract!Folded(corpus[1], v) = Abstract!Folded(corpus[1], w)
  BY <1>8, <1>9, <1>10
<1>12. off + n \in off..l
  BY <1>3, <1>4
<1> QED BY <1>1, <1>2, <1>6, <1>11, <1>12

\* What is near: in the terms of the documents.
LEMMA NearIs ==
    ASSUME NEW docs, NEW cf, Mirrors(docs, cf), NEW p, NEW k, NEW d
    PROVE  d \in Abstract!Near(corpus[1], p, k)
             <=> /\ d \in 0..(Len(docs) - 1)
                 /\ \E off \in 0..Len(docs[d + 1]) : \E end \in off..Len(docs[d + 1]) :
                      Abstract!Distance(
                        Abstract!Folded(corpus[1], SubSeq(docs[d + 1], off + 1, end)),
                        Abstract!Folded(corpus[1], p)) <= k
<1>1. \A x : Abstract!Doc(corpus[1], x) = docs[x + 1]
  BY DEF Mirrors, Abstract!Doc
<1>2. Abstract!DocIds(corpus[1]) = 0..(Len(docs) - 1)
  BY DEF Mirrors, Abstract!DocIds, Abstract!NDocs
<1> QED BY <1>1, <1>2 DEF Abstract!Near, Abstract!Within

\* The document of a row that was hit is near.
LEMMA HitIsNear ==
    ASSUME NEW docs, NEW cf, Searched(docs, cf), NEW r \in RowsHit, Array[r] < fm.text_len_
    PROVE  DocOf(fm.doc_start_, Array[r]) \in Abstract!Near(corpus[1], req[1].p, req[1].k)
<1>1. Mirrors(docs, cf) /\ FuzzyQuery
  BY DEF Searched
<1>2. r \in 0..fm.text_len_
  BY HitRow
<1>3. PICK w \in Seq(Bytes) :
        /\ Word(w, req[1].p, Interval(fm, w)[1], Interval(fm, w)[2], 0, req[1].k)
        /\ r \in Interval(fm, w)[1]..(Interval(fm, w)[2] - 1)
  BY HitRow
<1>4. PICK d : d = DocOf(fm.doc_start_, Array[r])
  OBVIOUS
<1>5. d \in 0..(Len(docs) - 1)
  BY <1>1, <1>2, <1>4, RowPlace
<1>6. PICK off \in 0..Len(docs[d + 1]) : Array[r] = DocBounds(docs)[d] + off
  BY <1>1, <1>2, <1>4, RowPlace
<1>7. Occurs(docs, cf, w, d, off)
  BY <1>1, <1>2, <1>3, <1>5, <1>6, RowStands
<1>8. PICK end : end = off + Len(w)
  OBVIOUS
<1>9. /\ end \in off..Len(docs[d + 1])
      /\ Abstract!Folded(corpus[1], SubSeq(docs[d + 1], off + 1, end))
           = Abstract!Folded(corpus[1], w)
  BY <1>1, <1>5, <1>6, <1>7, <1>8, FoldedSame
<1>10. PICK p \in Seq(Bytes) : p = req[1].p
  BY <1>1 DEF FuzzyQuery
<1>11. SubSeq(p, 0 + 1, Len(p)) = p
  BY SubSeqFull
<1>12. Abstract!Distance(Abstract!Folded(corpus[1], w), Abstract!Folded(corpus[1], p)) <= req[1].k
  BY <1>3, <1>10, <1>11 DEF Word
<1>13. Abstract!Distance(Abstract!Folded(corpus[1], SubSeq(docs[d + 1], off + 1, end)),
                         Abstract!Folded(corpus[1], req[1].p)) <= req[1].k
  BY <1>9, <1>10, <1>12
<1>14. d \in Abstract!Near(corpus[1], req[1].p, req[1].k)
  BY <1>1, <1>5, <1>6, <1>9, <1>13, NearIs
<1> QED BY <1>4, <1>14

\* A document that is near has a row that was hit.
LEMMA NearIsHit ==
    ASSUME NEW docs, NEW cf, Searched(docs, cf),
           NEW d \in Abstract!Near(corpus[1], req[1].p, req[1].k)
    PROVE  \E r \in RowsHit : Array[r] < fm.text_len_ /\ DocOf(fm.doc_start_, Array[r]) = d
<1>1. Mirrors(docs, cf) /\ FuzzyQuery /\ Explored(loc) /\ loc.calls = <<>>
  BY DEF Searched
<1>2. d \in 0..(Len(docs) - 1)
  BY <1>1, NearIs
<1>3. PICK off \in 0..Len(docs[d + 1]) : \E end \in off..Len(docs[d + 1]) :
        Abstract!Distance(Abstract!Folded(corpus[1], SubSeq(docs[d + 1], off + 1, end)),
                          Abstract!Folded(corpus[1], req[1].p)) <= req[1].k
  BY <1>1, NearIs
<1>4. PICK end \in off..Len(docs[d + 1]) :
        Abstract!Distance(Abstract!Folded(corpus[1], SubSeq(docs[d + 1], off + 1, end)),
                          Abstract!Folded(corpus[1], req[1].p)) <= req[1].k
  BY <1>3
<1>5. PICK l \in Nat : l = Len(docs[d + 1])
  <2>1. d + 1 \in 1..Len(docs) /\ docs \in Seq(Seq(Bytes))
    BY <1>1, <1>2 DEF Mirrors
  <2>2. docs[d + 1] \in Seq(Bytes)
    BY <2>1
  <2> QED BY <2>2
<1>6. PICK m \in 0..end : off = end - m /\ end \in 0..l /\ m \in Nat /\ end \in Nat
  <2>1. off \in 0..l /\ end \in off..l
    BY <1>3, <1>4, <1>5
  <2>2. end - off \in 0..end /\ off = end - (end - off) /\ end \in 0..l /\ end - off \in Nat
        /\ end \in Nat
    BY <2>1
  <2> QED BY <2>2
<1>7. Slice(docs, d, end, m) = SubSeq(docs[d + 1], off + 1, end)
  BY <1>6 DEF Slice
<1>8. Over(docs, cf, d, end)
  BY <1>1, <1>2, <1>5, <1>6 DEF Over
<1>9. PICK z \in 0..m : Interval(fm, Slice(docs, d, end, z)) \in loc.hits
  BY <1>4, <1>7, <1>8, CoveredCells
<1>10. z \in 0..end
  BY <1>6, <1>9
<1>11. PICK v : v = Slice(docs, d, end, z)
  OBVIOUS
<1>12. /\ v \in Seq(Bytes) /\ end - z \in 0..Len(docs[d + 1])
       /\ Occurs(docs, cf, v, d, end - z)
  <2>1. Sliced(docs, cf, d, end, z, v)
    BY <1>1, <1>2, <1>5, <1>6, <1>10, <1>11, SliceOccurs
  <2> QED BY <2>1 DEF Sliced
<1>13. PICK at \in 0..Len(docs[d + 1]) : at = end - z
  BY <1>12
<1>14. PICK r \in 0..fm.text_len_ :
         /\ Array[r] = DocBounds(docs)[d] + at /\ Array[r] < fm.text_len_
         /\ DocOf(fm.doc_start_, Array[r]) = d
  BY <1>1, <1>2, <1>13, PlaceRow
<1>15. r \in Interval(fm, v)[1]..(Interval(fm, v)[2] - 1)
  BY <1>1, <1>2, <1>12, <1>13, <1>14, RowStands
<1>16. r \in RowsHit
  BY <1>9, <1>11, <1>15 DEF RowsHit
<1> QED BY <1>14, <1>16

\* The search is over: the answer is the set of the documents that are near.
LEMMA DfsEndAnswers ==
    ASSUME IInv, FuzzyAnswers, DfsEnd
    PROVE  Answered'
<1>1. pc = "dfs" /\ pc \in Places /\ loc.calls = <<>>
  BY DEF DfsEnd, Places
<1>2. /\ req[1].op = "FuzzyMatchingDocs" /\ req[1] \in Requests /\ ObjectHolds /\ Valid(fm)
  BY <1>1, InPlace DEF OpOf
<1>3. FuzzyQuery
  BY <1>2, Arguments DEF FuzzyQuery
<1>4. Explored(loc) /\ req[1].p # <<>>
  BY <1>1 DEF FuzzyAnswers
<1>5. PICK docs, cf : Mirrors(docs, cf)
  BY <1>2, ValidMirrors
<1>6. Serves(fm, Text, Array) /\ Sampled(fm, Array) /\ corpus # <<>>
  BY <1>2, IndexServes, CorpusOf
<1>7. Searched(docs, cf)
  BY <1>1, <1>3, <1>4, <1>5, <1>6 DEF Searched
<1> DEFINE found == {LocateRow(fm, r) : r \in RowsHit}
           out == {DocOf(fm.doc_start_, pos) : pos \in {x \in found : x < fm.text_len_}}
           near == Abstract!Near(corpus[1], req[1].p, req[1].k)
<1>8. Respond(out)
  BY DEF DfsEnd, RowsHit
<1>9. ASSUME NEW r \in RowsHit PROVE LocateRow(fm, r) = Array[r]
  <2>1. r \in 0..fm.text_len_
    BY <1>7, HitRow
  <2> QED BY <1>6, <2>1, LocateRowExact
<1>10. ASSUME NEW x \in out PROVE x \in near
  <2>1. PICK r \in RowsHit : LocateRow(fm, r) < fm.text_len_
                             /\ x = DocOf(fm.doc_start_, LocateRow(fm, r))
    OBVIOUS
  <2>2. Array[r] < fm.text_len_ /\ x = DocOf(fm.doc_start_, Array[r])
    BY <1>9, <2>1
  <2> HIDE DEF near
  <2> QED BY <1>7, <2>2, HitIsNear DEF near
<1>11. ASSUME NEW x \in near PROVE x \in out
  <2>1. PICK r \in RowsHit : Array[r] < fm.text_len_ /\ DocOf(fm.doc_start_, Array[r]) = x
    BY <1>7, NearIsHit
  <2>2. LocateRow(fm, r) \in {y \in found : y < fm.text_len_}
    BY <1>9, <2>1
  <2>3. x = DocOf(fm.doc_start_, LocateRow(fm, r))
    BY <1>9, <2>1
  <2> HIDE DEF found
  <2> QED BY <2>2, <2>3
<1>12. out = near
  <2> HIDE DEF out, near
  <2> QED BY <1>10, <1>11
<1>13. PICK q : q = req[1]
  OBVIOUS
<1>14. Abstract!Answer(corpus, q) = IF q.p = <<>> THEN {} ELSE Abstract!Near(corpus[1], q.p, q.k)
  BY <1>2, <1>6, <1>13, ScanAnswer
<1>15. Abstract!Answer(corpus, q) = out
  <2> HIDE DEF out
  <2> QED BY <1>4, <1>12, <1>13, <1>14
<1> HIDE DEF out
<1>16. pc' = "done" /\ res' = <<out>> /\ corpus' = corpus /\ req' = req
  BY <1>8 DEF Respond
<1> QED BY <1>13, <1>15, <1>16 DEF Answered

-----------------------------------------------------------------------------
(***************************************************************************)
(* The refinement of DocIndex.                                             *)
(***************************************************************************)

\* The second invariant: what the loops have found so far is what the
\* documents say of the part that is behind them, and so are the answers.
LoopsAnswer == LongestAnswers /\ NextAnswers /\ FuzzyAnswers /\ CountAnswers /\ WalkAnswers
AnswerHolds == RestHolds /\ LoopsAnswer

\* Each loop speaks of its own places.
LEMMA OtherPlaces ==
    /\ pc' \notin {"end", "extend"} => LongestAnswers'
    /\ pc' # "byte" => NextAnswers'
    /\ pc' # "dfs" => FuzzyAnswers'
    /\ pc' \notin {"tile", "round", "scatter"} => CountAnswers'
    /\ pc' # "walks" => WalkAnswers'
<1>1. pc' \notin {"end", "extend"} => LongestAnswers'
  BY DEF LongestAnswers
<1>2. pc' # "byte" => NextAnswers'
  BY DEF NextAnswers
<1>3. pc' # "dfs" => FuzzyAnswers'
  BY DEF FuzzyAnswers
<1>4. pc' \notin {"tile", "round", "scatter"} => CountAnswers'
  BY DEF CountAnswers
<1>5. pc' # "walks" => WalkAnswers'
  BY DEF WalkAnswers
<1> QED BY <1>1, <1>2, <1>3, <1>4, <1>5

\* A step inside a query goes to one of the places of its loop, or answers.
Moves(places) ==
    /\ pc' \in places \cup {"done"} /\ pc' # "idle" /\ pc \notin {"idle", "done"}
    /\ corpus' = corpus /\ req' = req /\ (pc' # "done" => res' = res)

\* The loop invariants follow from that of the loop the step belongs to.
LEMMA MovesHold ==
    ASSUME IInv, AnswerHolds, NEW places, Moves(places), pc' = "done" => Answered', LoopsAnswer'
    PROVE  AnswerHolds'
BY DEF Moves, AnswerHolds, RestHolds

\* Where the steps of a query that scans lead.
LEMMA ScanMoves ==
    /\ LongestMatch \/ LongestEnd \/ LongestExtend => Moves({"end", "extend"})
    /\ NextTokenCounts \/ NextByte => Moves({"byte"})
    /\ FuzzyMatchingDocs \/ Dfs \/ DfsEnd => Moves({"dfs"})
<1>1. ASSUME LongestMatch \/ LongestEnd \/ LongestExtend PROVE Moves({"end", "extend"})
  BY <1>1 DEF LongestMatch, LongestEnd, LongestExtend, Go, Respond, Moves
<1>2. ASSUME NextTokenCounts \/ NextByte PROVE Moves({"byte"})
  BY <1>2 DEF NextTokenCounts, NextByte, Go, Respond, Moves
<1>3. ASSUME FuzzyMatchingDocs \/ Dfs \/ DfsEnd PROVE Moves({"dfs"})
  BY <1>3 DEF FuzzyMatchingDocs, Dfs, DfsEnd, Go, Respond, Moves
<1> QED BY <1>1, <1>2, <1>3

\* Where the steps of a batch lead.
LEMMA BatchMoves ==
    /\ CountBatch \/ CountTile \/ CountGather \/ CountScatter => Moves({"tile", "round", "scatter"})
    /\ LocateDocsBatch \/ WalkRound \/ WalksEnd => Moves({"walks"})
<1>1. ASSUME CountBatch PROVE Moves({"tile", "round", "scatter"})
  BY <1>1 DEF CountBatch, Go, Respond, Moves
<1>2. ASSUME CountTile PROVE Moves({"tile", "round", "scatter"})
  BY <1>2 DEF CountTile, Go, Respond, Moves
<1>3. ASSUME CountGather PROVE Moves({"tile", "round", "scatter"})
  BY <1>3 DEF CountGather, Go, Moves
<1>4. ASSUME CountScatter PROVE Moves({"tile", "round", "scatter"})
  BY <1>4 DEF CountScatter, Go, Moves
<1>5. ASSUME LocateDocsBatch PROVE Moves({"walks"})
  BY <1>5 DEF LocateDocsBatch, Go, Respond, Moves
<1>6. ASSUME WalkRound PROVE Moves({"walks"})
  BY <1>6 DEF WalkRound, Go, Moves
<1>7. ASSUME WalksEnd PROVE Moves({"walks"})
  BY <1>7 DEF WalksEnd, Respond, Moves
<1> QED BY <1>1, <1>2, <1>3, <1>4, <1>5, <1>6, <1>7

\* The answer of a query that scans.
LEMMA ScanAnswers ==
    ASSUME IInv, AnswerHolds, ScanStep
    PROVE  AnswerHolds'
<1>0. LongestAnswers /\ NextAnswers /\ FuzzyAnswers
  BY DEF AnswerHolds, LoopsAnswer
<1>1. CASE LongestMatch \/ LongestEnd \/ LongestExtend
  <2>1. LongestAnswers' /\ (pc' = "done" => Answered')
    BY <1>0, <1>1, LongestMatchAnswers, LongestEndAnswers, LongestExtendAnswers
  <2>2. Moves({"end", "extend"})
    BY <1>1, ScanMoves
  <2>3. LoopsAnswer'
    BY <2>1, <2>2, OtherPlaces DEF Moves, LoopsAnswer
  <2> QED BY <2>1, <2>2, <2>3, MovesHold
<1>2. CASE NextTokenCounts \/ NextByte
  <2>1. NextAnswers' /\ (pc' = "done" => Answered')
    BY <1>0, <1>2, NextTokenCountsAnswers, NextByteAnswers
  <2>2. Moves({"byte"})
    BY <1>2, ScanMoves
  <2>3. LoopsAnswer'
    BY <2>1, <2>2, OtherPlaces DEF Moves, LoopsAnswer
  <2> QED BY <2>1, <2>2, <2>3, MovesHold
<1>3. CASE FuzzyMatchingDocs \/ Dfs \/ DfsEnd
  <2>1. FuzzyAnswers' /\ (pc' = "done" => Answered')
    <3>1. CASE FuzzyMatchingDocs \/ Dfs
      BY <1>0, <3>1, FuzzyMatchingAnswers, DfsAnswers
    <3>2. CASE DfsEnd
      <4>1. pc' = "done"
        BY <3>2 DEF DfsEnd, Respond
      <4> QED BY <1>0, <3>2, <4>1, DfsEndAnswers, OtherPlaces
    <3> QED BY <1>3, <3>1, <3>2
  <2>2. Moves({"dfs"})
    BY <1>3, ScanMoves
  <2>3. LoopsAnswer'
    BY <2>1, <2>2, OtherPlaces DEF Moves, LoopsAnswer
  <2> QED BY <2>1, <2>2, <2>3, MovesHold
<1> QED BY <1>1, <1>2, <1>3 DEF ScanStep

\* The answer of a batch.
LEMMA BatchAnswers ==
    ASSUME IInv, AnswerHolds, BatchStep
    PROVE  AnswerHolds'
<1>0. CountAnswers /\ WalkAnswers
  BY DEF AnswerHolds, LoopsAnswer
<1>1. CASE CountBatch \/ CountTile \/ CountGather \/ CountScatter
  <2>1. CountAnswers' /\ (pc' = "done" => Answered')
    BY <1>0, <1>1, CountBatchAnswers, CountTileAnswers, CountGatherAnswers, CountScatterAnswers
  <2>2. Moves({"tile", "round", "scatter"})
    BY <1>1, BatchMoves
  <2>3. LoopsAnswer'
    BY <2>1, <2>2, OtherPlaces DEF Moves, LoopsAnswer
  <2> QED BY <2>1, <2>2, <2>3, MovesHold
<1>2. CASE LocateDocsBatch \/ WalkRound \/ WalksEnd
  <2>1. WalkAnswers' /\ (pc' = "done" => Answered')
    <3>1. CASE LocateDocsBatch \/ WalkRound
      BY <1>0, <3>1, LocateDocsBatchAnswers, WalkRoundAnswers
    <3>2. CASE WalksEnd
      <4>1. pc' = "done"
        BY <3>2 DEF WalksEnd, Respond
      <4> QED BY <1>0, <3>2, <4>1, WalksEndAnswers, OtherPlaces
    <3> QED BY <1>2, <3>1, <3>2
  <2>2. Moves({"walks"})
    BY <1>2, BatchMoves
  <2>3. LoopsAnswer'
    BY <2>1, <2>2, OtherPlaces DEF Moves, LoopsAnswer
  <2> QED BY <2>1, <2>2, <2>3, MovesHold
<1> QED BY <1>1, <1>2 DEF BatchStep

\* Nothing of it changes when nothing does.
LEMMA StutterAnswers ==
    ASSUME AnswerHolds, UNCHANGED vars
    PROVE  AnswerHolds'
<1>1. fm' = fm /\ corpus' = corpus /\ pc' = pc /\ req' = req /\ res' = res /\ loc' = loc
  BY DEF vars
<1>2. RestHolds'
  BY <1>1 DEF AnswerHolds, RestHolds, Answered
<1>3. LongestAnswers'
  BY <1>1 DEF AnswerHolds, LoopsAnswer, LongestAnswers, Sofar
<1>4. NextAnswers'
  BY <1>1 DEF AnswerHolds, LoopsAnswer, NextAnswers, Counted
<1>5. FuzzyAnswers'
  <2>1. DfsCalls' = DfsCalls
    BY <1>1 DEF DfsCalls, Reached, M
  <2>2. ASSUME NEW g PROVE Calls(g)' = Calls(g)
    BY <1>1 DEF Calls, Symbols, Follow
  <2>3. FirstCall' = FirstCall
    BY <1>1 DEF FirstCall, M
  <2> QED BY <1>1, <2>1, <2>2, <2>3
          DEF AnswerHolds, LoopsAnswer, FuzzyAnswers, Explored, Visit, Seen, Met, Key, CallAt, Has
<1>6. CountAnswers'
  BY <1>1 DEF AnswerHolds, LoopsAnswer, CountAnswers, Due, Settled, PatternCount, Batch
<1>7. WalkAnswers'
  BY <1>1 DEF AnswerHolds, LoopsAnswer, WalkAnswers, Reports, Of, PatternRows, Target, Array, Batch
<1> QED BY <1>2, <1>3, <1>4, <1>5, <1>6, <1>7 DEF AnswerHolds, LoopsAnswer

\* Every step keeps the second invariant.
LEMMA AnswerNext ==
    ASSUME IInv, AnswerHolds, [Next]_vars
    PROVE  AnswerHolds'
<1>0. RestHolds
  BY DEF AnswerHolds
<1>1. CASE Build
  <2>1. pc = "idle" /\ pc' = "idle" /\ req' = req /\ res' = res
    BY <1>1 DEF Build
  <2> QED BY <1>0, <2>1, OtherPlaces DEF AnswerHolds, LoopsAnswer, RestHolds
<1>2. CASE Call
  <2>1. pc = "idle" /\ res' = res
    BY <1>2 DEF Call
  <2>2. PICK q \in Requests : pc' = q.op
    BY <1>2 DEF Call
  <2>3. pc' \notin {"idle", "done"} \cup Places
    BY <2>2, Arguments
  <2>4. LoopsAnswer'
    BY <2>3, OtherPlaces DEF LoopsAnswer, Places
  <2>5. RestHolds'
    BY <1>0, <2>1, <2>3 DEF RestHolds
  <2> QED BY <2>4, <2>5 DEF AnswerHolds
<1>3. CASE Return
  <2>1. pc' = "idle" /\ req' = <<>> /\ res' = <<>>
    BY <1>3 DEF Return
  <2> QED BY <2>1, OtherPlaces DEF AnswerHolds, LoopsAnswer, RestHolds
<1>4. CASE ScanStep
  BY <1>4, ScanAnswers
<1>5. CASE BatchStep
  BY <1>5, BatchAnswers
<1>6. CASE UNCHANGED vars
  BY <1>6, StutterAnswers
<1> QED BY <1>1, <1>2, <1>3, <1>4, <1>5, <1>6 DEF Next, QueryStep

\* Every answer is that of the documents.
THEOREM AnswerInvariant == Spec => [](IInv /\ AnswerHolds)
<1>1. Init => AnswerHolds
  BY DEF Init, AnswerHolds, LoopsAnswer, RestHolds, LongestAnswers, NextAnswers, FuzzyAnswers,
         CountAnswers, WalkAnswers
<1>2. IInv /\ AnswerHolds /\ [Next]_vars => AnswerHolds'
  BY AnswerNext
<1> QED BY <1>1, <1>2, Invariant, PTL DEF Spec

\* The scanning and the batch queries are those of a DocIndex: the longest
\* match, the counts of the next bytes, the documents within the budget, and
\* the counts and places of every pattern of a batch are what looking at the
\* documents gives.  (That every query is answered stays with TLC.)
THEOREM RefinesDocIndex == Spec => Abstract!Init /\ [][Abstract!Next]_(Abstract!vars)
<1>1. Init => Abstract!Init
  BY DEF Init, Abstract!Init
<1>2. ASSUME IInv, AnswerHolds, AnswerHolds', [Next]_vars
      PROVE  [Abstract!Next]_(Abstract!vars)
  <2>0. RestHolds /\ RestHolds'
    BY <1>2 DEF AnswerHolds
  <2>1. CASE Build
    <3>1. req = <<>> /\ UNCHANGED <<req, res>> /\ \E c \in Corpora : corpus' = <<c>>
      BY <2>0, <2>1 DEF Build, RestHolds
    <3> QED BY <3>1 DEF Abstract!Build, Abstract!Next
  <2>2. CASE Call
    <3>1. req = <<>> /\ UNCHANGED <<corpus, res>> /\ \E q \in Requests : req' = <<q>>
      BY <2>0, <2>2 DEF Call, RestHolds
    <3> QED BY <3>1 DEF Abstract!Call, Abstract!Next
  <2>3. CASE ScanStep \/ BatchStep
    <3>1. \E places : Moves(places)
      BY <2>3, ScanMoves, BatchMoves DEF ScanStep, BatchStep
    <3>2. /\ corpus' = corpus /\ req' = req /\ pc \notin {"idle", "done"}
          /\ pc' # "done" => res' = res
      BY <3>1 DEF Moves
    <3>3. res = <<>> /\ req # <<>>
      BY <1>2, <2>0, <3>2 DEF RestHolds, IInv, PlaceHolds
    <3>4. CASE pc' = "done"
      <4>1. res' = <<Abstract!Answer(corpus, req[1])>>
        BY <2>0, <3>2, <3>4 DEF RestHolds, Answered
      <4> QED BY <3>2, <3>3, <4>1 DEF Abstract!Reply, Abstract!Next
    <3>5. CASE pc' # "done"
      BY <3>2, <3>5 DEF Abstract!vars
    <3> QED BY <3>4, <3>5
  <2>4. CASE Return
    <3>1. res # <<>>
      BY <2>0, <2>4 DEF Return, RestHolds, Answered
    <3> QED BY <2>4, <3>1 DEF Return, Abstract!Done, Abstract!Next
  <2>5. CASE UNCHANGED vars
    BY <2>5 DEF vars, Abstract!vars
  <2> QED BY <1>2, <2>1, <2>2, <2>3, <2>4, <2>5 DEF Next, QueryStep
<1>3. IInv /\ AnswerHolds /\ AnswerHolds' /\ [Next]_vars => [Abstract!Next]_(Abstract!vars)
  BY <1>2
<1> QED BY <1>1, <1>3, AnswerInvariant, PTL DEF Spec
=============================================================================
