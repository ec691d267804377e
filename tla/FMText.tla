------------------------------- MODULE FMText -------------------------------
(***************************************************************************)
(* The tables Build computes, as functions of the documents: document      *)
(* bounds, dense alphabet, symbol text, suffix array, samples, BWT, C      *)
(* table.  Arrays are functions on 0..n-1.                                 *)
(***************************************************************************)
EXTENDS ByteFold, Sequences, FiniteSets

\* doc_bounds_owned_: where each document starts in the text, and its end.
DocBounds(docs) ==
    LET start[d \in 0..Len(docs)] ==
          IF d = 0 THEN 0 ELSE start[d - 1] + Len(docs[d]) + 1
    IN start

\* docOf: the last bound that is <= p (upper_bound - 1).
DocOf(bounds, p) == Cardinality({d \in DOMAIN bounds : bounds[d] <= p}) - 1

\* The bytes of the corpus after folding.
Present(docs, cf) ==
    UNION {{Fold(cf, docs[d][j]) : j \in 1..Len(docs[d])} : d \in 1..Len(docs)}

\* byte_to_id_: ids 0 (sentinel) and 1 (separator) belong to no byte; the
\* others follow byte order; an upper-case byte aliases its lower-case one.
ByteToId(docs, cf) ==
    LET P == Present(docs, cf)
        Id(x) == IF x \in P THEN 2 + Cardinality({y \in P : y < x}) ELSE -1
    IN [x \in Bytes |-> Id(Fold(cf, x))]

Sigma(docs, cf) == 2 + Cardinality(Present(docs, cf))

\* id_to_byte_: ascending iteration, so that the largest byte of an id wins.
IdToByte(b2i, sigma) ==
    [c \in 0..(sigma - 1) |->
        LET B == {x \in Bytes : b2i[x] > 0 /\ b2i[x] = c}
        IN IF B = {} THEN 0 ELSE CHOOSE x \in B : \A y \in B : y <= x]

\* fill_symbols: the ids of a document, a separator after each document, and
\* the sentinel at the end.
SymbolText(docs, b2i) ==
    LET bounds == DocBounds(docs)
        len == bounds[Len(docs)]
    IN [p \in 0..len |->
          IF p = len THEN 0
          ELSE LET d == DocOf(bounds, p)
                   off == p - bounds[d]
               IN IF off < Len(docs[d + 1]) THEN b2i[docs[d + 1][off + 1]] ELSE 1]

\* The suffix of t at p sorts before the one at q.
SuffixLess(t, p, q) ==
    \E k \in DOMAIN t : /\ p + k \in DOMAIN t /\ q + k \in DOMAIN t
                        /\ t[p + k] < t[q + k]
                        /\ \A j \in 0..(k - 1) : t[p + j] = t[q + j]

\* build_suffix_array_symbols32 / 64: the libsais library sorts the suffixes.
SuffixArray(t) ==
    LET rankOf == [p \in DOMAIN t |-> Cardinality({q \in DOMAIN t : SuffixLess(t, q, p)})]
    IN [r \in DOMAIN t |-> CHOOSE p \in DOMAIN t : rankOf[p] = r]

\* Mutant: the rows, not the positions, are sampled.
Mut_SampledRows(sa, rate) == {r \in DOMAIN sa : r % rate = 0}

\* Rows whose suffix starts at a multiple of the sampling rate, and their
\* positions in row order.
SampledRows(sa, rate) == {r \in DOMAIN sa : sa[r] % rate = 0}
SampleVals(sa, rows) ==
    [s \in 0..(Cardinality(rows) - 1) |->
       sa[CHOOSE r \in rows : Cardinality({x \in rows : x < r}) = s]]

\* Mutant: the separator precedes the whole text.
Mut_Bwt(t, sa) == [r \in DOMAIN sa |-> IF sa[r] = 0 THEN 1 ELSE t[sa[r] - 1]]

\* The symbol before each row's suffix; the one before the whole text is the
\* sentinel.
Bwt(t, sa) == [r \in DOMAIN sa |-> IF sa[r] = 0 THEN 0 ELSE t[sa[r] - 1]]

\* c_: how many symbols of the text are smaller.
CTable(bwt, sigma) ==
    [c \in 0..(sigma - 1) |-> Cardinality({r \in DOMAIN bwt : bwt[r] < c})]
=============================================================================
