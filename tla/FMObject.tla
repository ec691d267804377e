------------------------------ MODULE FMObject ------------------------------
(***************************************************************************)
(* The members of an FMIndex object and what the queries compute from      *)
(* them.  An object is a record whose fields have the names of the         *)
(* members; wm_ is the symbol sequence, read only through what SymbolRank  *)
(* says of the wavelet matrix.  FMIndex builds such objects step by step;  *)
(* FMQueries and FMBlob start from objects that are built.                 *)
(***************************************************************************)
EXTENDS FMText, SymbolRank

NoIsa == <<>>
Nothing == [x \in {} |-> 0]

\* A default-constructed object.
Fresh == [doc_bounds_owned_ |-> Nothing, doc_start_ |-> Nothing,
          sa_sample_rate_ |-> 1, case_fold_ |-> FALSE, text_len_ |-> 0, sigma_ |-> 2,
          byte_to_id_ |-> [x \in Bytes |-> 0], wm_ |-> Nothing, qlevels_ |-> 0,
          c_ |-> Nothing, first_ |-> Nothing, sampled_bv_ |-> {},
          sample_vals_owned_ |-> Nothing, sv_ |-> Nothing,
          id_to_byte_ |-> Nothing, isa_sample_ |-> NoIsa]

Valid(o) == o.c_ # Nothing
M(o) == o.text_len_ + 1
NDocBounds(o) == Cardinality(DOMAIN o.doc_start_)

Starts(bwt, sigma, q) == [c \in 0..(sigma - 1) |-> GroupStart(bwt, c, q)]

\* The object that a Build which completes leaves, as a function of the
\* arguments alone.
Built(docs, cf, rate) ==
    LET bounds == DocBounds(docs)
        b2i == ByteToId(docs, cf)
        sigma == Sigma(docs, cf)
        q == QLevels(sigma)
        t == SymbolText(docs, b2i)
        sa == SuffixArray(t)
        rows == SampledRows(sa, rate)
        vals == SampleVals(sa, rows)
        bwt == Bwt(t, sa)
    IN [doc_bounds_owned_ |-> bounds, doc_start_ |-> bounds,
        sa_sample_rate_ |-> rate, case_fold_ |-> cf, text_len_ |-> bounds[Len(docs)],
        sigma_ |-> sigma, byte_to_id_ |-> b2i, wm_ |-> bwt, qlevels_ |-> q,
        c_ |-> CTable(bwt, sigma), first_ |-> Starts(bwt, sigma, q),
        sampled_bv_ |-> rows, sample_vals_owned_ |-> vals, sv_ |-> vals,
        id_to_byte_ |-> IdToByte(b2i, sigma), isa_sample_ |-> NoIsa]

-----------------------------------------------------------------------------
LF(o, r) == LET sym == o.wm_[r] IN o.c_[sym] + RankIn(o.wm_, sym, r)

\* Mutant: the start of the symbol's group is not taken off.
Mut_Extend(o, c, bound) == o.c_[c] + MapPos(o.wm_, c, bound, o.qlevels_)

\* One backward extension of a row bound by symbol c.
Extend(o, c, bound) == (o.c_[c] - o.first_[c]) + MapPos(o.wm_, c, bound, o.qlevels_)

\* The value of a sampled row: its rank among the sampled rows is its slot.
SampleVal(o, r) == o.sv_[Cardinality({x \in o.sampled_bv_ : x < r})]

\* BackwardSearch: the interval of rows whose suffix starts with p.
Interval(o, p) ==
    LET iv[n \in 0..Len(p)] ==
          IF n = 0 THEN <<0, M(o)>>
          ELSE LET id == o.byte_to_id_[p[Len(p) + 1 - n]]
                   prev == iv[n - 1]
                   next == [e \in 1..2 |-> Extend(o, id, prev[e])]
               IN IF prev = <<0, 0>> \/ id < 0 \/ next[1] >= next[2] THEN <<0, 0>> ELSE next
    IN iv[Len(p)]

\* locateRow: LF until a sampled row.
LocateRow(o, r) ==
    LET walk[n \in 0..M(o)] == IF n = 0 THEN r ELSE LF(o, walk[n - 1])
        n == CHOOSE x \in 0..M(o) : /\ walk[x] \in o.sampled_bv_
                                    /\ \A y \in 0..(x - 1) : walk[y] \notin o.sampled_bv_
    IN SampleVal(o, walk[n]) + n

\* Where position pos is: its document, and the offset in it.
Hit(o, pos) == LET d == DocOf(o.doc_start_, pos) IN <<d, pos - o.doc_start_[d]>>

\* A vector that the code sorts is a bag.
Push(bag, x) == [y \in DOMAIN bag \cup {x} |->
                   (IF y \in DOMAIN bag THEN bag[y] ELSE 0) + (IF y = x THEN 1 ELSE 0)]
=============================================================================
