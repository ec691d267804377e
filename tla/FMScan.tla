------------------------------- MODULE FMScan -------------------------------
(***************************************************************************)
(* The queries that make many backward searches: LongestMatch (one per end *)
(* position), NextTokenCounts (one per byte) and FuzzyMatchingDocs (a      *)
(* depth-first search over SA intervals with a memo).                      *)
(***************************************************************************)
EXTENDS FMCall

NoBest == [length |-> 0, query_pos |-> 0, count |-> 0]

LongestMatch ==
    /\ pc = "LongestMatch"
    /\ IF Valid(fm) THEN Go("end", [best |-> NoBest, e |-> 0]) ELSE Respond(NoBest)

\* The next end position: k is the query byte before which the match stands.
LongestEnd ==
    /\ pc = "end"
    /\ IF loc.e < Len(req[1].p)
         THEN Go("extend", [best |-> loc.best, e |-> loc.e, k |-> loc.e + 1,
                            lo |-> 0, hi |-> M(fm), len |-> 0])
         ELSE Respond(loc.best)

\* The byte before the match extends it, or the next end position is tried.
LongestExtend ==
    LET id == fm.byte_to_id_[req[1].p[loc.k]]
        nlo == Extend(fm, id, loc.lo)
        nhi == Extend(fm, id, loc.hi)
        len == loc.len + 1 IN
    /\ pc = "extend"
    /\ IF loc.k = 0 \/ id < 0 \/ nlo >= nhi
         THEN Go("end", [best |-> loc.best, e |-> loc.e + 1])
         ELSE Go("extend",
                 [loc EXCEPT !.k = @ - 1, !.lo = nlo, !.hi = nhi, !.len = len,
                             !.best = IF len > @.length
                                        THEN [length |-> len, query_pos |-> loc.k - 1,
                                              count |-> nhi - nlo]
                                        ELSE @])

-----------------------------------------------------------------------------
Width(iv) == iv[2] - iv[1]

\* NextTokenCounts: nothing unless the pattern itself occurs.
NextTokenCounts ==
    /\ pc = "NextTokenCounts"
    /\ IF ~Valid(fm) \/ Width(Interval(fm, req[1].p)) = 0
         THEN Respond(Nothing)
         ELSE Go("byte", [b |-> 0, out |-> Nothing])

NextByte ==
    LET b == loc.b
        cnt == Width(Interval(fm, Append(req[1].p, b))) IN
    /\ pc = "byte"
    /\ IF b > ByteMax THEN Respond(loc.out)
       ELSE Go("byte", [b |-> b + 1,
                        out |-> IF fm.byte_to_id_[b] < 0 \/ cnt = 0 THEN loc.out
                                ELSE [x \in DOMAIN loc.out \cup {b} |->
                                        IF x = b THEN cnt ELSE loc.out[x]]])

-----------------------------------------------------------------------------
\* FuzzyMatchingDocs: the calls of dfs that are to come, the first one next.
FuzzyMatchingDocs ==
    /\ pc = "FuzzyMatchingDocs"
    /\ IF ~Valid(fm) \/ req[1].p = <<>>
         THEN Respond({})
         ELSE Go("dfs", [calls |-> <<[lo |-> 0, hi |-> M(fm), i |-> Len(req[1].p), e |-> 0]>>,
                         visited |-> Nothing, hits |-> {}])

\* Mutant: any visit is enough, whatever it had spent.
Mut_Pruned(key, e) == key \in DOMAIN loc.visited

\* The memo has been there with as few errors.
Pruned(key, e) == key \in DOMAIN loc.visited /\ loc.visited[key] <= e

\* Mutant: the separator is a symbol like the others.
Mut_Symbols == 1..(fm.sigma_ - 1)

\* The symbols an edit may step onto: never the separator.
Symbols == 2..(fm.sigma_ - 1)

\* Mutant: an empty interval is followed too.
Mut_Follow(f) == <<f>>

\* A call is made for an interval that has rows.
Follow(f) == IF f.lo < f.hi THEN <<f>> ELSE <<>>

\* The calls that dfs(f.lo, f.hi, f.i, f.e) makes, in order.  With the budget
\* spent only the pattern's own symbol is followed; before that a pattern byte
\* is skipped, or a symbol of the text matches, replaces it or is put in.
Calls(f) ==
    LET tid == fm.byte_to_id_[req[1].p[f.i]]
        Step(d, i, e) ==
          Follow([lo |-> Extend(fm, d, f.lo), hi |-> Extend(fm, d, f.hi), i |-> i, e |-> e])
        From[d \in 0..(fm.sigma_ - 1)] ==
          IF d = 0 THEN <<[f EXCEPT !.i = @ - 1, !.e = @ + 1]>>
          ELSE From[d - 1] \o (IF d \notin Symbols THEN <<>>
                               ELSE Step(d, f.i - 1, IF tid = d THEN f.e ELSE f.e + 1)
                                    \o Step(d, f.i, f.e + 1))
    IN IF f.e < req[1].k THEN From[fm.sigma_ - 1]
       ELSE IF tid < 0 THEN <<>> ELSE Step(tid, f.i - 1, f.e)

Dfs ==
    LET f == Head(loc.calls)
        rest == Tail(loc.calls)
        key == <<f.lo, f.hi, f.i>> IN
    /\ pc = "dfs" /\ loc.calls # <<>>
    /\ Go("dfs",
          IF f.i = 0 THEN [loc EXCEPT !.calls = rest, !.hits = @ \cup {<<f.lo, f.hi>>}]
          ELSE IF Pruned(key, f.e) THEN [loc EXCEPT !.calls = rest]
          ELSE [loc EXCEPT !.calls = Calls(f) \o rest,
                           !.visited = [x \in DOMAIN @ \cup {key} |->
                                          IF x = key THEN f.e ELSE @[x]]])

\* The documents of all the rows that were hit.
DfsEnd ==
    LET rows == UNION {h[1]..(h[2] - 1) : h \in loc.hits}
        found == {LocateRow(fm, r) : r \in rows} IN
    /\ pc = "dfs" /\ loc.calls = <<>>
    /\ Respond({DocOf(fm.doc_start_, pos) : pos \in {p \in found : p < fm.text_len_}})

ScanStep == \/ LongestMatch \/ LongestEnd \/ LongestExtend
            \/ NextTokenCounts \/ NextByte
            \/ FuzzyMatchingDocs \/ Dfs \/ DfsEnd
=============================================================================
