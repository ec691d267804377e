------------------------------ MODULE FMQueries -----------------------------
(***************************************************************************)
(* The scanning and the batch queries together, and what they promise: the *)
(* answers of DocIndex.                                                    *)
(***************************************************************************)
EXTENDS FMScan, FMBatch

QueryStep == ScanStep \/ BatchStep

Next == Build \/ Call \/ QueryStep \/ Return

\* A query that was called runs to its end: nothing in it waits.
Spec == Init /\ [][Next]_vars /\ WF_vars(QueryStep)

\* The answers are those of the documents themselves, and every query that is
\* asked is answered.
Abstract == INSTANCE DocIndex WITH corpus <- corpus, req <- req, res <- res
ImplementsDocIndex == Abstract!Spec

-----------------------------------------------------------------------------
\* The byte sequences of at most n bytes.
Words(n) == UNION {[1..m -> Bytes] : m \in 0..n}

\* Types of the places and of the locals that bound the loops.
TypeOK ==
    /\ fm = Fresh \/ Valid(fm)
    /\ pc \in {"idle", "done", "end", "extend", "byte", "dfs", "tile", "round", "scatter", "walks"}
         \/ \E q \in Requests : pc = q.op
    /\ pc = "extend" => loc.k \in 0..Len(req[1].p) /\ loc.lo \in 0..M(fm) /\ loc.hi \in 0..M(fm)
    /\ pc = "dfs" => \A n \in 1..Len(loc.calls) :
                       LET f == loc.calls[n] IN
                       /\ 0 <= f.lo /\ f.lo < f.hi /\ f.hi <= M(fm)
                       /\ f.i \in 0..Len(req[1].p) /\ f.e \in 0..req[1].k
    /\ pc = "scatter" => loc.j \in 1..Len(loc.batch)
    /\ pc = "walks" => \A g \in 1..Len(loc.walks) : loc.walks[g].row \in 0..(M(fm) - 1)

\* FuzzyMatchingDocs: the interval of a call of dfs is that of a word without
\* separators that is at most e edits away from the pattern bytes behind i.
FuzzySound ==
    (pc = "dfs" /\ loc.calls # <<>>) =>
        LET f == Head(loc.calls)
            c == corpus[1]
            matched == SubSeq(req[1].p, f.i + 1, Len(req[1].p)) IN
        \E w \in Words(Len(matched) + f.e) :
            /\ Interval(fm, w) = <<f.lo, f.hi>>
            /\ Abstract!Within(Abstract!Folded(c, w), Abstract!Folded(c, matched), f.e)

\* CountBatch: the interval of an active lane is that of the bytes its own
\* pattern has behind posn, in whatever order lanes end and are compacted.
LaneExact ==
    pc \in {"round", "scatter"} =>
        \A s \in Lanes(Len(Batch)) : loc.lane[s].active =>
            LET p == Batch[loc.t0 + s] IN
            Interval(fm, SubSeq(p, loc.lane[s].posn + 1, Len(p)))
              = <<loc.lane[s].lo, loc.lane[s].hi>>

\* LocateDocsBatch: no round moves the position a walk is to report, whichever
\* walks of the tile end with it.
WalksKeepPosition ==
    [][(pc = "walks" /\ pc' = "walks") =>
         \A g \in 1..Len(loc.walks) :
            LET Target(w) == IF w.done THEN w.pos ELSE LocateRow(fm, w.row) + w.steps
            IN Target(loc'.walks[g]) = Target(loc.walks[g])]_vars
=============================================================================
