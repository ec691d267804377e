------------------------------ MODULE FMIndex -------------------------------
(***************************************************************************)
(* An FMIndex object from Build on (FMIndex.h, FMIndexInl.h): Build, and   *)
(* the queries that search backwards through the BWT and walk it with LF.  *)
(* Every turn of a loop is a step.                                         *)
(***************************************************************************)
EXTENDS FMObject

CONSTANTS
    Corpora, Requests,  \* as in DocIndex
    Rates,              \* values given for sa_sample_rate
    RebuildFrom,        \* the corpora after which Build is called again
    RebuildAnytime,     \* also when the anchor table has been made
    ThrowsOn,           \* the corpora on which memory may run out
    MayThrow,           \* the steps in which it may, of an object without an index
    MayThrowAgain,      \* the same for a Build of an object that has an index
    DocIdMod            \* 2^64: the width of a document id

\* The queries that start with a backward search.
SearchOps == {"Count", "LocateDocs", "VisitMatchingDocs", "MatchingDocs", "CountPrefixDocs",
              "LocatePrefixDocs", "CountSuffixDocs", "LocateSuffixDocs"}

\* Documents and patterns are sequences of bytes; ids, offsets, lengths and the
\* sampling rate are unsigned.
ASSUME CallAssumption ==
    /\ Corpora \subseteq [docs : Seq(Seq(Bytes)), cf : BOOLEAN]
    /\ Rates \subseteq Nat
    /\ \A q \in Requests : IF q.op = "Extract" THEN {q.doc, q.off, q.len} \subseteq Nat
                                                ELSE q.op \in SearchOps /\ q.p \in Seq(Bytes)

VARIABLES
    fm,         \* the object
    arg,        \* <<>> or <<the arguments of the Build in progress>>
    t, sa,      \* Build: symbol text and suffix array, kept for the properties
    corpus,     \* history: <<>> or <<the corpus of the Build that completed>>
    pc,
    req, res,   \* the query and its answer, <<>> when there is none
    lo, hi,     \* SA interval
    k,          \* search: pattern bytes left
    i,          \* locate: row of the interval
    row, steps, \* LF walk: the current row and the steps taken; Extract: position p
    out         \* locate: bag of pushed values; Extract: the bytes written

build == <<arg, t, sa, corpus>>
query == <<req, res, lo, hi, k, i, row, steps, out>>
vars == <<fm, build, pc, query>>

\* ensureIsaSample: the row of every sampled position; call_once runs it once.
IsaSample == [s \in 0..(fm.text_len_ \div fm.sa_sample_rate_) |->
                LET R == {r \in fm.sampled_bv_ : SampleVal(fm, r) \div fm.sa_sample_rate_ = s}
                IN IF R = {} THEN 0 ELSE CHOOSE r \in R : \A x \in R : x <= r]
EnsureIsaSample == IF fm.isa_sample_ = NoIsa THEN IsaSample ELSE fm.isa_sample_

-----------------------------------------------------------------------------
Init ==
    /\ fm = Fresh
    /\ arg = <<>> /\ t = <<>> /\ sa = <<>> /\ corpus = <<>>
    /\ pc = "idle" /\ req = <<>> /\ res = <<>>
    /\ lo = 0 /\ hi = 0 /\ k = 0 /\ i = 0 /\ row = 0 /\ steps = 0 /\ out = <<>>

(***************************************************************************)
(* Build.  Members are assigned in the order of the code, and what can     *)
(* throw is the start of a step, so that a Build that throws leaves the    *)
(* members assigned so far.                                                *)
(***************************************************************************)

\* The caller, who tries again after a Build that threw, and the first thing
\* Build does: the bounds are cleared, which their view does not see.
BuildCall ==
    /\ pc = "idle" /\ req = <<>>
    /\ \/ corpus = <<>>
       \/ /\ corpus # <<>> /\ corpus[1] \in RebuildFrom
          /\ fm.isa_sample_ = NoIsa \/ RebuildAnytime
    /\ \E c \in Corpora, rate \in Rates : arg' = <<[docs |-> c.docs, cf |-> c.cf, rate |-> rate]>>
    /\ fm' = [fm EXCEPT !.doc_bounds_owned_ = Nothing]
    /\ pc' = "layout"
    /\ UNCHANGED <<t, sa, corpus, query>>

\* What a pointer into a vector sees once the vector has been cleared and
\* filled again: the new elements if they fit into the old buffer, else memory
\* that has been freed.
Dangling == -1
Seen(view, new) ==
    [x \in DOMAIN view |->
       IF Cardinality(DOMAIN new) > Cardinality(DOMAIN view) THEN Dangling
       ELSE IF x \in DOMAIN new THEN new[x] ELSE view[x]]

BuildLayout ==
    LET bounds == DocBounds(arg[1].docs) IN
    /\ pc = "layout"
    /\ fm' = [fm EXCEPT !.doc_bounds_owned_ = bounds, !.doc_start_ = Seen(@, bounds)]
    /\ pc' = "alphabet"
    /\ UNCHANGED <<build, query>>

BuildAlphabet ==
    LET a == arg[1]
        sigma == Sigma(a.docs, a.cf) IN
    /\ pc = "alphabet"
    /\ fm' = [fm EXCEPT !.sa_sample_rate_ = IF a.rate = 0 THEN 1 ELSE a.rate,
                        !.case_fold_ = a.cf,
                        !.text_len_ = fm.doc_bounds_owned_[Len(a.docs)],
                        !.byte_to_id_ = ByteToId(a.docs, a.cf),
                        !.sigma_ = sigma,
                        !.qlevels_ = QLevels(sigma)]
    /\ pc' = "sort"
    /\ UNCHANGED <<build, query>>

BuildSort ==
    /\ pc = "sort"
    /\ t' = SymbolText(arg[1].docs, fm.byte_to_id_)
    /\ sa' = SuffixArray(t')
    /\ pc' = "sample"
    /\ UNCHANGED <<fm, arg, corpus, query>>

BuildClearSamples ==
    /\ pc = "sample"
    /\ fm' = [fm EXCEPT !.sample_vals_owned_ = Nothing]
    /\ pc' = "values"
    /\ UNCHANGED <<build, query>>

BuildSamples ==
    LET vals == SampleVals(sa, SampledRows(sa, fm.sa_sample_rate_)) IN
    /\ pc = "values"
    /\ fm' = [fm EXCEPT !.sample_vals_owned_ = vals, !.sv_ = Seen(@, vals)]
    /\ pc' = "bitmap"
    /\ UNCHANGED <<build, query>>

BuildBitmap ==
    /\ pc = "bitmap"
    /\ fm' = [fm EXCEPT !.sampled_bv_ = SampledRows(sa, fm.sa_sample_rate_)]
    /\ pc' = "ctable"
    /\ UNCHANGED <<build, query>>

BuildCTable ==
    /\ pc = "ctable"
    /\ fm' = [fm EXCEPT !.c_ = CTable(Bwt(t, sa), fm.sigma_)]
    /\ pc' = "wavelet"
    /\ UNCHANGED <<build, query>>

BuildWavelet ==
    /\ pc = "wavelet"
    /\ fm' = [fm EXCEPT !.wm_ = Bwt(t, sa)]
    /\ pc' = "groups"
    /\ UNCHANGED <<build, query>>

\* Mutant: the view of the document bounds is not set again.
Mut_Views(o) == [o EXCEPT !.sv_ = o.sample_vals_owned_]

\* The access views are pointed at the owned storage.
Views(o) == [o EXCEPT !.sv_ = o.sample_vals_owned_, !.doc_start_ = o.doc_bounds_owned_]

BuildGroups ==
    /\ pc = "groups"
    /\ fm' = Views([fm EXCEPT !.first_ = Starts(fm.wm_, fm.sigma_, fm.qlevels_)])
    /\ pc' = "derived"
    /\ UNCHANGED <<build, query>>

\* buildDerived completes the object.
BuildDerived ==
    /\ pc = "derived"
    /\ fm' = [fm EXCEPT !.id_to_byte_ = IdToByte(fm.byte_to_id_, fm.sigma_)]
    /\ corpus' = <<[docs |-> arg[1].docs, cf |-> arg[1].cf]>>
    /\ arg' = <<>>
    /\ pc' = "idle"
    /\ UNCHANGED <<t, sa, query>>

\* An allocation, or libsais, fails and the exception leaves Build.
BuildThrow ==
    /\ pc \in IF corpus = <<>> THEN MayThrow ELSE MayThrowAgain
    /\ [docs |-> arg[1].docs, cf |-> arg[1].cf] \in ThrowsOn
    /\ arg' = <<>>
    /\ pc' = "idle"
    /\ UNCHANGED <<fm, t, sa, corpus, query>>

-----------------------------------------------------------------------------
(***************************************************************************)
(* Backward search.                                                        *)
(***************************************************************************)
SuffixOps == {"CountSuffixDocs", "LocateSuffixDocs"}
CountOps == {"Count", "CountPrefixDocs", "CountSuffixDocs"}

\* The entry of a pattern query.  Without an index, or with an empty pattern,
\* there is nothing to search: only Count reports all the positions.
\* suffixDocInterval starts from the rows of the separator.
CallSearch(q) ==
    /\ pc = "idle" /\ req = <<>>
    /\ q.op # "Extract"
    /\ req' = <<q>>
    /\ k' = Len(q.p)
    /\ IF ~Valid(fm) \/ q.p = <<>>
         THEN /\ lo' = 0
              /\ hi' = IF Valid(fm) /\ q.op = "Count" THEN M(fm) ELSE 0
              /\ pc' = "interval"
         ELSE /\ lo' = IF q.op \in SuffixOps THEN fm.c_[1] ELSE 0
              /\ hi' = IF q.op \in SuffixOps /\ 2 \in DOMAIN fm.c_ THEN fm.c_[2] ELSE M(fm)
              /\ pc' = "search"
    /\ UNCHANGED <<fm, build, res, i, row, steps, out>>

\* Mutant: the pattern is read from its first byte to its last.
Mut_NextByte(p) == p[(Len(p) - k) + 1]
NextByte(p) == p[k]

\* One turn of the search loop, from the last pattern byte to the first.
SearchStep ==
    LET id == fm.byte_to_id_[NextByte(req[1].p)]
        nlo == Extend(fm, id, lo)
        nhi == Extend(fm, id, hi) IN
    /\ pc = "search"
    /\ IF id < 0 \/ nlo >= nhi
         THEN /\ lo' = 0 /\ hi' = 0 /\ k' = k
              /\ pc' = "interval"
         ELSE /\ lo' = nlo /\ hi' = nhi /\ k' = k - 1
              /\ pc' = IF k = 1 THEN "interval" ELSE "search"
    /\ UNCHANGED <<fm, build, req, res, i, row, steps, out>>

Respond(x) ==
    /\ res' = <<x>>
    /\ pc' = "done"

\* The counting queries need no row to be located.
CountInterval ==
    /\ pc = "interval" /\ req[1].op \in CountOps
    /\ Respond(IF req[1].op = "CountPrefixDocs" /\ lo < hi
                 THEN (RankIn(fm.wm_, 0, hi) + RankIn(fm.wm_, 1, hi))
                      - (RankIn(fm.wm_, 0, lo) + RankIn(fm.wm_, 1, lo))
                 ELSE hi - lo)
    /\ UNCHANGED <<fm, build, req, lo, hi, k, i, row, steps, out>>

\* Mutant: the document at the start of the text is not looked for.
Mut_FirstDoc == Nothing

\* Document 0 starts with the pattern if the sentinel precedes one of its rows.
FirstDoc == IF RankIn(fm.wm_, 0, lo) < RankIn(fm.wm_, 0, hi) THEN Push(Nothing, 0) ELSE Nothing

\* The locating queries go through the rows of the interval; the prefix query
\* through the rows of its extension by the separator, which hold the answer
\* except for document 0.
LocateInterval ==
    LET prefix == req[1].op = "LocatePrefixDocs" /\ lo < hi IN
    /\ pc = "interval" /\ req[1].op \notin CountOps
    /\ lo' = IF prefix THEN Extend(fm, 1, lo) ELSE lo
    /\ hi' = IF prefix THEN Extend(fm, 1, hi) ELSE hi
    /\ out' = IF prefix THEN FirstDoc ELSE Nothing
    /\ i' = lo'
    /\ pc' = "rows"
    /\ UNCHANGED <<fm, build, req, res, k, row, steps>>

StartRow ==
    /\ pc = "rows" /\ i < hi
    /\ row' = i /\ steps' = 0
    /\ pc' = "walk"
    /\ UNCHANGED <<fm, build, req, res, lo, hi, k, i, out>>

WalkStep ==
    /\ pc = "walk" /\ row \notin fm.sampled_bv_
    /\ row' = LF(fm, row) /\ steps' = steps + 1
    /\ UNCHANGED <<fm, build, pc, req, res, lo, hi, k, i, out>>

\* A sampled row ends the walk: what is pushed depends on the query.
WalkEnd ==
    LET pos == SampleVal(fm, row) + steps
        op == req[1].op
        doc == DocOf(fm.doc_start_, pos)
        Inside(x) == IF pos >= fm.text_len_ THEN out ELSE Push(out, x) IN
    /\ pc = "walk" /\ row \in fm.sampled_bv_
    /\ out' = CASE op = "LocatePrefixDocs" -> Push(out, DocOf(fm.doc_start_, pos + 1))
                [] op = "LocateSuffixDocs" -> Push(out, doc)
                [] op = "LocateDocs"       -> Inside(Hit(fm, pos))
                [] OTHER                   -> Inside(doc)
    /\ i' = i + 1
    /\ pc' = "rows"
    /\ UNCHANGED <<fm, build, req, res, lo, hi, k, row, steps>>

\* Sorting makes the vector a bag; unique makes it a set.
LocateEnd ==
    /\ pc = "rows" /\ i >= hi
    /\ Respond(IF req[1].op \in {"LocateDocs", "VisitMatchingDocs"} THEN out ELSE DOMAIN out)
    /\ UNCHANGED <<fm, build, req, lo, hi, k, i, row, steps, out>>

-----------------------------------------------------------------------------
(***************************************************************************)
(* Extract: lo and hi are the text range, steps the text position p.       *)
(***************************************************************************)
CallExtract(q) ==
    /\ pc = "idle" /\ req = <<>>
    /\ q.op = "Extract"
    /\ req' = <<q>>
    /\ pc' = "entry"
    /\ UNCHANGED <<fm, build, res, lo, hi, k, i, row, steps, out>>

\* The check of the document id is made in the width of a document id.
InDocs(d) == (d + 1) % DocIdMod < NDocBounds(fm)

ExtractNothing ==
    /\ pc = "entry" /\ (~Valid(fm) \/ ~InDocs(req[1].doc))
    /\ Respond(<<>>)
    /\ UNCHANGED <<fm, build, req, lo, hi, k, i, row, steps, out>>

\* The first sampled position at or after the end of the range, as a slot of
\* isa_sample_.
\* Mutant: the last one before it.
Mut_AnchorSlot(end, rate) == end \div rate
AnchorSlot(end, rate) == (end + (rate - 1)) \div rate

\* ensureIsaSample, the range clamped to the document, and the anchor: the
\* nearest sampled position at or after the end, or the sentinel's row.  An id
\* without bounds that passed the check makes doc_start_ be read outside.
ExtractAnchor ==
    LET q == req[1]
        isa == EnsureIsaSample
        rate == fm.sa_sample_rate_
        dlen == (fm.doc_start_[q.doc + 1] - 1) - fm.doc_start_[q.doc]
        avail == dlen - q.off
        pos == fm.doc_start_[q.doc] + q.off
        end == pos + (IF q.len < avail THEN q.len ELSE avail)
        s == AnchorSlot(end, rate) IN
    /\ pc = "entry" /\ Valid(fm) /\ InDocs(q.doc)
    /\ fm' = [fm EXCEPT !.isa_sample_ = isa]
    /\ IF ~({q.doc, q.doc + 1} \subseteq DOMAIN fm.doc_start_)
         THEN /\ pc' = "stray"
              /\ UNCHANGED <<lo, hi, row, steps, out, res>>
       ELSE IF q.off >= dlen
         THEN /\ Respond(<<>>)
              /\ UNCHANGED <<lo, hi, row, steps, out>>
         ELSE /\ lo' = pos /\ hi' = end
              /\ row' = IF s \in DOMAIN isa THEN isa[s] ELSE 0
              /\ steps' = IF s \in DOMAIN isa THEN s * rate ELSE fm.text_len_
              /\ out' = [j \in 1..(end - pos) |-> 0]
              /\ pc' = "extract"
              /\ UNCHANGED res
    /\ UNCHANGED <<build, req, k, i>>

ExtractStep ==
    /\ pc = "extract" /\ steps > lo
    /\ out' = IF steps - 1 < hi
                THEN [out EXCEPT ![steps - lo] = fm.id_to_byte_[fm.wm_[row]]] ELSE out
    /\ row' = LF(fm, row) /\ steps' = steps - 1
    /\ UNCHANGED <<fm, build, pc, req, res, lo, hi, k, i>>

ExtractEnd ==
    /\ pc = "extract" /\ steps <= lo
    /\ Respond(out)
    /\ UNCHANGED <<fm, build, req, lo, hi, k, i, row, steps, out>>

\* The caller takes the answer; the locals of the query go out of scope.
Return ==
    /\ pc = "done"
    /\ req' = <<>> /\ res' = <<>>
    /\ lo' = 0 /\ hi' = 0 /\ k' = 0 /\ i' = 0 /\ row' = 0 /\ steps' = 0 /\ out' = <<>>
    /\ pc' = "idle"
    /\ UNCHANGED <<fm, build>>

BuildStep == \/ BuildLayout \/ BuildAlphabet \/ BuildSort
             \/ BuildClearSamples \/ BuildSamples \/ BuildBitmap
             \/ BuildCTable \/ BuildWavelet \/ BuildGroups \/ BuildDerived \/ BuildThrow
QueryStep == \/ SearchStep \/ CountInterval \/ LocateInterval \/ StartRow \/ WalkStep
             \/ WalkEnd \/ LocateEnd
             \/ ExtractNothing \/ ExtractAnchor \/ ExtractStep \/ ExtractEnd

Next == \/ BuildCall \/ BuildStep
        \/ \E q \in Requests : CallSearch(q) \/ CallExtract(q)
        \/ QueryStep \/ Return

\* A call that was made runs to its end: nothing in a query or in Build waits.
Spec == Init /\ [][Next]_vars /\ WF_vars(BuildStep) /\ WF_vars(QueryStep)

-----------------------------------------------------------------------------
(***************************************************************************)
(* Properties.                                                             *)
(***************************************************************************)

\* Types of the locals of the queries.
TypeOK ==
    /\ pc \in {"idle", "layout", "alphabet", "sort", "sample", "values", "bitmap", "ctable",
               "wavelet", "groups", "derived", "search", "interval", "rows", "walk", "entry",
               "extract", "done", "stray"}
    /\ lo \in 0..M(fm) /\ hi \in 0..M(fm) /\ k \in Nat
    /\ i \in 0..M(fm) /\ row \in 0..M(fm) /\ steps \in 0..M(fm)
    /\ req # <<>> => req[1] \in Requests

\* The symbols that the matched part of the pattern stands for.
Matched ==
    LET p == req[1].p
        ids == [j \in 1..(Len(p) - k) |-> fm.byte_to_id_[p[k + j]]]
    IN IF req[1].op \in SuffixOps THEN Append(ids, 1) ELSE ids

SuffixStartsWith(pos, w) ==
    \A j \in 1..Len(w) : pos + j - 1 \in DOMAIN t /\ t[pos + j - 1] = w[j]

\* BackwardSearch and suffixDocInterval: at every turn the interval holds
\* exactly the rows whose suffix starts with what was matched so far.
IntervalExact ==
    (pc = "search" \/ (pc = "interval" /\ lo < hi)) =>
        {r \in DOMAIN sa : SuffixStartsWith(sa[r], Matched)} = lo..(hi - 1)

\* locateRow: the walk never loses the row it is to locate, and meets a
\* sampled row within sa_sample_rate_ - 1 steps.
WalkExact ==
    pc = "walk" => /\ sa[row] + steps = sa[i]
                   /\ steps < fm.sa_sample_rate_

\* Extract: the walk stands on the row of text position p, at most one
\* sampling interval past the range or in it, and the bytes from p on are
\* already written.
ExtractExact ==
    pc = "extract" =>
        /\ sa[row] = steps
        /\ steps < hi + fm.sa_sample_rate_
        /\ \A pos \in lo..(hi - 1) : pos >= steps =>
             out[pos - lo + 1] = fm.id_to_byte_[t[pos]]

\* LF is a permutation of the rows that moves one text position back.
LFExact ==
    (Valid(fm) /\ arg = <<>> /\ pc = "idle") =>
        \A r \in DOMAIN sa :
            /\ LF(fm, r) \in DOMAIN sa
            /\ sa[LF(fm, r)] = IF sa[r] = 0 THEN fm.text_len_ ELSE sa[r] - 1

\* isa_sample_[s] is the row whose SA value is s * rate, as long as it is kept.
IsaFresh ==
    (arg = <<>> /\ Valid(fm) /\ fm.isa_sample_ # NoIsa) =>
        /\ DOMAIN fm.isa_sample_ = 0..(fm.text_len_ \div fm.sa_sample_rate_)
        /\ \A s \in DOMAIN fm.isa_sample_ :
             /\ fm.isa_sample_[s] \in DOMAIN sa
             /\ sa[fm.isa_sample_[s]] = s * fm.sa_sample_rate_

\* A Build that completes leaves an object that depends on its arguments only:
\* no member of an earlier corpus, and no view of storage that was replaced,
\* survives.  (The anchor table is IsaFresh's.)
BuiltExact ==
    (pc = "idle" /\ corpus # <<>>) =>
        [fm EXCEPT !.isa_sample_ = NoIsa]
          = Built(corpus[1].docs, corpus[1].cf, fm.sa_sample_rate_)

\* An index that says it is valid has its sample values, and document bounds
\* that end at text_len_.
ValidIsComplete ==
    (pc = "idle" /\ Valid(fm)) => /\ DOMAIN fm.sv_ # {}
                                 /\ DOMAIN fm.doc_start_ # {}
                                 /\ fm.doc_start_[NDocBounds(fm) - 1] = fm.text_len_

\* Extract of a document that does not exist is empty.
OutOfRangeIsEmpty ==
    (req # <<>> /\ req[1].op = "Extract" /\ req[1].doc + 1 >= NDocBounds(fm)) =>
        /\ pc # "stray"
        /\ pc = "done" => res = <<<<>>>>

\* The answers are those of the documents themselves, and every query that is
\* asked is answered.
Abstract == INSTANCE DocIndex WITH corpus <- corpus, req <- req, res <- res
ImplementsDocIndex == Abstract!Spec
=============================================================================
