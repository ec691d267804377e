--------------------------- MODULE FMIndexProofs ----------------------------
(***************************************************************************)
(* FMIndex: what Build leaves, and that the search, the walk and Extract   *)
(* keep their place in the text, for every corpus, pattern and sampling    *)
(* rate.                                                                   *)
(***************************************************************************)
EXTENDS FMIndex, FMTextProofs

-----------------------------------------------------------------------------
(***************************************************************************)
(* The invariant.                                                          *)
(***************************************************************************)

\* Memory runs out, if it does, before Build has made the C table, and only in
\* a Build of an object that has no index yet, whether it is the first one or
\* follows others that threw: the other cases leave an object that claims to be
\* valid (ValidIsComplete and the run that violates it).
ThrowsEarly == /\ MayThrow \subseteq {"layout", "alphabet", "sort", "sample", "values", "bitmap",
                                    "ctable"}
               /\ MayThrowAgain = {}

\* The object has its members and no others.
Shaped(o) ==
    o = [doc_bounds_owned_ |-> o.doc_bounds_owned_, doc_start_ |-> o.doc_start_,
         sa_sample_rate_ |-> o.sa_sample_rate_, case_fold_ |-> o.case_fold_,
         text_len_ |-> o.text_len_, sigma_ |-> o.sigma_, byte_to_id_ |-> o.byte_to_id_,
         wm_ |-> o.wm_, qlevels_ |-> o.qlevels_, c_ |-> o.c_, first_ |-> o.first_,
         sampled_bv_ |-> o.sampled_bv_, sample_vals_owned_ |-> o.sample_vals_owned_,
         sv_ |-> o.sv_, id_to_byte_ |-> o.id_to_byte_, isa_sample_ |-> o.isa_sample_]

\* The places in Build, and those behind the C table.
LatePcs == {"wavelet", "groups", "derived"}
BuildPcs == {"layout", "alphabet", "sort", "sample", "values", "bitmap", "ctable"} \cup LatePcs
QueryPcs == {"search", "interval", "rows", "walk", "entry", "extract", "done", "stray"}

\* No query is in progress.
AtRest == /\ req = <<>> /\ res = <<>> /\ out = <<>>
          /\ lo = 0 /\ hi = 0 /\ k = 0 /\ i = 0 /\ row = 0 /\ steps = 0

Arguments(a) == a.docs \in Seq(Seq(Bytes)) /\ a.cf \in BOOLEAN
RateOf(a) == IF a.rate = 0 THEN 1 ELSE a.rate

\* What each step of Build has assigned.
Laid(a) == fm.doc_bounds_owned_ = DocBounds(a.docs)
Lettered(a) ==
    /\ fm.sa_sample_rate_ = RateOf(a)
    /\ fm.case_fold_ = a.cf
    /\ fm.text_len_ = DocBounds(a.docs)[Len(a.docs)]
    /\ fm.byte_to_id_ = ByteToId(a.docs, a.cf)
    /\ fm.sigma_ = Sigma(a.docs, a.cf)
    /\ fm.qlevels_ = QLevels(fm.sigma_)
Ranked(a) == t = TextOf(a.docs, a.cf) /\ sa = ArrayOf(a.docs, a.cf)
Valued == fm.sample_vals_owned_ = SampleVals(sa, SampledRows(sa, fm.sa_sample_rate_))
Marked == fm.sampled_bv_ = SampledRows(sa, fm.sa_sample_rate_)
Tabled == fm.c_ = CTable(Bwt(t, sa), fm.sigma_)
Leveled == fm.wm_ = Bwt(t, sa)
Grouped == /\ fm.first_ = Starts(fm.wm_, fm.sigma_, fm.qlevels_)
           /\ fm.doc_start_ = fm.doc_bounds_owned_ /\ fm.sv_ = fm.sample_vals_owned_

BuildHolds ==
    pc \in BuildPcs =>
        /\ arg # <<>> /\ Arguments(arg[1]) /\ arg[1].rate \in Nat
        /\ AtRest
        /\ pc # "layout" => Laid(arg[1])
        /\ pc \notin {"layout", "alphabet"} => Lettered(arg[1])
        /\ pc \notin {"layout", "alphabet", "sort"} => Ranked(arg[1])
        /\ pc \in {"bitmap", "ctable"} \cup LatePcs => Valued
        /\ pc \in {"ctable"} \cup LatePcs => Marked
        /\ pc \in LatePcs => Tabled
        /\ pc \in {"groups", "derived"} => Leveled
        /\ pc = "derived" => Grouped

\* The object that a completed Build left.
Complete(c) ==
    /\ Arguments(c)
    /\ fm.sa_sample_rate_ \in Nat \ {0}
    /\ [fm EXCEPT !.isa_sample_ = NoIsa] = Built(c.docs, c.cf, fm.sa_sample_rate_)
    /\ Ranked(c)

ObjectHolds ==
    /\ Shaped(fm)
    /\ fm.text_len_ \in Nat
    /\ pc \notin BuildPcs => arg = <<>>
    /\ corpus = <<>> /\ pc \notin LatePcs => ~ Valid(fm)
    /\ corpus # <<>> /\ pc \notin BuildPcs => Complete(corpus[1])

\* The rows of the words matched so far.
Matching == RowsOf(t, sa, Matched) = lo..(hi - 1)

SearchHolds ==
    /\ pc = "idle" => AtRest
    /\ pc \in QueryPcs => req # <<>> /\ req[1] \in Requests
    /\ pc \in {"search", "interval", "rows", "walk"} =>
         /\ req[1].op # "Extract"
         /\ lo \in 0..M(fm) /\ hi \in 0..M(fm)
    /\ pc = "search" => Valid(fm) /\ k \in 1..Len(req[1].p) /\ Matching
    /\ pc = "interval" /\ lo < hi => Valid(fm) /\ Matching
    /\ pc = "interval" => k \in 0..Len(req[1].p)
    /\ pc \in {"rows", "walk"} => i \in 0..M(fm)
    /\ pc = "rows" /\ i < hi => Valid(fm)
    /\ pc = "walk" =>
         /\ Valid(fm)
         /\ i < hi
         /\ row \in 0..fm.text_len_ /\ steps \in Nat
         /\ sa[row] + steps = sa[i]
         /\ steps <= sa[i] % fm.sa_sample_rate_

IInv ==
    /\ pc \in {"idle"} \cup BuildPcs \cup QueryPcs
    /\ ObjectHolds
    /\ BuildHolds
    /\ SearchHolds

-----------------------------------------------------------------------------
(***************************************************************************)
(* Build.                                                                  *)
(***************************************************************************)

\* The invariant holds of a fresh object.
LEMMA InitInv == Init => IInv
<1> SUFFICES ASSUME Init PROVE IInv
  OBVIOUS
<1>1. pc = "idle" /\ "idle" \notin BuildPcs /\ "idle" \notin QueryPcs
  BY DEF Init, BuildPcs, LatePcs, QueryPcs
<1>2. Shaped(fm) /\ fm.text_len_ \in Nat /\ ~ Valid(fm)
  BY DEF Init, Fresh, Shaped, Valid
<1>3. ObjectHolds
  BY <1>1, <1>2 DEF Init, ObjectHolds
<1>4. SearchHolds
  BY <1>1 DEF Init, SearchHolds, AtRest
<1> QED BY <1>1, <1>3, <1>4 DEF IInv, BuildHolds

\* The caller passes documents and a rate.
LEMMA BuildCallStep == ASSUME IInv, BuildCall PROVE IInv'
<1>1. /\ pc = "idle" /\ pc' = "layout" /\ pc \notin LatePcs /\ pc' \in BuildPcs
      /\ corpus' = corpus /\ UNCHANGED query
  BY DEF BuildCall, BuildPcs, LatePcs
<1>2. PICK c \in Corpora, rate \in Rates :
        arg' = <<[docs |-> c.docs, cf |-> c.cf, rate |-> rate]>>
  BY DEF BuildCall
<1>3. arg' # <<>> /\ Arguments(arg'[1]) /\ arg'[1].rate \in Nat
  BY <1>2, CallAssumption DEF Arguments
<1>4. AtRest'
  BY <1>1 DEF IInv, SearchHolds, AtRest, query
<1>5. BuildHolds'
  BY <1>1, <1>3, <1>4 DEF BuildHolds, LatePcs
<1>6. Shaped(fm') /\ fm'.c_ = fm.c_ /\ fm'.text_len_ = fm.text_len_
  BY DEF BuildCall, IInv, ObjectHolds, Shaped
<1>7. ObjectHolds'
  BY <1>1, <1>6 DEF IInv, ObjectHolds, Valid
<1>8. SearchHolds'
  BY <1>1 DEF SearchHolds, QueryPcs
<1> QED BY <1>1, <1>5, <1>7, <1>8 DEF IInv

\* The document bounds are stored.
LEMMA BuildLayoutStep == ASSUME IInv, BuildLayout PROVE IInv'
<1>1. /\ pc = "layout" /\ pc' = "alphabet" /\ pc \in BuildPcs /\ pc' \in BuildPcs
      /\ UNCHANGED <<build, query>>
  BY DEF BuildLayout, BuildPcs, LatePcs
<1>2. /\ Shaped(fm') /\ fm'.doc_bounds_owned_ = DocBounds(arg[1].docs)
      /\ fm'.c_ = fm.c_ /\ fm'.text_len_ = fm.text_len_
  BY DEF BuildLayout, IInv, ObjectHolds, Shaped
<1>3. ObjectHolds'
  BY <1>1, <1>2 DEF IInv, ObjectHolds, Valid, LatePcs, build
<1>4. BuildHolds'
  BY <1>1, <1>2 DEF IInv, BuildHolds, LatePcs, Laid, AtRest, build, query
<1>5. SearchHolds'
  BY <1>1 DEF SearchHolds, QueryPcs
<1> QED BY <1>1, <1>3, <1>4, <1>5 DEF IInv

\* The alphabet is stored.
LEMMA BuildAlphabetStep == ASSUME IInv, BuildAlphabet PROVE IInv'
<1>1. /\ pc = "alphabet" /\ pc' = "sort" /\ pc \in BuildPcs /\ pc' \in BuildPcs
      /\ UNCHANGED <<build, query>>
  BY DEF BuildAlphabet, BuildPcs
<1>2. /\ Shaped(fm') /\ fm'.doc_bounds_owned_ = fm.doc_bounds_owned_
      /\ fm'.c_ = fm.c_ /\ fm'.text_len_ = fm.doc_bounds_owned_[Len(arg[1].docs)]
      /\ fm'.sa_sample_rate_ = RateOf(arg[1])
      /\ fm'.case_fold_ = arg[1].cf
      /\ fm'.byte_to_id_ = ByteToId(arg[1].docs, arg[1].cf)
      /\ fm'.sigma_ = Sigma(arg[1].docs, arg[1].cf)
      /\ fm'.qlevels_ = QLevels(Sigma(arg[1].docs, arg[1].cf))
  BY DEF BuildAlphabet, IInv, ObjectHolds, Shaped, RateOf
<1>3. Laid(arg[1]) /\ Arguments(arg[1])
  BY <1>1 DEF IInv, BuildHolds, LatePcs
<1>4. DocBounds(arg[1].docs)[Len(arg[1].docs)] \in Nat
  <2>1. PICK docs \in Seq(Seq(Bytes)) : docs = arg[1].docs
    BY <1>3 DEF Arguments
  <2>2. DocBounds(docs) \in [0..Len(docs) -> Nat] /\ Len(docs) \in 0..Len(docs)
    BY BoundsFacts
  <2> QED BY <2>1, <2>2
<1>5. fm'.text_len_ = DocBounds(arg[1].docs)[Len(arg[1].docs)]
  BY <1>2, <1>3 DEF Laid
<1>6. ObjectHolds'
  BY <1>1, <1>2, <1>4, <1>5 DEF IInv, ObjectHolds, Valid, LatePcs, build
<1>7. Laid(arg[1])' /\ Lettered(arg[1])'
  BY <1>1, <1>2, <1>3, <1>5 DEF Laid, Lettered, RateOf, build
<1>8. BuildHolds'
  BY <1>1, <1>7 DEF IInv, BuildHolds, LatePcs, AtRest, build, query
<1>9. SearchHolds'
  BY <1>1 DEF SearchHolds, QueryPcs
<1> QED BY <1>1, <1>6, <1>8, <1>9 DEF IInv

\* The suffixes of the text are sorted.
LEMMA BuildSortStep == ASSUME IInv, BuildSort PROVE IInv'
<1>1. /\ pc = "sort" /\ pc' = "sample" /\ pc \in BuildPcs /\ pc' \in BuildPcs
      /\ UNCHANGED <<fm, arg, corpus, query>>
  BY DEF BuildSort, BuildPcs
<1>2. Laid(arg[1]) /\ Lettered(arg[1]) /\ Arguments(arg[1])
  BY <1>1 DEF IInv, BuildHolds, LatePcs
<1>3. Ranked(arg[1])'
  BY <1>1, <1>2 DEF BuildSort, Lettered, Ranked, TextOf, ArrayOf
<1>4. ObjectHolds'
  BY <1>1 DEF IInv, ObjectHolds, Valid, LatePcs
<1>5. Laid(arg[1])' /\ Lettered(arg[1])'
  BY <1>1, <1>2 DEF Laid, Lettered, RateOf
<1>6. BuildHolds'
  BY <1>1, <1>3, <1>5 DEF IInv, BuildHolds, LatePcs, AtRest, query
<1>7. SearchHolds'
  BY <1>1 DEF SearchHolds, QueryPcs
<1> QED BY <1>1, <1>4, <1>6, <1>7 DEF IInv

\* The sample values are cleared.
LEMMA BuildClearSamplesStep == ASSUME IInv, BuildClearSamples PROVE IInv'
<1>1. /\ pc = "sample" /\ pc' = "values" /\ pc \in BuildPcs /\ pc' \in BuildPcs
      /\ UNCHANGED <<build, query>>
  BY DEF BuildClearSamples, BuildPcs, LatePcs
<1>2. /\ Shaped(fm')
      /\ fm'.doc_bounds_owned_ = fm.doc_bounds_owned_
      /\ fm'.sa_sample_rate_ = fm.sa_sample_rate_
      /\ fm'.case_fold_ = fm.case_fold_
      /\ fm'.text_len_ = fm.text_len_
      /\ fm'.sigma_ = fm.sigma_
      /\ fm'.byte_to_id_ = fm.byte_to_id_
      /\ fm'.qlevels_ = fm.qlevels_
      /\ fm'.c_ = fm.c_
      /\ fm'.sampled_bv_ = fm.sampled_bv_
  BY DEF BuildClearSamples, IInv, ObjectHolds, Shaped
<1>4. Laid(arg[1]) /\ Lettered(arg[1]) /\ Ranked(arg[1])
  BY <1>1 DEF IInv, BuildHolds, LatePcs
<1>5. ObjectHolds'
  BY <1>1, <1>2 DEF IInv, ObjectHolds, Valid, LatePcs, build
<1>6. Laid(arg[1])' /\ Lettered(arg[1])' /\ Ranked(arg[1])'
  BY <1>1, <1>2, <1>4
     DEF Laid, Lettered, RateOf, Ranked, Valued, Marked, Tabled, Leveled, Grouped, build
<1>7. BuildHolds'
  BY <1>1, <1>6 DEF IInv, BuildHolds, LatePcs, AtRest, build, query
<1>8. SearchHolds'
  BY <1>1 DEF SearchHolds, QueryPcs
<1> QED BY <1>1, <1>5, <1>7, <1>8 DEF IInv

\* The sample values are stored.
LEMMA BuildSamplesStep == ASSUME IInv, BuildSamples PROVE IInv'
<1>1. /\ pc = "values" /\ pc' = "bitmap" /\ pc \in BuildPcs /\ pc' \in BuildPcs
      /\ UNCHANGED <<build, query>>
  BY DEF BuildSamples, BuildPcs, LatePcs
<1>2. /\ Shaped(fm')
      /\ fm'.doc_bounds_owned_ = fm.doc_bounds_owned_
      /\ fm'.sa_sample_rate_ = fm.sa_sample_rate_
      /\ fm'.case_fold_ = fm.case_fold_
      /\ fm'.text_len_ = fm.text_len_
      /\ fm'.sigma_ = fm.sigma_
      /\ fm'.byte_to_id_ = fm.byte_to_id_
      /\ fm'.qlevels_ = fm.qlevels_
      /\ fm'.c_ = fm.c_
      /\ fm'.sampled_bv_ = fm.sampled_bv_
  BY DEF BuildSamples, IInv, ObjectHolds, Shaped
<1>3. fm'.sample_vals_owned_ = SampleVals(sa, SampledRows(sa, fm.sa_sample_rate_))
  BY DEF BuildSamples, IInv, ObjectHolds, Shaped
<1>4. Laid(arg[1]) /\ Lettered(arg[1]) /\ Ranked(arg[1])
  BY <1>1 DEF IInv, BuildHolds, LatePcs
<1>5. ObjectHolds'
  BY <1>1, <1>2 DEF IInv, ObjectHolds, Valid, LatePcs, build
<1>6. Laid(arg[1])' /\ Lettered(arg[1])' /\ Ranked(arg[1])' /\ Valued'
  BY <1>1, <1>2, <1>3, <1>4
     DEF Laid, Lettered, RateOf, Ranked, Valued, Marked, Tabled, Leveled, Grouped, build
<1>7. BuildHolds'
  BY <1>1, <1>6 DEF IInv, BuildHolds, LatePcs, AtRest, build, query
<1>8. SearchHolds'
  BY <1>1 DEF SearchHolds, QueryPcs
<1> QED BY <1>1, <1>5, <1>7, <1>8 DEF IInv

\* The rows of the samples are marked.
LEMMA BuildBitmapStep == ASSUME IInv, BuildBitmap PROVE IInv'
<1>1. /\ pc = "bitmap" /\ pc' = "ctable" /\ pc \in BuildPcs /\ pc' \in BuildPcs
      /\ UNCHANGED <<build, query>>
  BY DEF BuildBitmap, BuildPcs, LatePcs
<1>2. /\ Shaped(fm')
      /\ fm'.doc_bounds_owned_ = fm.doc_bounds_owned_
      /\ fm'.sa_sample_rate_ = fm.sa_sample_rate_
      /\ fm'.case_fold_ = fm.case_fold_
      /\ fm'.text_len_ = fm.text_len_
      /\ fm'.sigma_ = fm.sigma_
      /\ fm'.byte_to_id_ = fm.byte_to_id_
      /\ fm'.qlevels_ = fm.qlevels_
      /\ fm'.c_ = fm.c_
      /\ fm'.sample_vals_owned_ = fm.sample_vals_owned_
  BY DEF BuildBitmap, IInv, ObjectHolds, Shaped
<1>3. fm'.sampled_bv_ = SampledRows(sa, fm.sa_sample_rate_)
  BY DEF BuildBitmap, IInv, ObjectHolds, Shaped
<1>4. Laid(arg[1]) /\ Lettered(arg[1]) /\ Ranked(arg[1]) /\ Valued
  BY <1>1 DEF IInv, BuildHolds, LatePcs
<1>5. ObjectHolds'
  BY <1>1, <1>2 DEF IInv, ObjectHolds, Valid, LatePcs, build
<1>6. Laid(arg[1])' /\ Lettered(arg[1])' /\ Ranked(arg[1])' /\ Valued' /\ Marked'
  BY <1>1, <1>2, <1>3, <1>4
     DEF Laid, Lettered, RateOf, Ranked, Valued, Marked, Tabled, Leveled, Grouped, build
<1>7. BuildHolds'
  BY <1>1, <1>6 DEF IInv, BuildHolds, LatePcs, AtRest, build, query
<1>8. SearchHolds'
  BY <1>1 DEF SearchHolds, QueryPcs
<1> QED BY <1>1, <1>5, <1>7, <1>8 DEF IInv

\* The C table is stored.
LEMMA BuildCTableStep == ASSUME IInv, BuildCTable PROVE IInv'
<1>1. /\ pc = "ctable" /\ pc' = "wavelet" /\ pc \in BuildPcs /\ pc' \in BuildPcs
      /\ UNCHANGED <<build, query>>
  BY DEF BuildCTable, BuildPcs, LatePcs
<1>2. /\ Shaped(fm')
      /\ fm'.doc_bounds_owned_ = fm.doc_bounds_owned_
      /\ fm'.sa_sample_rate_ = fm.sa_sample_rate_
      /\ fm'.case_fold_ = fm.case_fold_
      /\ fm'.text_len_ = fm.text_len_
      /\ fm'.sigma_ = fm.sigma_
      /\ fm'.byte_to_id_ = fm.byte_to_id_
      /\ fm'.qlevels_ = fm.qlevels_
      /\ fm'.sampled_bv_ = fm.sampled_bv_
      /\ fm'.sample_vals_owned_ = fm.sample_vals_owned_
  BY DEF BuildCTable, IInv, ObjectHolds, Shaped
<1>3. fm'.c_ = CTable(Bwt(t, sa), fm.sigma_)
  BY DEF BuildCTable, IInv, ObjectHolds, Shaped
<1>4. Laid(arg[1]) /\ Lettered(arg[1]) /\ Ranked(arg[1]) /\ Valued /\ Marked
  BY <1>1 DEF IInv, BuildHolds, LatePcs
<1>5. ObjectHolds'
  BY <1>1, <1>2 DEF IInv, ObjectHolds, Valid, LatePcs, build
<1>6. Laid(arg[1])' /\ Lettered(arg[1])' /\ Ranked(arg[1])' /\ Valued' /\ Marked' /\ Tabled'
  BY <1>1, <1>2, <1>3, <1>4
     DEF Laid, Lettered, RateOf, Ranked, Valued, Marked, Tabled, Leveled, Grouped, build
<1>7. BuildHolds'
  BY <1>1, <1>6 DEF IInv, BuildHolds, LatePcs, AtRest, build, query
<1>8. SearchHolds'
  BY <1>1 DEF SearchHolds, QueryPcs
<1> QED BY <1>1, <1>5, <1>7, <1>8 DEF IInv

\* The wavelet matrix is stored.
LEMMA BuildWaveletStep == ASSUME IInv, BuildWavelet PROVE IInv'
<1>1. /\ pc = "wavelet" /\ pc' = "groups" /\ pc \in BuildPcs /\ pc' \in BuildPcs
      /\ UNCHANGED <<build, query>>
  BY DEF BuildWavelet, BuildPcs, LatePcs
<1>2. /\ Shaped(fm')
      /\ fm'.doc_bounds_owned_ = fm.doc_bounds_owned_
      /\ fm'.sa_sample_rate_ = fm.sa_sample_rate_
      /\ fm'.case_fold_ = fm.case_fold_
      /\ fm'.text_len_ = fm.text_len_
      /\ fm'.sigma_ = fm.sigma_
      /\ fm'.byte_to_id_ = fm.byte_to_id_
      /\ fm'.qlevels_ = fm.qlevels_
      /\ fm'.c_ = fm.c_
      /\ fm'.sampled_bv_ = fm.sampled_bv_
      /\ fm'.sample_vals_owned_ = fm.sample_vals_owned_
  BY DEF BuildWavelet, IInv, ObjectHolds, Shaped
<1>3. fm'.wm_ = Bwt(t, sa)
  BY DEF BuildWavelet, IInv, ObjectHolds, Shaped
<1>4. Laid(arg[1]) /\ Lettered(arg[1]) /\ Ranked(arg[1]) /\ Valued /\ Marked /\ Tabled
  BY <1>1 DEF IInv, BuildHolds, LatePcs
<1>5. ObjectHolds'
  BY <1>1, <1>2 DEF IInv, ObjectHolds, Valid, LatePcs, build
<1>6. Laid(arg[1])' /\ Lettered(arg[1])' /\ Ranked(arg[1])' /\ Valued' /\ Marked' /\ Tabled' /\ Leveled'
  BY <1>1, <1>2, <1>3, <1>4
     DEF Laid, Lettered, RateOf, Ranked, Valued, Marked, Tabled, Leveled, Grouped, build
<1>7. BuildHolds'
  BY <1>1, <1>6 DEF IInv, BuildHolds, LatePcs, AtRest, build, query
<1>8. SearchHolds'
  BY <1>1 DEF SearchHolds, QueryPcs
<1> QED BY <1>1, <1>5, <1>7, <1>8 DEF IInv

\* The starts of the groups are stored and the views are set.
LEMMA BuildGroupsStep == ASSUME IInv, BuildGroups PROVE IInv'
<1>1. /\ pc = "groups" /\ pc' = "derived" /\ pc \in BuildPcs /\ pc' \in BuildPcs
      /\ UNCHANGED <<build, query>>
  BY DEF BuildGroups, BuildPcs, LatePcs
<1>2. /\ Shaped(fm')
      /\ fm'.doc_bounds_owned_ = fm.doc_bounds_owned_
      /\ fm'.sa_sample_rate_ = fm.sa_sample_rate_
      /\ fm'.case_fold_ = fm.case_fold_
      /\ fm'.text_len_ = fm.text_len_
      /\ fm'.sigma_ = fm.sigma_
      /\ fm'.byte_to_id_ = fm.byte_to_id_
      /\ fm'.wm_ = fm.wm_
      /\ fm'.qlevels_ = fm.qlevels_
      /\ fm'.c_ = fm.c_
      /\ fm'.sampled_bv_ = fm.sampled_bv_
      /\ fm'.sample_vals_owned_ = fm.sample_vals_owned_
  BY DEF BuildGroups, Views, IInv, ObjectHolds, Shaped
<1>3. /\ fm'.first_ = Starts(fm.wm_, fm.sigma_, fm.qlevels_)
      /\ fm'.doc_start_ = fm.doc_bounds_owned_ /\ fm'.sv_ = fm.sample_vals_owned_
  BY DEF BuildGroups, Views, IInv, ObjectHolds, Shaped
<1>4. Laid(arg[1]) /\ Lettered(arg[1]) /\ Ranked(arg[1]) /\ Valued /\ Marked /\ Tabled /\ Leveled
  BY <1>1 DEF IInv, BuildHolds, LatePcs
<1>5. ObjectHolds'
  BY <1>1, <1>2 DEF IInv, ObjectHolds, Valid, LatePcs, build
<1>6. /\ Laid(arg[1])' /\ Lettered(arg[1])' /\ Ranked(arg[1])'
      /\ Valued' /\ Marked' /\ Tabled' /\ Leveled' /\ Grouped'
  BY <1>1, <1>2, <1>3, <1>4
     DEF Laid, Lettered, RateOf, Ranked, Valued, Marked, Tabled, Leveled, Grouped, build
<1>7. BuildHolds'
  BY <1>1, <1>6 DEF IInv, BuildHolds, LatePcs, AtRest, build, query
<1>8. SearchHolds'
  BY <1>1 DEF SearchHolds, QueryPcs
<1> QED BY <1>1, <1>5, <1>7, <1>8 DEF IInv

\* The bytes of the ids complete the object.
LEMMA BuildDerivedStep == ASSUME IInv, BuildDerived PROVE IInv'
<1> DEFINE a == arg[1]
           rate == RateOf(a)
<1>1. /\ pc = "derived" /\ pc' = "idle" /\ pc \in BuildPcs /\ pc' \notin BuildPcs
      /\ arg' = <<>> /\ UNCHANGED <<t, sa, query>>
      /\ corpus' = <<[docs |-> a.docs, cf |-> a.cf]>>
  BY DEF BuildDerived, BuildPcs, LatePcs
<1>2. Laid(a) /\ Lettered(a) /\ Ranked(a) /\ Valued /\ Marked /\ Tabled /\ Leveled /\ Grouped
  BY <1>1 DEF IInv, BuildHolds, LatePcs
<1>3. Arguments(a) /\ a.rate \in Nat /\ AtRest
  BY <1>1 DEF IInv, BuildHolds
<1>4. /\ Shaped(fm')
      /\ fm'.doc_bounds_owned_ = fm.doc_bounds_owned_
      /\ fm'.doc_start_ = fm.doc_start_
      /\ fm'.sa_sample_rate_ = fm.sa_sample_rate_
      /\ fm'.case_fold_ = fm.case_fold_
      /\ fm'.text_len_ = fm.text_len_
      /\ fm'.sigma_ = fm.sigma_
      /\ fm'.byte_to_id_ = fm.byte_to_id_
      /\ fm'.wm_ = fm.wm_
      /\ fm'.qlevels_ = fm.qlevels_
      /\ fm'.c_ = fm.c_
      /\ fm'.first_ = fm.first_
      /\ fm'.sampled_bv_ = fm.sampled_bv_
      /\ fm'.sample_vals_owned_ = fm.sample_vals_owned_
      /\ fm'.sv_ = fm.sv_
      /\ fm'.id_to_byte_ = IdToByte(fm.byte_to_id_, fm.sigma_)
  BY DEF BuildDerived, IInv, ObjectHolds, Shaped
<1>5. rate \in Nat \ {0} /\ fm'.sa_sample_rate_ = rate
  BY <1>2, <1>3, <1>4 DEF Lettered, RateOf
<1>6. [fm' EXCEPT !.isa_sample_ = NoIsa] = Built(a.docs, a.cf, rate)
  <2> DEFINE o == Built(a.docs, a.cf, rate)
  <2>1. /\ o.doc_bounds_owned_ = DocBounds(a.docs) /\ o.doc_start_ = DocBounds(a.docs)
        /\ o.sa_sample_rate_ = rate /\ o.case_fold_ = a.cf
        /\ o.text_len_ = DocBounds(a.docs)[Len(a.docs)] /\ o.sigma_ = Sigma(a.docs, a.cf)
        /\ o.byte_to_id_ = ByteToId(a.docs, a.cf)
        /\ o.wm_ = Bwt(TextOf(a.docs, a.cf), ArrayOf(a.docs, a.cf))
        /\ o.qlevels_ = QLevels(o.sigma_)
        /\ o.c_ = CTable(o.wm_, o.sigma_) /\ o.first_ = Starts(o.wm_, o.sigma_, o.qlevels_)
        /\ o.sampled_bv_ = SampledRows(ArrayOf(a.docs, a.cf), rate)
        /\ o.sample_vals_owned_ = SampleVals(ArrayOf(a.docs, a.cf), o.sampled_bv_)
        /\ o.sv_ = o.sample_vals_owned_
        /\ o.id_to_byte_ = IdToByte(o.byte_to_id_, o.sigma_)
        /\ o.isa_sample_ = NoIsa
    BY DEF Built, TextOf, ArrayOf
  <2>2. Shaped(o)
    BY DEF Built, Shaped
  <2> HIDE DEF o
  <2>3. /\ fm'.doc_bounds_owned_ = o.doc_bounds_owned_ /\ fm'.doc_start_ = o.doc_start_
        /\ fm'.sa_sample_rate_ = o.sa_sample_rate_ /\ fm'.case_fold_ = o.case_fold_
        /\ fm'.text_len_ = o.text_len_ /\ fm'.sigma_ = o.sigma_
        /\ fm'.byte_to_id_ = o.byte_to_id_ /\ fm'.wm_ = o.wm_
        /\ fm'.qlevels_ = o.qlevels_ /\ fm'.c_ = o.c_ /\ fm'.first_ = o.first_
        /\ fm'.sampled_bv_ = o.sampled_bv_
        /\ fm'.sample_vals_owned_ = o.sample_vals_owned_ /\ fm'.sv_ = o.sv_
        /\ fm'.id_to_byte_ = o.id_to_byte_
    BY <1>2, <1>4, <1>5, <2>1
       DEF Laid, Lettered, Ranked, Valued, Marked, Tabled, Leveled, Grouped
  <2>4. [fm' EXCEPT !.isa_sample_ = NoIsa] = o
    BY <1>4, <2>1, <2>2, <2>3 DEF Shaped
  <2> QED BY <2>4 DEF o
<1>7. Complete(corpus[1])'
  <2>1. corpus'[1].docs = a.docs /\ corpus'[1].cf = a.cf
    BY <1>1
  <2>2. Arguments(corpus'[1]) /\ Ranked(corpus[1])'
    BY <1>1, <1>2, <1>3, <2>1 DEF Arguments, Ranked
  <2> QED BY <1>5, <1>6, <2>1, <2>2 DEF Complete
<1>8. ObjectHolds'
  BY <1>1, <1>4, <1>7 DEF IInv, ObjectHolds
<1>9. AtRest'
  BY <1>1, <1>3 DEF AtRest, query
<1>10. SearchHolds' /\ BuildHolds'
  BY <1>1, <1>9 DEF SearchHolds, BuildHolds, QueryPcs
<1> QED BY <1>1, <1>8, <1>10 DEF IInv

\* A Build that throws leaves an object that holds nothing.
LEMMA BuildThrowStep == ASSUME ThrowsEarly, IInv, BuildThrow PROVE IInv'
<1>1. /\ corpus = <<>> /\ pc \in BuildPcs /\ pc \notin LatePcs /\ pc' = "idle" /\ arg' = <<>>
      /\ UNCHANGED <<fm, t, sa, corpus, query>>
  BY DEF BuildThrow, ThrowsEarly, BuildPcs, LatePcs
<1>2. ObjectHolds'
  BY <1>1 DEF IInv, ObjectHolds, Valid
<1>3. AtRest'
  BY <1>1 DEF IInv, BuildHolds, AtRest, query
<1>4. SearchHolds' /\ BuildHolds'
  BY <1>1, <1>3 DEF SearchHolds, BuildHolds, QueryPcs, BuildPcs, LatePcs
<1> QED BY <1>1, <1>2, <1>4 DEF IInv

-----------------------------------------------------------------------------
(***************************************************************************)
(* The search.                                                             *)
(***************************************************************************)

\* A valid object serves the text of its corpus.
LEMMA ValidServes ==
    ASSUME IInv, pc \notin BuildPcs, Valid(fm)
    PROVE  /\ Serves(fm, t, sa)
           /\ Sampled(fm, sa)
           /\ corpus # <<>> /\ Arguments(corpus[1])
           /\ fm.doc_start_ = DocBounds(corpus[1].docs)
           /\ fm.text_len_ = DocBounds(corpus[1].docs)[Len(corpus[1].docs)]
<1>1. corpus # <<>> /\ Complete(corpus[1]) /\ Shaped(fm)
  BY DEF IInv, ObjectHolds, BuildPcs, LatePcs
<1>2. PICK docs \in Seq(Seq(Bytes)) : docs = corpus[1].docs
  BY <1>1 DEF Complete, Arguments
<1>3. PICK cf \in BOOLEAN : cf = corpus[1].cf
  BY <1>1 DEF Complete, Arguments
<1>4. PICK rate \in Nat \ {0} : rate = fm.sa_sample_rate_
  BY <1>1 DEF Complete
<1> DEFINE o == Built(docs, cf, rate)
<1>5. /\ [fm EXCEPT !.isa_sample_ = NoIsa] = o
      /\ t = TextOf(docs, cf) /\ sa = ArrayOf(docs, cf)
  BY <1>1, <1>2, <1>3, <1>4 DEF Complete, Ranked
<1>6. Serves(o, t, sa) /\ Sampled(o, sa)
  BY <1>5, BuiltServes
<1>7. o.doc_start_ = DocBounds(docs) /\ o.text_len_ = DocBounds(docs)[Len(docs)]
  BY DEF Built
<1> HIDE DEF o
<1>8. /\ fm.text_len_ = o.text_len_ /\ fm.sigma_ = o.sigma_
      /\ fm.byte_to_id_ = o.byte_to_id_ /\ fm.wm_ = o.wm_ /\ fm.c_ = o.c_
      /\ fm.first_ = o.first_ /\ fm.qlevels_ = o.qlevels_
      /\ fm.sa_sample_rate_ = o.sa_sample_rate_ /\ fm.sampled_bv_ = o.sampled_bv_
      /\ fm.sv_ = o.sv_ /\ fm.doc_start_ = o.doc_start_
  BY <1>1, <1>5 DEF Shaped
<1>9. Serves(fm, t, sa)
  BY <1>6, <1>8 DEF Serves
<1>10. Sampled(fm, sa)
  BY <1>6, <1>8 DEF Sampled
<1> QED BY <1>1, <1>2, <1>7, <1>8, <1>9, <1>10 DEF Complete

\* A query leaves the index alone.
LEMMA QueryFrame ==
    ASSUME IInv, UNCHANGED <<fm, build>>, pc \notin BuildPcs,
           pc' \in {"idle"} \cup QueryPcs, SearchHolds'
    PROVE  IInv'
<1>1. pc' \notin BuildPcs
  BY DEF QueryPcs, BuildPcs, LatePcs
<1>2. pc \notin LatePcs
  BY DEF BuildPcs, LatePcs
<1>3. ObjectHolds'
  BY <1>1, <1>2 DEF IInv, ObjectHolds, Valid, Complete, Ranked, build
<1>4. BuildHolds'
  BY <1>1 DEF BuildHolds
<1> QED BY <1>3, <1>4 DEF IInv

\* The ends of the interval are those of the rows of the matched word.
LEMMA MatchingExact ==
    Matching <=> {r \in DOMAIN sa : SuffixStartsWith(sa[r], Matched)} = lo..(hi - 1)
  BY DEF Matching, RowsOf, StandsAt, SuffixStartsWith

\* At the start nothing of the pattern is matched, and a suffix query starts
\* from the rows of the separator.
LEMMA CallSearchStep == ASSUME IInv, NEW q \in Requests, CallSearch(q) PROVE IInv'
<1>1. /\ pc = "idle" /\ q.op # "Extract" /\ req' = <<q>> /\ k' = Len(q.p)
      /\ UNCHANGED <<fm, build>> /\ pc \notin BuildPcs
      /\ q.p \in Seq(Bytes) /\ pc' \in {"interval", "search"}
  BY CallAssumption DEF CallSearch, BuildPcs, LatePcs
<1>2. Len(q.p) \in Nat /\ M(fm) \in Nat /\ M(fm) = fm.text_len_ + 1 /\ M(fm)' = M(fm)
      /\ Valid(fm)' = Valid(fm) /\ fm.text_len_ \in Nat
  BY <1>1 DEF IInv, ObjectHolds, M, Valid
<1>3. req' # <<>> /\ req'[1] = q
  BY <1>1
<1>4. CASE ~Valid(fm) \/ q.p = <<>>
  <2>1. lo' = 0 /\ hi' = (IF Valid(fm) /\ q.op = "Count" THEN M(fm) ELSE 0) /\ pc' = "interval"
    BY <1>4 DEF CallSearch
  <2>2. lo' \in 0..M(fm) /\ hi' \in 0..M(fm) /\ k' \in 0..Len(q.p)
    BY <1>1, <1>2, <2>1
  <2>3. lo' < hi' => Valid(fm) /\ Matching'
    <3> SUFFICES ASSUME lo' < hi' PROVE Valid(fm) /\ Matching'
      OBVIOUS
    <3>1. Valid(fm) /\ q.op = "Count" /\ hi' = M(fm) /\ q.p = <<>>
      BY <1>4, <2>1
    <3>2. Len(Matched') = 0
      BY <1>1, <1>3, <3>1 DEF Matched, SuffixOps
    <3>3. Serves(fm, t, sa)
      BY <1>1, <3>1, ValidServes
    <3>4. RowsOf(t, sa, Matched') = 0..fm.text_len_
      BY <3>2, <3>3, EmptyRows
    <3>5. M(fm) - 1 = fm.text_len_
      BY <1>2
    <3> QED BY <1>1, <2>1, <3>1, <3>4, <3>5 DEF Matching, build
  <2>4. SearchHolds'
    BY <1>1, <1>2, <1>3, <2>1, <2>2, <2>3 DEF SearchHolds
  <2> QED BY <1>1, <2>4, QueryFrame DEF QueryPcs
<1>5. CASE Valid(fm) /\ q.p # <<>>
  <2>1. /\ lo' = (IF q.op \in SuffixOps THEN fm.c_[1] ELSE 0)
        /\ hi' = (IF q.op \in SuffixOps /\ 2 \in DOMAIN fm.c_ THEN fm.c_[2] ELSE M(fm))
        /\ pc' = "search"
    BY <1>5 DEF CallSearch
  <2>2. Serves(fm, t, sa)
    BY <1>1, <1>5, ValidServes
  <2>3. k' \in 1..Len(q.p)
    BY <1>1, <1>2, <1>5
  <2>4. lo' \in 0..M(fm) /\ hi' \in 0..M(fm) /\ Matching'
    <3>1. CASE q.op \in SuffixOps
      <4>1. Len(Matched') = 1 /\ Matched'[1] = 1
        BY <1>1, <1>3, <3>1 DEF Matched
      <4>2. 1 \in 1..(fm.sigma_ - 1) /\ 1 + 1 = 2
        BY <2>2 DEF Serves, Ended
      <4> DEFINE end == IF 2 \in DOMAIN fm.c_ THEN fm.c_[2] ELSE fm.text_len_ + 1
      <4>3. /\ RowsOf(t, sa, Matched') = fm.c_[1]..(end - 1)
            /\ fm.c_[1] \in 0..(fm.text_len_ + 1)
            /\ end \in 0..(fm.text_len_ + 1)
        BY <2>2, <4>1, <4>2, FirstRows
      <4>4. lo' = fm.c_[1] /\ hi' = end
        BY <1>2, <2>1, <3>1
      <4> QED BY <1>1, <1>2, <4>3, <4>4 DEF Matching, build
    <3>2. CASE q.op \notin SuffixOps
      <4>1. Len(Matched') = 0
        BY <1>1, <1>3, <3>2 DEF Matched
      <4>2. RowsOf(t, sa, Matched') = 0..fm.text_len_
        BY <2>2, <4>1, EmptyRows
      <4>3. lo' = 0 /\ hi' = M(fm) /\ M(fm) - 1 = fm.text_len_
        BY <1>2, <2>1, <3>2
      <4> QED BY <1>1, <1>2, <4>2, <4>3 DEF Matching, build
    <3> QED BY <3>1, <3>2
  <2>5. SearchHolds'
    BY <1>1, <1>2, <1>3, <1>5, <2>1, <2>3, <2>4 DEF SearchHolds
  <2> QED BY <1>1, <2>5, QueryFrame DEF QueryPcs
<1> QED BY <1>4, <1>5

\* The ids of the bytes of p behind its first m, with a separator at the end for
\* a suffix query.
Ids(f, p, m) == [j \in 1..(Len(p) - m) |-> f[p[m + j]]]
Word(f, p, m, op) == IF op \in SuffixOps THEN Append(Ids(f, p, m), 1) ELSE Ids(f, p, m)

\* One pattern byte more puts its id in front of the word.
LEMMA WordStep ==
    ASSUME NEW f \in [Bytes -> Int], NEW p \in Seq(Bytes), NEW m \in 1..Len(p), NEW op
    PROVE  Fronted(Word(f, p, m - 1, op), f[p[m]], Word(f, p, m, op))
<1> DEFINE L == Len(p)
           u == Ids(f, p, m)
           v == Ids(f, p, m - 1)
<1>1. L \in Nat /\ \A j \in 1..L : p[j] \in Bytes
  OBVIOUS
<1> HIDE DEF L
<1>2. m \in 1..L
  BY DEF L
<1>3. u \in [1..(L - m) -> Int] /\ \A j \in 1..(L - m) : u[j] = f[p[m + j]]
  <2>1. \A j \in 1..(L - m) : m + j \in 1..L
    BY <1>1, <1>2
  <2> QED BY <1>1, <2>1 DEF Ids, L
<1>4. v \in [1..(L - m + 1) -> Int] /\ \A j \in 1..(L - m + 1) : v[j] = f[p[(m - 1) + j]]
  <2>1. L - (m - 1) = L - m + 1 /\ \A j \in 1..(L - m + 1) : (m - 1) + j \in 1..L
    BY <1>1, <1>2
  <2> QED BY <1>1, <2>1 DEF Ids, L
<1> HIDE DEF u, v
<1> DEFINE d == L - m
<1>5. d \in Nat /\ L - m + 1 = d + 1
  BY <1>1, <1>2
<1>6. v[1] = f[p[m]] /\ \A j \in 1..d : v[j + 1] = u[j]
  <2>1. 1 \in 1..(d + 1) /\ (m - 1) + 1 = m
    BY <1>1, <1>2, <1>5
  <2>2. ASSUME NEW j \in 1..d PROVE v[j + 1] = u[j]
    <3>1. j + 1 \in 1..(d + 1) /\ (m - 1) + (j + 1) = m + j
      BY <1>2, <1>5
    <3> QED BY <1>3, <1>4, <1>5, <3>1
  <2> QED BY <1>4, <1>5, <2>1, <2>2
<1>7. u \in [1..d -> Int] /\ v \in [1..(d + 1) -> Int]
  BY <1>3, <1>4, <1>5
<1> HIDE DEF d
<1>8. /\ u \in Seq(Int) /\ Len(u) = d
      /\ v \in Seq(Int) /\ Len(v) = d + 1
  BY <1>5, <1>7
<1>9. CASE op \notin SuffixOps
  <2>1. Fronted(v, f[p[m]], u)
    BY <1>5, <1>6, <1>8 DEF Fronted
  <2> QED BY <1>9, <2>1 DEF Word, u, v
<1>10. CASE op \in SuffixOps
  <2> DEFINE x == Append(u, 1)
             y == Append(v, 1)
  <2>1. /\ Len(x) = d + 1 /\ x[d + 1] = 1 /\ \A j \in 1..d : x[j] = u[j]
        /\ Len(y) = d + 2 /\ y[d + 2] = 1 /\ \A j \in 1..(d + 1) : y[j] = v[j]
    BY <1>5, <1>8
  <2> HIDE DEF x, y
  <2>2. y[1] = f[p[m]]
    <3>1. 1 \in 1..(d + 1)
      BY <1>5
    <3> QED BY <1>6, <2>1, <3>1
  <2>3. ASSUME NEW j \in 1..(d + 1) PROVE y[j + 1] = x[j]
    <3>1. CASE j = d + 1
      <4>1. j + 1 = d + 2
        BY <1>5, <3>1
      <4> QED BY <2>1, <3>1, <4>1
    <3>2. CASE j # d + 1
      <4>1. j \in 1..d /\ j + 1 \in 1..(d + 1)
        BY <1>5, <3>2
      <4> QED BY <1>6, <2>1, <4>1
    <3> QED BY <3>1, <3>2
  <2>4. Fronted(y, f[p[m]], x)
    <3>1. d + 1 \in Nat /\ d + 2 = (d + 1) + 1
      BY <1>5
    <3> QED BY <2>1, <2>2, <2>3, <3>1 DEF Fronted
  <2> QED BY <1>10, <2>4 DEF Word, u, v, x, y
<1> QED BY <1>9, <1>10

\* A turn of the search loop takes the interval to that of the longer word.
LEMMA SearchStepStep == ASSUME IInv, SearchStep PROVE IInv'
<1> DEFINE p == req[1].p
           x == p[k]
           id == fm.byte_to_id_[x]
           nlo == Extend(fm, id, lo)
           nhi == Extend(fm, id, hi)
<1>1. /\ pc = "search" /\ pc \notin BuildPcs
      /\ UNCHANGED <<fm, build, req, res, i, row, steps, out>>
      /\ pc' \in {"interval", "search"}
  BY DEF SearchStep, BuildPcs, LatePcs
<1>2. /\ req # <<>> /\ req[1] \in Requests /\ req[1].op # "Extract"
      /\ Valid(fm) /\ k \in 1..Len(p) /\ Matching
      /\ lo \in 0..M(fm) /\ hi \in 0..M(fm)
  BY <1>1 DEF IInv, SearchHolds, QueryPcs
<1>3. p \in Seq(Bytes) /\ Len(p) \in Nat
  BY <1>2, CallAssumption
<1>4. x \in Bytes
  BY <1>2, <1>3
<1>5. Serves(fm, t, sa)
  BY <1>1, <1>2, ValidServes
<1>6. fm.text_len_ \in Nat /\ M(fm) = fm.text_len_ + 1 /\ Valid(fm)' = Valid(fm) /\ M(fm)' = M(fm)
  BY <1>1 DEF IInv, ObjectHolds, M, Valid
<1>7. CASE id < 0 \/ nlo >= nhi
  <2>1. lo' = 0 /\ hi' = 0 /\ k' = k /\ pc' = "interval"
    BY <1>7 DEF SearchStep, NextByte
  <2>2. ~(lo' < hi') /\ lo' \in 0..M(fm) /\ hi' \in 0..M(fm)
    BY <1>6, <2>1
  <2>3. k' \in 0..Len(p)
    BY <1>2, <1>3, <2>1
  <2>4. SearchHolds'
    BY <1>1, <1>2, <1>6, <2>1, <2>2, <2>3 DEF SearchHolds
  <2> QED BY <1>1, <2>4, QueryFrame DEF QueryPcs
<1>8. CASE ~(id < 0 \/ nlo >= nhi)
  <2>1. lo' = nlo /\ hi' = nhi /\ k' = k - 1 /\ pc' = (IF k = 1 THEN "interval" ELSE "search")
    BY <1>8 DEF SearchStep, NextByte
  <2>2. id \in 2..(fm.sigma_ - 1)
    BY <1>4, <1>5, <1>8 DEF Serves
  <2>3. PICK c \in 1..(fm.sigma_ - 1) : c = id
    BY <2>2
  <2>4. c \in 0..(fm.sigma_ - 1) /\ lo \in 0..(fm.text_len_ + 1) /\ hi \in 0..(fm.text_len_ + 1)
    BY <1>2, <1>6
  <2>5. Extend(fm, c, lo) \in 0..(fm.text_len_ + 1) /\ Extend(fm, c, hi) \in 0..(fm.text_len_ + 1)
    BY <1>5, <2>4, ExtendIsCut
  <2>6. lo' \in 0..M(fm) /\ hi' \in 0..M(fm)
    BY <1>6, <2>1, <2>3, <2>5
  <2>7. Matching'
    <3> DEFINE w == Matched
               v == Matched'
    <3>1. Fronted(v, c, w)
      <4>1. fm.byte_to_id_ \in [Bytes -> Int]
        <5>1. corpus # <<>> /\ Complete(corpus[1]) /\ Shaped(fm)
          BY <1>1, <1>2 DEF IInv, ObjectHolds, BuildPcs
        <5>2. fm.byte_to_id_ = Built(corpus[1].docs, corpus[1].cf, fm.sa_sample_rate_).byte_to_id_
          BY <5>1 DEF Complete, Shaped
        <5>3. DOMAIN fm.byte_to_id_ = Bytes
          BY <5>2 DEF Built, ByteToId
        <5>4. \A y \in Bytes : fm.byte_to_id_[y] \in Int
          BY <1>5 DEF Serves
        <5>5. fm.byte_to_id_ = [y \in Bytes |-> fm.byte_to_id_[y]]
          BY <5>2 DEF Built, ByteToId
        <5> QED BY <5>4, <5>5
      <4>2. /\ w = Word(fm.byte_to_id_, p, k, req[1].op)
            /\ v = Word(fm.byte_to_id_, p, k - 1, req[1].op)
        BY <1>1, <2>1 DEF Matched, Word, Ids
      <4> QED BY <1>2, <1>3, <2>3, <4>1, <4>2, WordStep
    <3> HIDE DEF w, v
    <3>2. RowsOf(t, sa, w) = lo..(hi - 1)
      BY <1>2 DEF Matching, w
    <3>3. RowsOf(t, sa, v) = Extend(fm, c, lo)..(Extend(fm, c, hi) - 1)
      BY <1>5, <2>4, <3>1, <3>2, ExtendRows
    <3> QED BY <1>1, <2>1, <2>3, <3>3 DEF Matching, v, build
  <2>8. k' \in 0..Len(p) /\ (k # 1 => k' \in 1..Len(p))
    BY <1>2, <1>3, <2>1
  <2>9. SearchHolds'
    BY <1>1, <1>2, <1>6, <2>1, <2>6, <2>7, <2>8 DEF SearchHolds
  <2> QED BY <1>1, <2>9, QueryFrame DEF QueryPcs
<1> QED BY <1>7, <1>8

-----------------------------------------------------------------------------
(***************************************************************************)
(* Counting and locating.                                                  *)
(***************************************************************************)

\* A query that has its answer keeps nothing but its request.
LEMMA RespondStep ==
    ASSUME IInv, UNCHANGED <<fm, build, req>>, pc \in QueryPcs, pc' = "done"
    PROVE  IInv'
<1>1. pc \notin BuildPcs /\ pc' \in QueryPcs
  BY DEF QueryPcs, BuildPcs, LatePcs
<1>2. req # <<>> /\ req[1] \in Requests
  BY DEF IInv, SearchHolds
<1>3. SearchHolds'
  BY <1>2 DEF SearchHolds
<1> QED BY <1>1, <1>3, QueryFrame

\* The rows of the prefix query are those of the extension by the separator.
LEMMA LocateIntervalStep == ASSUME IInv, LocateInterval PROVE IInv'
<1> DEFINE prefix == req[1].op = "LocatePrefixDocs" /\ lo < hi
<1>1. /\ pc = "interval" /\ pc' = "rows" /\ pc \notin BuildPcs /\ i' = lo'
      /\ UNCHANGED <<fm, build, req>>
      /\ lo' = (IF prefix THEN Extend(fm, 1, lo) ELSE lo)
      /\ hi' = (IF prefix THEN Extend(fm, 1, hi) ELSE hi)
  BY DEF LocateInterval, BuildPcs, LatePcs
<1>2. /\ req # <<>> /\ req[1] \in Requests /\ req[1].op # "Extract"
      /\ lo \in 0..M(fm) /\ hi \in 0..M(fm)
      /\ lo < hi => Valid(fm)
  BY <1>1 DEF IInv, SearchHolds, QueryPcs
<1>3. fm.text_len_ \in Nat /\ M(fm) = fm.text_len_ + 1 /\ Valid(fm)' = Valid(fm) /\ M(fm)' = M(fm)
  BY <1>1 DEF IInv, ObjectHolds, M, Valid
<1>4. lo' \in 0..M(fm) /\ hi' \in 0..M(fm) /\ (lo' < hi' => Valid(fm))
  <2>1. CASE prefix
    <3>1. Valid(fm)
      BY <1>2, <2>1
    <3>2. Serves(fm, t, sa)
      BY <1>1, <3>1, ValidServes
    <3>3. 1 \in 0..(fm.sigma_ - 1)
      BY <3>2 DEF Serves, Ended
    <3>4. lo \in 0..(fm.text_len_ + 1) /\ hi \in 0..(fm.text_len_ + 1)
      BY <1>2, <1>3
    <3>5. Extend(fm, 1, lo) \in 0..(fm.text_len_ + 1) /\ Extend(fm, 1, hi) \in 0..(fm.text_len_ + 1)
      BY <3>2, <3>3, <3>4, ExtendIsCut
    <3> QED BY <1>1, <1>3, <2>1, <3>1, <3>5
  <2>2. CASE ~prefix
    BY <1>1, <1>2, <2>2
  <2> QED BY <2>1, <2>2
<1>5. SearchHolds'
  BY <1>1, <1>2, <1>3, <1>4 DEF SearchHolds
<1> QED BY <1>1, <1>5, QueryFrame DEF QueryPcs

\* What the remainder of a division says of the walk.
LEMMA Remainder ==
    ASSUME NEW a \in Nat, NEW rate \in Nat \ {0}
    PROVE  /\ a % rate \in 0..(rate - 1)
           /\ a % rate <= a
           /\ \A s \in Nat : s <= a % rate => (a - s) % rate = (a % rate) - s
<1>1. a % rate \in 0..(rate - 1) /\ a \div rate \in Nat /\ a = (a \div rate) * rate + (a % rate)
  BY DivMod
<1> DEFINE q == a \div rate
           m == a % rate
<1> HIDE DEF q, m
<1>2. m \in 0..(rate - 1) /\ q \in Nat /\ a = q * rate + m
  BY <1>1 DEF q, m
<1>3. q * rate \in Nat
  BY <1>2
<1>4. m <= a
  BY <1>2, <1>3
<1>5. ASSUME NEW s \in Nat, s <= m PROVE (a - s) % rate = m - s
  <2>1. a - s = q * rate + (m - s) /\ m - s \in 0..(rate - 1)
    BY <1>2, <1>3, <1>5
  <2> QED BY <1>2, <2>1
<1> QED BY <1>2, <1>4, <1>5 DEF m

\* A walk starts on its row.
LEMMA StartRowStep == ASSUME IInv, StartRow PROVE IInv'
<1>1. /\ pc = "rows" /\ pc' = "walk" /\ pc \notin BuildPcs /\ row' = i /\ steps' = 0 /\ i < hi
      /\ UNCHANGED <<fm, build, req, lo, hi, i>>
  BY DEF StartRow, BuildPcs, LatePcs
<1>2. /\ req # <<>> /\ req[1] \in Requests /\ req[1].op # "Extract"
      /\ lo \in 0..M(fm) /\ hi \in 0..M(fm) /\ i \in 0..M(fm)
      /\ Valid(fm)
  BY <1>1 DEF IInv, SearchHolds, QueryPcs
<1>3. fm.text_len_ \in Nat /\ M(fm) = fm.text_len_ + 1 /\ Valid(fm)' = Valid(fm) /\ M(fm)' = M(fm)
  BY <1>1 DEF IInv, ObjectHolds, M, Valid
<1>4. i \in 0..fm.text_len_
  BY <1>1, <1>2, <1>3
<1>5. Serves(fm, t, sa) /\ Sampled(fm, sa)
  BY <1>1, <1>2, ValidServes
<1>6. sa[i] \in Nat /\ fm.sa_sample_rate_ \in Nat \ {0}
  BY <1>4, <1>5 DEF Serves, Sorted, Sampled
<1>7. sa[i] % fm.sa_sample_rate_ >= 0 /\ sa[i] + 0 = sa[i]
  <2>1. PICK a \in Nat, rate \in Nat \ {0} : a = sa[i] /\ rate = fm.sa_sample_rate_
    BY <1>6
  <2>2. a % rate \in 0..(rate - 1)
    BY Remainder
  <2> QED BY <2>1, <2>2
<1>8. /\ sa'[row'] + steps' = sa'[i'] /\ steps' \in Nat
      /\ steps' <= sa'[i'] % fm'.sa_sample_rate_
  BY <1>1, <1>7 DEF build
<1>9. SearchHolds'
  BY <1>1, <1>2, <1>3, <1>4, <1>8 DEF SearchHolds
<1> QED BY <1>1, <1>9, QueryFrame DEF QueryPcs

\* A step of the walk goes one text position back: it has not passed a sampled
\* position, so the text does not end before.
LEMMA WalkStepStep == ASSUME IInv, WalkStep PROVE IInv'
<1> DEFINE n == fm.text_len_
           rate == fm.sa_sample_rate_
<1>1. /\ pc = "walk" /\ pc' = "walk" /\ pc \notin BuildPcs
      /\ row \notin fm.sampled_bv_
      /\ row' = LF(fm, row) /\ steps' = steps + 1
      /\ UNCHANGED <<fm, build, req, lo, hi, i>>
  BY DEF WalkStep, BuildPcs, LatePcs
<1>2. /\ req # <<>> /\ req[1] \in Requests /\ req[1].op # "Extract"
      /\ lo \in 0..M(fm) /\ hi \in 0..M(fm) /\ i \in 0..M(fm)
      /\ Valid(fm) /\ i < hi /\ row \in 0..n /\ steps \in Nat
      /\ sa[row] + steps = sa[i] /\ steps <= sa[i] % rate
  BY <1>1 DEF IInv, SearchHolds, QueryPcs
<1>3. n \in Nat /\ M(fm) = n + 1 /\ Valid(fm)' = Valid(fm) /\ M(fm)' = M(fm)
  BY <1>1 DEF IInv, ObjectHolds, M, Valid
<1>4. i \in 0..n
  BY <1>2, <1>3
<1>5. Serves(fm, t, sa) /\ Sampled(fm, sa)
  BY <1>1, <1>2, ValidServes
<1>6. sa[i] \in 0..n /\ sa[row] \in 0..n /\ rate \in Nat \ {0}
  BY <1>2, <1>4, <1>5 DEF Serves, Sorted, Sampled
<1>7. sa[row] % rate # 0
  BY <1>1, <1>2, <1>5, SampleIsPosition
<1>8. LF(fm, row) \in 0..n /\ sa[LF(fm, row)] = Prev(sa[row], n)
  BY <1>2, <1>5, LFBack
<1>9. PICK a \in Nat, b \in Nat : a = sa[i] /\ b = sa[row]
  BY <1>3, <1>6
<1> HIDE DEF n, rate
<1>10. (a - steps) % rate = (a % rate) - steps /\ a % rate \in 0..(rate - 1) /\ b = a - steps
  <2>1. steps \in Nat /\ steps <= a % rate /\ b + steps = a
    BY <1>2, <1>9
  <2>2. a % rate \in 0..(rate - 1) /\ \A s \in Nat : s <= a % rate => (a - s) % rate = (a % rate) - s
    BY <1>6, Remainder
  <2> QED BY <2>1, <2>2
<1>11. b # 0
  <2>1. 0 % rate = 0
    BY <1>6
  <2> QED BY <1>7, <1>9, <2>1
<1>12. steps + 1 <= a % rate
  BY <1>2, <1>6, <1>7, <1>9, <1>10
<1>13. Prev(b, n) = b - 1
  BY <1>11 DEF Prev
<1>14. (b - 1) + (steps + 1) = a
  BY <1>2, <1>9
<1>15. row' \in 0..n /\ sa[row'] + steps' = sa[i] /\ steps' \in Nat /\ steps' <= sa[i] % rate
  BY <1>1, <1>2, <1>8, <1>9, <1>12, <1>13, <1>14
<1>16. /\ row' \in 0..fm'.text_len_ /\ sa'[row'] + steps' = sa'[i'] /\ steps' \in Nat
       /\ steps' <= sa'[i'] % fm'.sa_sample_rate_
  BY <1>1, <1>15 DEF build, n, rate
<1>17. SearchHolds'
  BY <1>1, <1>2, <1>3, <1>16 DEF SearchHolds
<1> QED BY <1>1, <1>17, QueryFrame DEF QueryPcs

\* The next row.
LEMMA WalkEndStep == ASSUME IInv, WalkEnd PROVE IInv'
<1>1. /\ pc = "walk" /\ pc' = "rows" /\ pc \notin BuildPcs /\ i' = i + 1
      /\ UNCHANGED <<fm, build, req, lo, hi>>
  BY DEF WalkEnd, BuildPcs, LatePcs
<1>2. /\ req # <<>> /\ req[1] \in Requests /\ req[1].op # "Extract"
      /\ lo \in 0..M(fm) /\ hi \in 0..M(fm) /\ i \in 0..M(fm) /\ i < hi
      /\ Valid(fm)
  BY <1>1 DEF IInv, SearchHolds, QueryPcs
<1>3. fm.text_len_ \in Nat /\ M(fm) = fm.text_len_ + 1 /\ Valid(fm)' = Valid(fm) /\ M(fm)' = M(fm)
  BY <1>1 DEF IInv, ObjectHolds, M, Valid
<1>4. i + 1 \in 0..M(fm)
  BY <1>2, <1>3
<1>5. SearchHolds'
  BY <1>1, <1>2, <1>3, <1>4 DEF SearchHolds
<1> QED BY <1>1, <1>5, QueryFrame DEF QueryPcs

\* A request for a passage.
LEMMA CallExtractStep == ASSUME IInv, NEW q \in Requests, CallExtract(q) PROVE IInv'
<1>1. /\ pc = "idle" /\ pc' = "entry" /\ pc \notin BuildPcs /\ req' = <<q>>
      /\ UNCHANGED <<fm, build>>
  BY DEF CallExtract, BuildPcs, LatePcs
<1>2. req' # <<>> /\ req'[1] = q
  BY <1>1
<1>3. SearchHolds'
  BY <1>1, <1>2 DEF SearchHolds
<1> QED BY <1>1, <1>3, QueryFrame DEF QueryPcs

\* Extract makes the anchor table and leaves the rest of the object alone.
LEMMA ExtractAnchorStep == ASSUME IInv, ExtractAnchor PROVE IInv'
<1>1. /\ pc = "entry" /\ pc' \in {"stray", "done", "extract"}
      /\ UNCHANGED <<build, req>> /\ fm' = [fm EXCEPT !.isa_sample_ = EnsureIsaSample]
  BY DEF ExtractAnchor, Respond
<1>2. /\ pc \notin LatePcs /\ pc \notin BuildPcs /\ pc' \notin BuildPcs
      /\ pc \in QueryPcs /\ pc' \in QueryPcs
  BY <1>1 DEF BuildPcs, LatePcs, QueryPcs
<1>3. Shaped(fm)
  BY DEF IInv, ObjectHolds
<1>4. /\ Shaped(fm') /\ fm'.text_len_ = fm.text_len_ /\ fm'.c_ = fm.c_
      /\ fm'.sa_sample_rate_ = fm.sa_sample_rate_
      /\ [fm' EXCEPT !.isa_sample_ = NoIsa] = [fm EXCEPT !.isa_sample_ = NoIsa]
  BY <1>1, <1>3 DEF Shaped
<1>5. ObjectHolds'
  BY <1>1, <1>2, <1>4 DEF IInv, ObjectHolds, Valid, Complete, Ranked, build
<1>6. BuildHolds'
  BY <1>2 DEF BuildHolds
<1>7. req' # <<>> /\ req'[1] \in Requests
  BY <1>1, <1>2 DEF IInv, SearchHolds
<1>8. SearchHolds'
  BY <1>1, <1>7 DEF SearchHolds
<1> QED BY <1>2, <1>5, <1>6, <1>8 DEF IInv

\* The walk of Extract leaves the object and the request alone.
LEMMA ExtractStepStep == ASSUME IInv, ExtractStep PROVE IInv'
<1>1. /\ pc = "extract" /\ pc' = "extract" /\ pc \notin BuildPcs
      /\ UNCHANGED <<fm, build, req>>
  BY DEF ExtractStep, BuildPcs, LatePcs
<1>2. req' # <<>> /\ req'[1] \in Requests
  BY <1>1 DEF IInv, SearchHolds, QueryPcs
<1>3. SearchHolds'
  BY <1>1, <1>2 DEF SearchHolds
<1> QED BY <1>1, <1>3, QueryFrame DEF QueryPcs

\* The caller takes the answer.
LEMMA ReturnStep == ASSUME IInv, Return PROVE IInv'
<1>1. pc = "done" /\ pc' = "idle" /\ pc \notin BuildPcs /\ UNCHANGED <<fm, build>> /\ AtRest'
  BY DEF Return, BuildPcs, LatePcs, AtRest
<1>2. SearchHolds'
  BY <1>1 DEF SearchHolds, QueryPcs
<1> QED BY <1>1, <1>2, QueryFrame

\* A step that changes nothing.
LEMMA StutterStep == ASSUME IInv, UNCHANGED vars PROVE IInv'
  BY DEF IInv, vars, build, query, ObjectHolds, BuildHolds, SearchHolds, Shaped, Valid, M, Complete,
         Ranked, Laid, Lettered, Valued, Marked, Tabled, Leveled, Grouped, AtRest, Matching,
         Matched, RateOf, Arguments

\* Every step keeps the invariant.
LEMMA NextStep == ASSUME ThrowsEarly, IInv, [Next]_vars PROVE IInv'
<1>1. CASE BuildCall
  BY <1>1, BuildCallStep
<1>2. CASE BuildStep
  BY <1>2, BuildLayoutStep, BuildAlphabetStep, BuildSortStep, BuildClearSamplesStep,
     BuildSamplesStep, BuildBitmapStep, BuildCTableStep, BuildWaveletStep, BuildGroupsStep,
     BuildDerivedStep, BuildThrowStep DEF BuildStep
<1>3. ASSUME NEW q \in Requests, CallSearch(q) \/ CallExtract(q) PROVE IInv'
  BY <1>3, CallSearchStep, CallExtractStep
<1>4. CASE QueryStep
  <2>1. CASE CountInterval \/ LocateEnd \/ ExtractNothing \/ ExtractEnd
    <3>1. pc \in QueryPcs /\ pc' = "done" /\ UNCHANGED <<fm, build, req>>
      BY <2>1 DEF CountInterval, LocateEnd, ExtractNothing, ExtractEnd, Respond, QueryPcs
    <3> QED BY <3>1, RespondStep
  <2>2. CASE SearchStep \/ LocateInterval \/ StartRow \/ WalkStep \/ WalkEnd
    BY <2>2, SearchStepStep, LocateIntervalStep, StartRowStep, WalkStepStep, WalkEndStep
  <2>3. CASE ExtractAnchor \/ ExtractStep
    BY <2>3, ExtractAnchorStep, ExtractStepStep
  <2> QED BY <1>4, <2>1, <2>2, <2>3 DEF QueryStep
<1>5. CASE Return
  BY <1>5, ReturnStep
<1>6. CASE UNCHANGED vars
  BY <1>6, StutterStep
<1> QED BY <1>1, <1>2, <1>3, <1>4, <1>5, <1>6 DEF Next

\* The invariant holds throughout.
THEOREM Invariant == ASSUME ThrowsEarly PROVE Spec => []IInv
<1>1. Init => IInv
  BY InitInv
<1>2. IInv /\ [Next]_vars => IInv'
  BY NextStep
<1> QED BY <1>1, <1>2, PTL DEF Spec

-----------------------------------------------------------------------------
(***************************************************************************)
(* What the invariant says.                                                *)
(***************************************************************************)

\* BuiltExact: a Build that completes, first or again, leaves the object that
\* its arguments determine.
THEOREM BuiltCorrect == ASSUME ThrowsEarly PROVE Spec => []BuiltExact
<1>1. ASSUME IInv PROVE BuiltExact
  BY <1>1 DEF IInv, ObjectHolds, Complete, BuiltExact, BuildPcs, LatePcs
<1>2. IInv => BuiltExact
  BY <1>1
<1> QED BY <1>2, Invariant, PTL

\* IntervalExact: at every turn of the backward search the interval holds
\* exactly the rows of the suffixes that start with what was matched.
THEOREM IntervalCorrect == ASSUME ThrowsEarly PROVE Spec => []IntervalExact
<1>1. ASSUME IInv PROVE IntervalExact
  BY <1>1, MatchingExact DEF IInv, SearchHolds, IntervalExact
<1>2. IInv => IntervalExact
  BY <1>1
<1> QED BY <1>2, Invariant, PTL

\* WalkExact: the walk of locateRow stays with the row it is to locate, and
\* meets a sampled row in fewer steps than the sampling rate.
THEOREM WalkCorrect == ASSUME ThrowsEarly PROVE Spec => []WalkExact
<1>1. ASSUME IInv, pc = "walk" PROVE sa[row] + steps = sa[i] /\ steps < fm.sa_sample_rate_
  <2>1. /\ Valid(fm) /\ pc \notin BuildPcs /\ i \in 0..M(fm) /\ hi \in 0..M(fm) /\ i < hi
        /\ steps \in Nat /\ sa[row] + steps = sa[i] /\ steps <= sa[i] % fm.sa_sample_rate_
    BY <1>1 DEF IInv, SearchHolds, BuildPcs, LatePcs
  <2>2. i \in 0..fm.text_len_
    BY <1>1, <2>1 DEF IInv, ObjectHolds, M
  <2>3. Serves(fm, t, sa) /\ Sampled(fm, sa)
    BY <1>1, <2>1, ValidServes
  <2>4. sa[i] \in Nat /\ fm.sa_sample_rate_ \in Nat \ {0}
    <3>1. sa \in [0..fm.text_len_ -> 0..fm.text_len_]
      BY <2>3 DEF Serves, Sorted
    <3>2. fm.sa_sample_rate_ \in Nat \ {0}
      BY <2>3 DEF Sampled
    <3> QED BY <2>2, <3>1, <3>2
  <2>5. PICK a \in Nat, rate \in Nat \ {0} : a = sa[i] /\ rate = fm.sa_sample_rate_
    BY <2>4
  <2>6. a % rate \in 0..(rate - 1)
    BY Remainder
  <2>7. steps < rate
    BY <2>1, <2>5, <2>6
  <2> QED BY <2>1, <2>5, <2>7
<1>2. IInv => WalkExact
  BY <1>1 DEF WalkExact
<1> QED BY <1>2, Invariant, PTL

\* LFExact: between the calls, LF takes every row to the row of the preceding
\* text position.
THEOREM LFCorrect == ASSUME ThrowsEarly PROVE Spec => []LFExact
<1>1. ASSUME IInv, Valid(fm), pc = "idle", NEW r \in DOMAIN sa
      PROVE  /\ LF(fm, r) \in DOMAIN sa
             /\ sa[LF(fm, r)] = IF sa[r] = 0 THEN fm.text_len_ ELSE sa[r] - 1
  <2>1. Serves(fm, t, sa)
    BY <1>1, ValidServes DEF BuildPcs, LatePcs
  <2>2. DOMAIN sa = 0..fm.text_len_
    BY <2>1 DEF Serves, Sorted
  <2>3. LF(fm, r) \in 0..fm.text_len_ /\ sa[LF(fm, r)] = Prev(sa[r], fm.text_len_)
    BY <2>1, <2>2, LFBack
  <2> QED BY <2>2, <2>3 DEF Prev
<1>2. IInv => LFExact
  BY <1>1 DEF LFExact
<1> QED BY <1>2, Invariant, PTL

-----------------------------------------------------------------------------
(***************************************************************************)
(* Extract.  The anchor table is made once and kept: it is that of the     *)
(* object only if no Build follows it.                                     *)
(***************************************************************************)
NoRebuildAfterAnchor == RebuildAnytime = FALSE

\* The anchor table of the object: the row of every sampled position.
Anchored ==
    LET rate == fm.sa_sample_rate_ IN
    /\ fm.isa_sample_ \in [0..(fm.text_len_ \div rate) -> 0..fm.text_len_]
    /\ \A s \in 0..(fm.text_len_ \div rate) : sa[fm.isa_sample_[s]] = s * rate

Locals == /\ lo \in 0..M(fm) /\ hi \in 0..M(fm) /\ k \in Nat
          /\ i \in 0..M(fm) /\ row \in 0..M(fm) /\ steps \in 0..M(fm)

\* The walk of Extract stands on the row of position steps, has not passed
\* the range by more than the rate, and has written what lies behind it.
Extracting ==
    /\ Valid(fm)
    /\ lo <= hi /\ hi <= fm.text_len_
    /\ row \in 0..fm.text_len_ /\ sa[row] = steps
    /\ steps < hi + fm.sa_sample_rate_
    /\ DOMAIN out = 1..(hi - lo)
    /\ \A pos \in lo..(hi - 1) : pos >= steps => out[pos - lo + 1] = fm.id_to_byte_[t[pos]]

ExtractHolds ==
    /\ pc \in BuildPcs \/ corpus = <<>> => fm.isa_sample_ = NoIsa
    /\ pc \notin BuildPcs /\ Valid(fm) /\ fm.isa_sample_ # NoIsa => Anchored
    /\ pc \in {"entry", "extract"} => req[1].op = "Extract"
    /\ pc = "extract" => Extracting
    /\ Locals

\* The suffix of the sentinel alone comes first.
LEMMA SentinelRow ==
    ASSUME NEW o, NEW u, NEW a, Serves(o, u, a)
    PROVE  a[0] = o.text_len_
<1> DEFINE n == o.text_len_
           sigma == o.sigma_
<1>1. Ended(u, n, sigma) /\ Sorted(u, n, a)
  BY DEF Serves
<1> HIDE DEF n, sigma
<1>2. /\ n \in Nat /\ u \in [0..n -> 0..(sigma - 1)] /\ sigma \in Nat
      /\ \A p \in 0..n : u[p] = 0 <=> p = n
      /\ a \in [0..n -> 0..n]
      /\ \A r, x \in 0..n : r < x <=> SuffixLess(u, a[r], a[x])
  BY <1>1 DEF Ended, Sorted
<1>3. PICK r \in 0..n : a[r] = n
  <2>1. n \in 0..n
    BY <1>2
  <2> QED BY <1>1, <2>1 DEF Sorted
<1>4. 0 \in 0..n
  BY <1>2
<1>5. CASE r = 0
  BY <1>3, <1>5 DEF n
<1>6. CASE r # 0
  <2>1. PICK p \in 0..n : p = a[0]
    BY <1>2, <1>4
  <2>2. n \in 0..n /\ 0 < r
    BY <1>2, <1>6
  <2>3. SuffixLess(u, p, n)
    BY <1>2, <1>3, <1>4, <2>1, <2>2
  <2>4. u[p] <= u[n]
    BY <1>1, <2>2, <2>3, SuffixStep
  <2>5. u[p] \in Nat /\ u[n] = 0
    BY <1>2, <2>2
  <2>6. p = n
    BY <1>2, <2>4, <2>5
  <2> QED BY <2>1, <2>6 DEF n
<1> QED BY <1>5, <1>6

\* A slot of the anchor table stands for a position of the text.
LEMMA SlotPosition ==
    ASSUME NEW n \in Nat, NEW rate \in Nat \ {0}, NEW s \in Nat
    PROVE  /\ s * rate \in Nat
           /\ s <= n \div rate <=> s * rate <= n
           /\ (s * rate) % rate = 0
           /\ \A p \in Nat : p % rate = 0 /\ p \div rate = s => p = s * rate
<1>1. s * rate \in Nat
  OBVIOUS
<1>2. n \div rate \in Nat /\ (n \div rate) * rate <= n /\ n < (n \div rate) * rate + rate
  BY DivMod
<1> DEFINE q == n \div rate
<1> HIDE DEF q
<1>3. q \in Nat /\ q * rate <= n /\ n < q * rate + rate /\ q * rate \in Nat
  BY <1>2 DEF q
<1>4. ASSUME s <= q PROVE s * rate <= n
  <2>1. s * rate <= q * rate
    BY <1>3, <1>4, MulMono
  <2> QED BY <1>1, <1>3, <2>1
<1>5. ASSUME s > q PROVE s * rate > n
  <2>1. (q + 1) * rate <= s * rate
    BY <1>3, <1>5, MulMono
  <2>2. (q + 1) * rate = q * rate + rate
    BY <1>3
  <2> QED BY <1>1, <1>3, <2>1, <2>2
<1>6. s <= q <=> s * rate <= n
  BY <1>1, <1>3, <1>4, <1>5
<1>7. (s * rate) % rate = 0
  OBVIOUS
<1>8. ASSUME NEW p \in Nat, p % rate = 0, p \div rate = s PROVE p = s * rate
  BY <1>8, DivMod
<1> QED BY <1>1, <1>6, <1>7, <1>8 DEF q

\* ensureIsaSample finds the row of every sampled position.
LEMMA IsaSampleExact ==
    ASSUME Serves(fm, t, sa), Sampled(fm, sa)
    PROVE  LET n == fm.text_len_
               rate == fm.sa_sample_rate_ IN
           /\ IsaSample \in [0..(n \div rate) -> 0..n]
           /\ \A s \in 0..(n \div rate) : sa[IsaSample[s]] = s * rate
<1> DEFINE n == fm.text_len_
           rate == fm.sa_sample_rate_
           R(s) == {r \in fm.sampled_bv_ : SampleVal(fm, r) \div rate = s}
           anchor(s) == IF R(s) = {} THEN 0 ELSE CHOOSE r \in R(s) : \A x \in R(s) : x <= r
<1>1. IsaSample = [s \in 0..(n \div rate) |-> anchor(s)]
  BY DEF IsaSample
<1>2. /\ n \in Nat /\ rate \in Nat \ {0} /\ sa \in [0..n -> 0..n]
      /\ \A p \in 0..n : \E r \in 0..n : sa[r] = p
      /\ \A r, x \in 0..n : sa[r] = sa[x] => r = x
  BY DEF Serves, Ended, Sorted, Sampled
<1>3. \A r \in 0..n : /\ r \in fm.sampled_bv_ <=> sa[r] % rate = 0
                      /\ r \in fm.sampled_bv_ => SampleVal(fm, r) = sa[r]
  BY SampleIsPosition
<1>4. fm.sampled_bv_ \subseteq 0..n
  BY <1>2 DEF Sampled, SampledRows
<1>5. n \div rate \in Nat
  BY <1>2, DivMod
<1> HIDE DEF n, rate
<1>6. ASSUME NEW s \in 0..(n \div rate) PROVE anchor(s) \in 0..n /\ sa[anchor(s)] = s * rate
  <2>1. s \in Nat /\ s <= n \div rate
    BY <1>5
  <2>2. /\ s * rate \in Nat /\ s * rate <= n /\ (s * rate) % rate = 0
        /\ \A p \in Nat : p % rate = 0 /\ p \div rate = s => p = s * rate
    BY <1>2, <2>1, SlotPosition
  <2>3. (s * rate) \div rate = s
    BY <1>2, <2>1
  <2> DEFINE p == s * rate
  <2> HIDE DEF p
  <2>4. p \in 0..n /\ p % rate = 0 /\ p \div rate = s
    <3>1. p \in Nat /\ p <= n
      BY <2>2 DEF p
    <3>2. p % rate = 0 /\ p \div rate = s
      BY <2>2, <2>3 DEF p
    <3> QED BY <1>2, <3>1, <3>2
  <2>5. PICK r \in 0..n : sa[r] = p
    BY <1>2, <2>4
  <2>6. r \in R(s)
    BY <1>3, <2>4, <2>5
  <2>7. ASSUME NEW x \in R(s) PROVE x = r
    <3>1. x \in 0..n /\ sa[x] % rate = 0 /\ sa[x] \div rate = s
      BY <1>3, <1>4
    <3>2. sa[x] \in Nat
      BY <1>2, <3>1
    <3>3. sa[x] = p
      BY <2>2, <3>1, <3>2 DEF p
    <3> QED BY <1>2, <2>5, <3>1, <3>3
  <2> HIDE DEF R
  <2>8. R(s) # {}
    BY <2>6
  <2>9. \E y \in R(s) : \A x \in R(s) : x <= y
    BY <2>6, <2>7
  <2>10. anchor(s) \in R(s)
    BY <2>8, <2>9
  <2> QED BY <2>5, <2>7, <2>10 DEF p
<1> HIDE DEF anchor
<1>7. /\ IsaSample \in [0..(n \div rate) -> 0..n]
      /\ \A s \in 0..(n \div rate) : sa[IsaSample[s]] = s * rate
  BY <1>1, <1>6
<1> QED BY <1>7 DEF n, rate

\* The anchor of a range lies at or behind its end, closer than the rate.
LEMMA AnchorFacts ==
    ASSUME NEW n \in Nat, NEW rate \in Nat \ {0}, NEW end \in 0..n
    PROVE  LET s == AnchorSlot(end, rate) IN
           /\ s \in Nat
           /\ s <= n \div rate => /\ s * rate \in 0..n
                                  /\ end <= s * rate /\ s * rate < end + rate
           /\ s > n \div rate => n < end + rate
<1> DEFINE s == AnchorSlot(end, rate)
<1>1. /\ s \in Nat /\ end <= s * rate
      /\ s * rate <= end + (rate - 1)
  <2>1. s \in Nat /\ end <= s * rate
    BY CeilDiv DEF AnchorSlot
  <2>2. end + (rate - 1) \in Nat
    OBVIOUS
  <2>3. s * rate <= end + (rate - 1)
    BY <2>2, DivMod DEF AnchorSlot
  <2> QED BY <2>1, <2>3
<1> HIDE DEF s
<1>2. s * rate \in Nat /\ (s <= n \div rate <=> s * rate <= n)
  BY <1>1, SlotPosition
<1>3. n \div rate \in Nat
  BY DivMod
<1>4. s <= n \div rate => s * rate \in 0..n /\ end <= s * rate /\ s * rate < end + rate
  BY <1>1, <1>2
<1>5. s > n \div rate => n < end + rate
  BY <1>1, <1>2, <1>3
<1> QED BY <1>1, <1>4, <1>5 DEF s

\* A range from x + off, clamped to end before y.
LEMMA Clamp ==
    ASSUME NEW x \in Nat, NEW y \in Nat, NEW z \in Nat, y <= z,
           NEW off \in Nat, NEW len \in Nat, off < (y - 1) - x
    PROVE  LET avail == ((y - 1) - x) - off
               pos == x + off
               end == pos + (IF len < avail THEN len ELSE avail) IN
           pos \in Nat /\ end \in Nat /\ pos <= end /\ end <= z
  OBVIOUS

\* A range clamped to its document lies in the text.
LEMMA RangeFacts ==
    ASSUME NEW docs \in Seq(Seq(Bytes)), NEW d \in 0..(Len(docs) - 1),
           NEW off \in Nat, NEW len \in Nat,
           off < (DocBounds(docs)[d + 1] - 1) - DocBounds(docs)[d]
    PROVE  LET B == DocBounds(docs)
               avail == ((B[d + 1] - 1) - B[d]) - off
               pos == B[d] + off
               end == pos + (IF len < avail THEN len ELSE avail) IN
           pos \in Nat /\ end \in Nat /\ pos <= end /\ end <= B[Len(docs)]
<1> DEFINE B == DocBounds(docs)
           D == Len(docs)
<1>1. /\ B \in [0..D -> Nat] /\ D \in Nat
      /\ \A x, y \in 0..D : x < y => B[x] < B[y]
      /\ d \in 0..(D - 1)
  BY BoundsFacts
<1>2. off < (B[d + 1] - 1) - B[d]
  OBVIOUS
<1> HIDE DEF B, D
<1>3. d \in 0..D /\ d + 1 \in 0..D /\ D \in 0..D
  BY <1>1
<1>4. B[d] \in Nat /\ B[d + 1] \in Nat /\ B[D] \in Nat /\ B[d + 1] <= B[D]
  <2>1. d + 1 = D \/ d + 1 < D
    BY <1>1
  <2> QED BY <1>1, <1>3, <2>1
<1> DEFINE avail == ((B[d + 1] - 1) - B[d]) - off
           pos == B[d] + off
           end == pos + (IF len < avail THEN len ELSE avail)
<1>5. pos \in Nat /\ end \in Nat /\ pos <= end /\ end <= B[D]
  <2>1. PICK x \in Nat, y \in Nat, z \in Nat : x = B[d] /\ y = B[d + 1] /\ z = B[D]
    BY <1>4
  <2>2. y <= z /\ off < (y - 1) - x
    BY <1>2, <1>4, <2>1
  <2> QED BY <2>1, <2>2, Clamp
<1> QED BY <1>5 DEF B, D

\* Nothing is kept between the calls.
LEMMA RestLocals == ObjectHolds /\ AtRest => Locals
<1> SUFFICES ASSUME ObjectHolds, AtRest PROVE Locals
  OBVIOUS
<1>1. M(fm) \in Nat
  BY DEF ObjectHolds, M
<1> QED BY <1>1 DEF AtRest, Locals

\* Build starts without an anchor table and makes none.
LEMMA BuildExtract ==
    ASSUME ThrowsEarly, NoRebuildAfterAnchor, IInv, IInv', ExtractHolds, BuildCall \/ BuildStep
    PROVE  ExtractHolds'
<1>1. fm.isa_sample_ = NoIsa
  <2>1. CASE BuildCall
    BY <2>1 DEF BuildCall, ExtractHolds, NoRebuildAfterAnchor
  <2>2. CASE BuildStep
    <3>1. pc \in BuildPcs
      <4>1. CASE BuildThrow
        BY <4>1 DEF BuildThrow, ThrowsEarly, BuildPcs, LatePcs
      <4> QED BY <2>2, <4>1 DEF BuildStep, BuildLayout, BuildAlphabet, BuildSort, BuildClearSamples,
                    BuildSamples, BuildBitmap, BuildCTable, BuildWavelet, BuildGroups,
                    BuildDerived, BuildPcs, LatePcs
    <3> QED BY <3>1 DEF ExtractHolds
  <2> QED BY <2>1, <2>2
<1>2. fm'.isa_sample_ = fm.isa_sample_
  BY DEF BuildCall, BuildStep, BuildLayout, BuildAlphabet, BuildSort, BuildClearSamples,
         BuildSamples, BuildBitmap, BuildCTable, BuildWavelet, BuildGroups, BuildDerived,
         BuildThrow, Views, IInv, ObjectHolds, Shaped
<1>3. pc' \in BuildPcs \cup {"idle"}
  BY DEF BuildCall, BuildStep, BuildLayout, BuildAlphabet, BuildSort, BuildClearSamples,
         BuildSamples, BuildBitmap, BuildCTable, BuildWavelet, BuildGroups, BuildDerived,
         BuildThrow, BuildPcs, LatePcs
<1>4. AtRest' /\ ObjectHolds'
  BY <1>3 DEF IInv, BuildHolds, SearchHolds
<1>5. Locals'
  BY <1>4, RestLocals, PTL
<1> QED BY <1>1, <1>2, <1>3, <1>5 DEF ExtractHolds, BuildPcs, LatePcs

\* A step of a query that leaves the object alone keeps the anchor table.
LEMMA TableKept ==
    ASSUME ExtractHolds, UNCHANGED <<fm, build>>, pc \notin BuildPcs, pc' \notin BuildPcs,
           pc' \in {"entry", "extract"} => (req[1].op = "Extract")',
           pc' = "extract" => Extracting',
           Locals'
    PROVE  ExtractHolds'
<1>1. Valid(fm)' /\ fm'.isa_sample_ # NoIsa => Anchored'
  BY DEF ExtractHolds, Valid, Anchored, build
<1> QED BY <1>1 DEF ExtractHolds, build

\* The search and the walk keep their locals in range, and Extract's are
\* as they were.
LEMMA SearchExtract ==
    ASSUME IInv, IInv', ExtractHolds,
           \/ SearchStep \/ CountInterval \/ LocateInterval \/ StartRow \/ WalkStep
           \/ WalkEnd \/ LocateEnd
    PROVE  ExtractHolds'
<1>1. /\ UNCHANGED <<fm, build, req>>
      /\ pc \in {"search", "interval", "rows", "walk"}
      /\ pc' \in {"search", "interval", "rows", "walk", "done"}
  BY DEF SearchStep, CountInterval, LocateInterval, StartRow, WalkStep, WalkEnd, LocateEnd, Respond
<1>2. M(fm)' = M(fm) /\ M(fm) = fm.text_len_ + 1 /\ fm.text_len_ \in Nat
  BY <1>1 DEF M, IInv, ObjectHolds
<1>3. /\ req # <<>> /\ req[1] \in Requests /\ req[1].op # "Extract" /\ Len(req[1].p) \in Nat
  <2>1. req[1] \in Requests /\ req[1].op # "Extract" /\ req # <<>>
    BY <1>1 DEF IInv, SearchHolds, QueryPcs
  <2>2. req[1].p \in Seq(Bytes)
    BY <2>1, CallAssumption
  <2> QED BY <2>1, <2>2
<1>4. Locals
  BY DEF ExtractHolds
<1>5. Locals'
  <2>1. CASE CountInterval \/ LocateEnd
    BY <1>1, <1>4, <2>1 DEF CountInterval, LocateEnd, Locals, M
  <2>2. CASE SearchStep
    <3>1. pc' \in {"search", "interval"} /\ UNCHANGED <<i, row, steps>>
      BY <2>2 DEF SearchStep
    <3>2. lo' \in 0..M(fm) /\ hi' \in 0..M(fm)
      BY <1>2, <3>1 DEF IInv, SearchHolds
    <3>3. k' \in Nat
      <4>1. pc' = "search" => k' \in 1..Len(req'[1].p)
        BY DEF IInv, SearchHolds
      <4>2. pc' = "interval" => k' \in 0..Len(req'[1].p)
        BY DEF IInv, SearchHolds
      <4> QED BY <1>1, <1>3, <3>1, <4>1, <4>2
    <3> QED BY <1>2, <1>4, <3>1, <3>2, <3>3 DEF Locals
  <2>3. CASE LocateInterval
    <3>1. pc' = "rows" /\ UNCHANGED <<k, row, steps>>
      BY <2>3 DEF LocateInterval
    <3>2. lo' \in 0..M(fm) /\ hi' \in 0..M(fm) /\ i' \in 0..M(fm)
      BY <1>2, <3>1 DEF IInv, SearchHolds
    <3> QED BY <1>2, <1>4, <3>1, <3>2 DEF Locals
  <2>4. CASE StartRow
    <3>1. row' = i /\ steps' = 0 /\ UNCHANGED <<lo, hi, k, i>>
      BY <2>4 DEF StartRow
    <3>2. 0 \in 0..M(fm)
      BY <1>2
    <3> QED BY <1>2, <1>4, <3>1, <3>2 DEF Locals
  <2>5. CASE WalkEnd
    <3>1. pc' = "rows" /\ UNCHANGED <<lo, hi, k, row, steps>>
      BY <2>5 DEF WalkEnd
    <3>2. i' \in 0..M(fm)
      BY <1>2, <3>1 DEF IInv, SearchHolds
    <3> QED BY <1>2, <1>4, <3>1, <3>2 DEF Locals
  <2>6. CASE WalkStep
    <3>1. pc = "walk" /\ pc' = "walk" /\ UNCHANGED <<lo, hi, k, i>>
      BY <2>6 DEF WalkStep
    <3>2. /\ Valid(fm) /\ i \in 0..M(fm) /\ hi \in 0..M(fm) /\ i < hi
      BY <3>1 DEF IInv, SearchHolds
    <3>3. /\ row' \in 0..fm'.text_len_ /\ steps' \in Nat
          /\ sa'[row'] + steps' = sa'[i']
      BY <3>1 DEF IInv, SearchHolds
    <3>4. sa \in [0..fm.text_len_ -> 0..fm.text_len_]
      BY <1>1, <3>1, <3>2, ValidServes DEF Serves, Sorted, BuildPcs, LatePcs
    <3>5. i \in 0..fm.text_len_ /\ row' \in 0..fm.text_len_ /\ sa[row'] + steps' = sa[i]
      BY <1>1, <1>2, <3>1, <3>2, <3>3 DEF build
    <3>6. sa[i] \in 0..fm.text_len_ /\ sa[row'] \in 0..fm.text_len_
      BY <3>4, <3>5
    <3>7. steps' \in 0..M(fm) /\ row' \in 0..M(fm)
      BY <1>2, <3>3, <3>5, <3>6
    <3> QED BY <1>2, <1>4, <3>1, <3>7 DEF Locals
  <2> QED BY <2>1, <2>2, <2>3, <2>4, <2>5, <2>6
<1> QED BY <1>1, <1>5, TableKept DEF BuildPcs, LatePcs

\* A call finds the locals at rest; the answer leaves them; the return clears
\* them.
LEMMA CallExtractHolds ==
    ASSUME IInv, IInv', ExtractHolds,
           \/ \E q \in Requests : CallSearch(q) \/ CallExtract(q)
           \/ ExtractNothing \/ ExtractEnd \/ Return
    PROVE  ExtractHolds'
<1>1. Locals /\ M(fm) \in Nat
  BY DEF ExtractHolds, IInv, ObjectHolds, M
<1>2. ASSUME NEW q \in Requests, CallSearch(q) PROVE ExtractHolds'
  <2>1. /\ pc = "idle" /\ pc' \in {"search", "interval"} /\ k' = Len(q.p) /\ q.op # "Extract"
        /\ UNCHANGED <<fm, build, i, row, steps>>
    BY <1>2 DEF CallSearch
  <2>2. q.p \in Seq(Bytes)
    BY <2>1, CallAssumption
  <2>3. lo' \in 0..M(fm)' /\ hi' \in 0..M(fm)'
    BY <2>1 DEF IInv, SearchHolds
  <2>4. Locals'
    BY <1>1, <2>1, <2>2, <2>3 DEF Locals, M
  <2> QED BY <2>1, <2>4, TableKept DEF BuildPcs, LatePcs
<1>3. ASSUME NEW q \in Requests, CallExtract(q) PROVE ExtractHolds'
  <2>1. /\ pc = "idle" /\ pc' = "entry" /\ req' = <<q>> /\ q.op = "Extract"
        /\ UNCHANGED <<fm, build, lo, hi, k, i, row, steps>>
    BY <1>3 DEF CallExtract
  <2>2. Locals'
    BY <1>1, <2>1 DEF Locals, M
  <2> QED BY <2>1, <2>2, TableKept DEF BuildPcs, LatePcs
<1>4. CASE ExtractNothing \/ ExtractEnd
  <2>1. /\ pc \in {"entry", "extract"} /\ pc' = "done"
        /\ UNCHANGED <<fm, build, lo, hi, k, i, row, steps>>
    BY <1>4 DEF ExtractNothing, ExtractEnd, Respond
  <2>2. Locals'
    BY <1>1, <2>1 DEF Locals, M
  <2> QED BY <2>1, <2>2, TableKept DEF BuildPcs, LatePcs
<1>5. CASE Return
  <2>1. pc = "done" /\ pc' = "idle" /\ AtRest' /\ UNCHANGED <<fm, build>>
    BY <1>5 DEF Return, AtRest
  <2>2. ObjectHolds'
    BY DEF IInv
  <2>3. Locals'
    BY <2>1, <2>2, RestLocals, PTL
  <2> QED BY <2>1, <2>3, TableKept DEF BuildPcs, LatePcs
<1> QED BY <1>2, <1>3, <1>4, <1>5

\* ensureIsaSample leaves the table of the object, whether it was made before
\* or is made now.
LEMMA AnchorTable ==
    ASSUME IInv, ExtractHolds, pc \notin BuildPcs, Valid(fm)
    PROVE  LET n == fm.text_len_
               rate == fm.sa_sample_rate_ IN
           /\ EnsureIsaSample \in [0..(n \div rate) -> 0..n]
           /\ \A s \in 0..(n \div rate) : sa[EnsureIsaSample[s]] = s * rate
<1>1. CASE fm.isa_sample_ = NoIsa
  BY <1>1, ValidServes, IsaSampleExact DEF EnsureIsaSample
<1>2. CASE fm.isa_sample_ # NoIsa
  BY <1>2 DEF ExtractHolds, Anchored, EnsureIsaSample
<1> QED BY <1>1, <1>2

\* The walk starts on the row of its anchor.
LEMMA ExtractAnchorHolds ==
    ASSUME IInv, IInv', ExtractHolds, ExtractAnchor
    PROVE  ExtractHolds'
<1> DEFINE n == fm.text_len_
           rate == fm.sa_sample_rate_
           isa == EnsureIsaSample
           q == req[1]
           B == fm.doc_start_
           dlen == (B[q.doc + 1] - 1) - B[q.doc]
           avail == dlen - q.off
           pos == B[q.doc] + q.off
           end == pos + (IF q.len < avail THEN q.len ELSE avail)
           s == AnchorSlot(end, rate)
<1>1. /\ pc = "entry" /\ pc' \in {"stray", "done", "extract"} /\ Valid(fm)
      /\ UNCHANGED <<build, req, k, i>> /\ fm' = [fm EXCEPT !.isa_sample_ = isa]
  BY DEF ExtractAnchor, Respond
<1>2. /\ pc \notin BuildPcs /\ pc' \notin BuildPcs /\ pc \in QueryPcs
      /\ req[1].op = "Extract" /\ req[1] \in Requests /\ Shaped(fm) /\ Locals
      /\ corpus' # <<>>
  BY <1>1 DEF BuildPcs, LatePcs, QueryPcs, ExtractHolds, IInv, SearchHolds, ObjectHolds, build
<1>3. /\ fm'.isa_sample_ = isa /\ fm'.text_len_ = n /\ fm'.sa_sample_rate_ = rate
      /\ fm'.c_ = fm.c_ /\ fm'.id_to_byte_ = fm.id_to_byte_
  BY <1>1, <1>2 DEF Shaped
<1>4. /\ isa \in [0..(n \div rate) -> 0..n]
      /\ \A x \in 0..(n \div rate) : sa[isa[x]] = x * rate
  BY <1>1, <1>2, AnchorTable
<1>5. Anchored'
  BY <1>1, <1>3, <1>4 DEF Anchored, build
<1>6. M(fm)' = M(fm) /\ M(fm) = n + 1 /\ n \in Nat
  BY <1>3 DEF M, IInv, ObjectHolds
<1>7. CASE pc' # "extract"
  <2>1. UNCHANGED <<lo, hi, row, steps>>
    BY <1>7 DEF ExtractAnchor
  <2>2. Locals'
    BY <1>1, <1>2, <1>6, <2>1 DEF Locals
  <2> QED BY <1>1, <1>2, <1>5, <1>7, <2>2 DEF ExtractHolds
<1>8. CASE pc' = "extract"
  <2>1. /\ {q.doc, q.doc + 1} \subseteq DOMAIN B
        /\ ~(q.off >= dlen)
        /\ lo' = pos /\ hi' = end
        /\ row' = (IF s \in DOMAIN isa THEN isa[s] ELSE 0)
        /\ steps' = (IF s \in DOMAIN isa THEN s * rate ELSE n)
        /\ out' = [j \in 1..(end - pos) |-> 0]
    BY <1>8 DEF ExtractAnchor, Respond
  <2>2. /\ Serves(fm, t, sa) /\ Sampled(fm, sa)
        /\ Arguments(corpus[1])
        /\ B = DocBounds(corpus[1].docs)
        /\ n = DocBounds(corpus[1].docs)[Len(corpus[1].docs)]
    BY <1>1, <1>2, ValidServes
  <2>3. q.doc \in Nat /\ q.off \in Nat /\ q.len \in Nat
    BY <1>2, CallAssumption
  <2>4. rate \in Nat \ {0}
    BY <2>2 DEF Sampled
  <2>5. pos \in Nat /\ end \in Nat /\ pos <= end /\ end <= n
    <3>1. PICK docs \in Seq(Seq(Bytes)) : docs = corpus[1].docs
      BY <2>2 DEF Arguments
    <3>2. DOMAIN DocBounds(docs) = 0..Len(docs) /\ Len(docs) \in Nat
      BY BoundsFacts
    <3>3. PICK d \in 0..(Len(docs) - 1) : d = q.doc
      <4>1. PICK e \in Nat : e = q.doc
        BY <2>3
      <4>2. DOMAIN B = 0..Len(docs)
        BY <2>2, <3>1, <3>2
      <4>3. e + 1 \in 0..Len(docs)
        BY <2>1, <4>1, <4>2
      <4>4. e \in 0..(Len(docs) - 1)
        BY <3>2, <4>3
      <4> QED BY <4>1, <4>4
    <3>4. PICK off \in Nat, len \in Nat : off = q.off /\ len = q.len
      BY <2>3
    <3> DEFINE C == DocBounds(docs)
               av == ((C[d + 1] - 1) - C[d]) - off
               ps == C[d] + off
    <3>5. off < (C[d + 1] - 1) - C[d]
      <4>1. C[d + 1] \in Nat /\ C[d] \in Nat
        <5>1. C \in [0..Len(docs) -> Nat]
          BY BoundsFacts
        <5>2. d \in 0..Len(docs) /\ d + 1 \in 0..Len(docs)
          BY <3>2
        <5> QED BY <5>1, <5>2
      <4>2. ~(off >= (C[d + 1] - 1) - C[d])
        BY <2>1, <2>2, <3>1, <3>3, <3>4
      <4> HIDE DEF C
      <4> QED BY <4>1, <4>2
    <3>6. LET en == ps + (IF len < av THEN len ELSE av) IN
          ps \in Nat /\ en \in Nat /\ ps <= en /\ en <= C[Len(docs)]
      BY <3>5, RangeFacts
    <3> QED BY <2>2, <3>1, <3>3, <3>4, <3>6
  <2>6. sa[0] = n
    BY <2>2, SentinelRow
  <2> HIDE DEF s, end, pos
  <2>7. /\ s \in Nat
        /\ s <= n \div rate => s * rate \in 0..n /\ end <= s * rate /\ s * rate < end + rate
        /\ s > n \div rate => n < end + rate
    <3>1. end \in 0..n
      BY <1>6, <2>5
    <3> QED BY <1>6, <2>4, <3>1, AnchorFacts DEF s
  <2>8. end <= steps' /\ steps' \in 0..n /\ steps' < end + rate /\ row' \in 0..n /\ sa[row'] = steps'
    <3>1. n \div rate \in Nat
      BY <1>6, <2>4, DivMod
    <3>2. s \in DOMAIN isa <=> s <= n \div rate
      BY <1>4, <2>7, <3>1
    <3>3. CASE s <= n \div rate
      <4>1. s \in 0..(n \div rate)
        BY <2>7, <3>1, <3>3
      <4>2. isa[s] \in 0..n /\ sa[isa[s]] = s * rate
        BY <1>4, <4>1
      <4> QED BY <2>1, <2>7, <3>2, <3>3, <4>2
    <3>4. CASE ~(s <= n \div rate)
      <4>1. s > n \div rate
        BY <2>7, <3>1, <3>4
      <4>2. row' = 0 /\ steps' = n
        BY <2>1, <3>2, <3>4
      <4> QED BY <1>6, <2>5, <2>6, <2>7, <4>1, <4>2
    <3> QED BY <3>3, <3>4
  <2>9. Extracting'
    <3>1. /\ Valid(fm)' /\ (sa' = sa)
      BY <1>1, <1>3 DEF Valid, build
    <3>2. DOMAIN out' = 1..(hi' - lo')
      BY <2>1
    <3>3. \A x \in lo'..(hi' - 1) : ~(x >= steps')
      BY <2>1, <2>5, <2>8, <1>6
    <3>4. lo' <= hi' /\ hi' <= n /\ steps' < hi' + rate
      BY <2>1, <2>5, <2>8
    <3> HIDE DEF n, rate
    <3>5. fm'.text_len_ = n /\ fm'.sa_sample_rate_ = rate
      BY <1>3
    <3> QED BY <2>8, <3>1, <3>2, <3>3, <3>4, <3>5 DEF Extracting
  <2>10. Locals'
    BY <1>1, <1>2, <1>6, <2>1, <2>5, <2>8 DEF Locals
  <2> QED BY <1>1, <1>2, <1>5, <1>8, <2>9, <2>10 DEF ExtractHolds
<1> QED BY <1>7, <1>8

\* A step of the walk writes the byte before its position, if that is in the
\* range, and goes one position back.
LEMMA ExtractStepHolds ==
    ASSUME IInv, IInv', ExtractHolds, ExtractStep
    PROVE  ExtractHolds'
<1> DEFINE n == fm.text_len_
           byte(x) == fm.id_to_byte_[x]
<1>1. /\ pc = "extract" /\ pc' = "extract" /\ steps > lo
      /\ out' = (IF steps - 1 < hi
                   THEN [out EXCEPT ![steps - lo] = byte(fm.wm_[row])] ELSE out)
      /\ row' = LF(fm, row) /\ steps' = steps - 1
      /\ UNCHANGED <<fm, build, req, lo, hi, k, i>>
  BY DEF ExtractStep
<1>2. /\ pc \notin BuildPcs /\ pc' \notin BuildPcs /\ Locals
      /\ Valid(fm) /\ lo <= hi /\ hi <= n
      /\ row \in 0..n /\ sa[row] = steps
      /\ steps < hi + fm.sa_sample_rate_
      /\ DOMAIN out = 1..(hi - lo)
      /\ \A pos \in lo..(hi - 1) : pos >= steps => out[pos - lo + 1] = byte(t[pos])
      /\ req[1].op = "Extract"
  BY <1>1 DEF ExtractHolds, Extracting, BuildPcs, LatePcs
<1>3. M(fm)' = M(fm) /\ M(fm) = n + 1 /\ n \in Nat /\ lo \in Nat /\ hi \in Nat /\ steps \in Nat
  BY <1>1, <1>2 DEF M, IInv, ObjectHolds, Locals
<1>4. Serves(fm, t, sa) /\ Sampled(fm, sa)
  BY <1>1, <1>2, ValidServes
<1>5. /\ row' \in 0..n /\ sa[row'] = Prev(sa[row], n)
      /\ fm.wm_[row] = IF sa[row] = 0 THEN 0 ELSE t[sa[row] - 1]
      /\ fm.sa_sample_rate_ \in Nat
  <2>1. LF(fm, row) \in 0..n /\ sa[LF(fm, row)] = Prev(sa[row], n)
    BY <1>2, <1>4, LFBack
  <2>2. DOMAIN sa = 0..n /\ fm.wm_ = Bwt(t, sa)
    BY <1>4 DEF Serves, Sorted
  <2> QED BY <1>1, <1>2, <1>4, <2>1, <2>2 DEF Bwt, Sampled
<1>6. steps # 0 /\ sa[row'] = steps - 1 /\ fm.wm_[row] = t[steps - 1]
  BY <1>1, <1>2, <1>3, <1>5 DEF Prev
<1> HIDE DEF byte, n
<1>7. DOMAIN out' = 1..(hi - lo)
  BY <1>1, <1>2
<1>8. ASSUME NEW pos \in lo..(hi - 1), pos >= steps - 1 PROVE out'[pos - lo + 1] = byte(t[pos])
  <2>1. CASE pos = steps - 1
    <3>1. steps - 1 < hi /\ pos - lo + 1 = steps - lo /\ steps - lo \in 1..(hi - lo)
      BY <1>1, <1>3, <2>1
    <3>2. out'[steps - lo] = byte(fm.wm_[row])
      BY <1>1, <1>2, <3>1
    <3> QED BY <1>6, <2>1, <3>1, <3>2
  <2>2. CASE pos # steps - 1
    <3>1. pos >= steps /\ pos - lo + 1 # steps - lo /\ pos - lo + 1 \in 1..(hi - lo)
      BY <1>3, <1>8, <2>2
    <3>2. out'[pos - lo + 1] = out[pos - lo + 1]
      BY <1>1, <1>2, <3>1
    <3> QED BY <1>2, <3>1, <3>2
  <2> QED BY <2>1, <2>2
<1>9. Extracting'
  <2>1. lo' = lo /\ hi' = hi /\ sa' = sa /\ t' = t /\ fm' = fm /\ steps' = steps - 1
    BY <1>1 DEF build
  <2>2. steps - 1 < hi + fm.sa_sample_rate_
    BY <1>2, <1>3, <1>5
  <2>3. Valid(fm)' = Valid(fm)
    BY <2>1 DEF Valid
  <2> QED BY <1>2, <1>5, <1>6, <1>7, <1>8, <2>1, <2>2, <2>3 DEF Extracting, byte, n
<1>10. Locals'
  <2>1. steps' \in 0..M(fm) /\ row' \in 0..M(fm)
    BY <1>1, <1>2, <1>3, <1>5, <1>6 DEF Locals
  <2> QED BY <1>1, <1>2, <1>3, <2>1 DEF Locals
<1> QED BY <1>1, <1>2, <1>9, <1>10, TableKept

\* Every step keeps the table and the place of the walk.
LEMMA ExtractNext ==
    ASSUME ThrowsEarly, NoRebuildAfterAnchor, IInv, ExtractHolds, [Next]_vars
    PROVE  ExtractHolds'
<1>1. IInv'
  BY NextStep
<1>2. CASE BuildCall \/ BuildStep
  BY <1>1, <1>2, BuildExtract
<1>3. CASE \/ \E q \in Requests : CallSearch(q) \/ CallExtract(q)
           \/ ExtractNothing \/ ExtractEnd \/ Return
  BY <1>1, <1>3, CallExtractHolds
<1>4. CASE \/ SearchStep \/ CountInterval \/ LocateInterval \/ StartRow \/ WalkStep
           \/ WalkEnd \/ LocateEnd
  BY <1>1, <1>4, SearchExtract
<1>5. CASE ExtractAnchor
  BY <1>1, <1>5, ExtractAnchorHolds
<1>6. CASE ExtractStep
  BY <1>1, <1>6, ExtractStepHolds
<1>7. CASE UNCHANGED vars
  BY <1>7 DEF ExtractHolds, vars, build, query, Locals, M, Valid, Anchored, Extracting
<1> QED BY <1>2, <1>3, <1>4, <1>5, <1>6, <1>7 DEF Next, QueryStep

\* The second invariant.
THEOREM ExtractInvariant ==
    ASSUME ThrowsEarly, NoRebuildAfterAnchor
    PROVE  Spec => [](IInv /\ ExtractHolds)
<1>1. Init => IInv /\ ExtractHolds
  <2> SUFFICES ASSUME Init PROVE IInv /\ ExtractHolds
    OBVIOUS
  <2>1. IInv
    BY InitInv
  <2>2. pc = "idle" /\ AtRest /\ ~ Valid(fm) /\ fm.isa_sample_ = NoIsa
    BY DEF Init, AtRest, Fresh, Valid
  <2>3. Locals
    BY <2>1, <2>2, RestLocals DEF IInv
  <2> QED BY <2>1, <2>2, <2>3 DEF ExtractHolds, BuildPcs, LatePcs
<1>2. IInv /\ ExtractHolds /\ [Next]_vars => (IInv /\ ExtractHolds)'
  BY NextStep, ExtractNext
<1> QED BY <1>1, <1>2, PTL DEF Spec

\* TypeOK: the locals of every query stay in the range of the rows.
THEOREM TypeCorrect ==
    ASSUME ThrowsEarly, NoRebuildAfterAnchor PROVE Spec => []TypeOK
<1>1. ASSUME IInv, ExtractHolds PROVE TypeOK
  <2>1. pc \in {"idle"} \cup BuildPcs \cup QueryPcs /\ Locals
    BY <1>1 DEF IInv, ExtractHolds
  <2>2. req # <<>> => req[1] \in Requests
    BY <1>1, <2>1 DEF IInv, BuildHolds, SearchHolds, AtRest
  <2> QED BY <2>1, <2>2 DEF TypeOK, Locals, BuildPcs, LatePcs, QueryPcs
<1>2. IInv /\ ExtractHolds => TypeOK
  BY <1>1
<1> QED BY <1>2, ExtractInvariant, PTL

\* IsaFresh: an anchor table that is kept is that of the object.
THEOREM IsaFreshCorrect ==
    ASSUME ThrowsEarly, NoRebuildAfterAnchor PROVE Spec => []IsaFresh
<1>1. ASSUME IInv, ExtractHolds, arg = <<>>, Valid(fm), fm.isa_sample_ # NoIsa
      PROVE  /\ DOMAIN fm.isa_sample_ = 0..(fm.text_len_ \div fm.sa_sample_rate_)
             /\ \A s \in DOMAIN fm.isa_sample_ :
                  /\ fm.isa_sample_[s] \in DOMAIN sa
                  /\ sa[fm.isa_sample_[s]] = s * fm.sa_sample_rate_
  <2>1. pc \notin BuildPcs
    BY <1>1 DEF IInv, BuildHolds
  <2>2. Anchored
    BY <1>1, <2>1 DEF ExtractHolds
  <2>3. DOMAIN sa = 0..fm.text_len_
    BY <1>1, <2>1, ValidServes DEF Serves, Sorted
  <2> QED BY <2>2, <2>3 DEF Anchored
<1>2. IInv /\ ExtractHolds => IsaFresh
  BY <1>1 DEF IsaFresh
<1> QED BY <1>2, ExtractInvariant, PTL

\* ExtractExact: the walk of Extract stands on the row of its text position,
\* and the bytes from there on are written.
THEOREM ExtractCorrect ==
    ASSUME ThrowsEarly, NoRebuildAfterAnchor PROVE Spec => []ExtractExact
<1>1. IInv /\ ExtractHolds => ExtractExact
  BY DEF ExtractHolds, Extracting, ExtractExact
<1> QED BY <1>1, ExtractInvariant, PTL

-----------------------------------------------------------------------------
(***************************************************************************)
(* What the documents themselves say, in the terms of the index.           *)
(***************************************************************************)

\* The number of positions is the length of the text and the sentinel.
LEMMA PositionsOf ==
    ASSUME NEW c, Arguments(c)
    PROVE  Abstract!Positions(c) = DocBounds(c.docs)[Len(c.docs)] + 1
<1> DEFINE docs == c.docs
           D == Len(docs)
           B == DocBounds(docs)
           Eq(f) == f = [d \in 0..D |-> IF d = 0 THEN 1 ELSE f[d - 1] + Len(docs[(d - 1) + 1]) + 1]
           g == [d \in 0..D |-> B[d] + 1]
<1>1. docs \in Seq(Seq(Bytes)) /\ D \in Nat
  BY DEF Arguments
<1>2. /\ B \in [0..D -> Nat] /\ B[0] = 0
      /\ \A d \in 1..D : B[d] = B[d - 1] + Len(docs[d]) + 1
  BY <1>1, BoundsFacts
<1> HIDE DEF B, docs
<1>3. Eq(g)
  <2> SUFFICES ASSUME NEW d \in 0..D
               PROVE  B[d] + 1 = IF d = 0 THEN 1 ELSE g[d - 1] + Len(docs[(d - 1) + 1]) + 1
    OBVIOUS
  <2>1. CASE d = 0
    BY <1>2, <2>1
  <2>2. CASE d # 0
    <3>1. d \in 1..D /\ d - 1 \in 0..D /\ (d - 1) + 1 = d
      BY <1>1, <2>2
    <3>2. g[d - 1] = B[d - 1] + 1 /\ B[d - 1] \in Nat /\ B[d] \in Nat
      BY <1>2, <3>1
    <3>3. docs[d] \in Seq(Bytes)
      BY <1>1, <3>1
    <3>4. PICK m \in Nat : m = Len(docs[d])
      BY <3>3
    <3>5. B[d] = B[d - 1] + m + 1
      BY <1>2, <3>1, <3>4
    <3> HIDE DEF g
    <3>6. B[d] + 1 = g[d - 1] + m + 1
      BY <3>2, <3>5
    <3> QED BY <2>2, <3>1, <3>4, <3>6
  <2> QED BY <2>1, <2>2
<1> DEFINE f == CHOOSE x : Eq(x)
<1>4. Eq(f)
  BY <1>3
<1> HIDE DEF f, g
<1>5. \A d \in Nat : d \in {e \in Nat : e <= D => f[e] = g[e]}
  <2> DEFINE T == {e \in Nat : e <= D => f[e] = g[e]}
  <2>1. 0 \in T
    BY <1>1, <1>3, <1>4
  <2>2. ASSUME NEW m \in Nat, m \in T PROVE m + 1 \in T
    <3> SUFFICES ASSUME m + 1 <= D PROVE f[m + 1] = g[m + 1]
      OBVIOUS
    <3>1. m <= D /\ m + 1 \in 0..D /\ m + 1 # 0 /\ (m + 1) - 1 = m
      BY <1>1
    <3>2. f[m] = g[m]
      BY <2>2, <3>1
    <3>3. f[m + 1] = f[(m + 1) - 1] + Len(docs[((m + 1) - 1) + 1]) + 1
      BY <1>4, <3>1
    <3>4. g[m + 1] = g[(m + 1) - 1] + Len(docs[((m + 1) - 1) + 1]) + 1
      BY <1>3, <3>1
    <3> QED BY <3>1, <3>2, <3>3, <3>4
  <2> HIDE DEF T
  <2>3. \A m \in Nat : m \in T
    BY <2>1, <2>2, NatSet
  <2> QED BY <2>3 DEF T
<1>6. f[D] = g[D]
  BY <1>1, <1>5
<1>7. g[D] = B[D] + 1
  BY <1>1 DEF g
<1>8. Abstract!Positions(c) = f[D]
  BY DEF Abstract!Positions, Abstract!NDocs, Abstract!Doc, f, docs
<1> QED BY <1>6, <1>7, <1>8 DEF B, docs

\* The abstract sets are those of the text.
LEMMA AbstractSets ==
    ASSUME NEW c, Arguments(c), NEW p \in Seq(Bytes)
    PROVE  /\ Abstract!Occurrences(c, p) = Occurring(c.docs, c.cf, p)
           /\ Abstract!StartingWith(c, p) = Starting(c.docs, c.cf, p)
           /\ Abstract!Containing(c, p) = {h[1] : h \in Occurring(c.docs, c.cf, p)}
           /\ Abstract!EndingWith(c, p) = {h[1] : h \in Ending(c.docs, c.cf, p)}
<1> DEFINE docs == c.docs
           cf == c.cf
           D == Len(docs)
           H == Occurring(docs, cf, p)
           E == Ending(docs, cf, p)
<1>1. docs \in Seq(Seq(Bytes)) /\ D \in Nat /\ Len(p) \in Nat
  BY DEF Arguments
<1>2. ASSUME NEW d, NEW off
      PROVE  Abstract!OccursAt(c, p, d, off) <=> Occurs(docs, cf, p, d, off)
  <2> DEFINE doc == docs[d + 1]
  <2>0. \A x : Abstract!Fold(cf, x) = Fold(cf, x)
    BY DEF Abstract!Fold, Abstract!IsUpper, Fold, IsUpper
  <2>1. Abstract!OccursAt(c, p, d, off)
          <=> /\ off + Len(p) <= Len(doc)
              /\ \A j \in 1..Len(p) : Fold(cf, doc[off + j]) = Fold(cf, p[j])
    BY <2>0, Zenon DEF Abstract!OccursAt, Abstract!Doc
  <2> QED BY <2>1, Zenon DEF Occurs
<1>3. Abstract!DocIds(c) = 0..(D - 1)
  BY DEF Abstract!DocIds, Abstract!NDocs
<1>4. \A d : Abstract!Doc(c, d) = docs[d + 1]
  BY DEF Abstract!Doc
<1> HIDE DEF docs, cf
<1>5. ASSUME NEW d \in 0..(D - 1), NEW off \in 0..Len(docs[d + 1])
      PROVE <<d, off>> \in H <=> Occurs(docs, cf, p, d, off)
  BY <1>1, CoordPair DEF Occurring
<1>6. ASSUME NEW h \in H
      PROVE  /\ h[1] \in 0..(D - 1) /\ h[2] \in 0..Len(docs[h[1] + 1]) /\ h = <<h[1], h[2]>>
             /\ Len(docs[h[1] + 1]) \in Nat
             /\ Occurs(docs, cf, p, h[1], h[2])
  <2>1. h \in (0..(D - 1)) \X Nat /\ h[2] <= Len(docs[h[1] + 1]) /\ Occurs(docs, cf, p, h[1], h[2])
    BY DEF Occurring, Coords
  <2>2. PICK d \in 0..(D - 1) : d = h[1]
    BY <2>1
  <2>3. d + 1 \in 1..D
    OBVIOUS
  <2>4. docs[d + 1] \in Seq(Bytes)
    BY <1>1, <2>3
  <2>5. Len(docs[d + 1]) \in Nat
    BY <2>4
  <2> QED BY <2>1, <2>2, <2>5
<1>7. Abstract!Occurrences(c, p) = H
  <2>1. ASSUME NEW o \in Abstract!Occurrences(c, p) PROVE o \in H
    <3>1. PICK d \in 0..(D - 1) : \E off \in Abstract!Offsets(c, p, d) : o = <<d, off>>
      BY <1>3 DEF Abstract!Occurrences
    <3>2. PICK off \in 0..Len(docs[d + 1]) : o = <<d, off>> /\ Occurs(docs, cf, p, d, off)
      BY <1>2, <1>4, <3>1 DEF Abstract!Offsets
    <3> QED BY <1>5, <3>2
  <2>2. ASSUME NEW h \in H PROVE h \in Abstract!Occurrences(c, p)
    <3>1. PICK d \in 0..(D - 1) : d = h[1]
      BY <1>6
    <3>2. h[2] \in Abstract!Offsets(c, p, d) /\ h = <<d, h[2]>>
      BY <1>2, <1>4, <1>6, <3>1 DEF Abstract!Offsets
    <3> QED BY <1>3, <3>2 DEF Abstract!Occurrences
  <2> QED BY <2>1, <2>2
<1>8. Abstract!StartingWith(c, p) = Starting(docs, cf, p)
  BY <1>2, <1>3 DEF Abstract!StartingWith, Starting
<1>9. Abstract!Containing(c, p) = {h[1] : h \in H}
  <2>1. ASSUME NEW d \in Abstract!Containing(c, p) PROVE \E h \in H : h[1] = d
    <3>1. d \in 0..(D - 1) /\ Abstract!Offsets(c, p, d) # {}
      BY <1>3 DEF Abstract!Containing
    <3>2. PICK off \in 0..Len(docs[d + 1]) : Occurs(docs, cf, p, d, off)
      BY <1>2, <1>4, <3>1 DEF Abstract!Offsets
    <3>3. <<d, off>> \in H
      BY <1>5, <3>1, <3>2
    <3> QED BY <3>3
  <2>2. ASSUME NEW h \in H PROVE h[1] \in Abstract!Containing(c, p)
    <3>1. h[2] \in Abstract!Offsets(c, p, h[1])
      BY <1>2, <1>4, <1>6 DEF Abstract!Offsets
    <3> QED BY <1>3, <1>6, <3>1 DEF Abstract!Containing
  <2> QED BY <2>1, <2>2
<1>10. Abstract!EndingWith(c, p) = {h[1] : h \in E}
  <2>0. \A h : h \in E <=> h \in H /\ h[2] + Len(p) = Len(docs[h[1] + 1])
    BY DEF Ending
  <2>1. ASSUME NEW d \in Abstract!EndingWith(c, p) PROVE \E h \in E : h[1] = d
    <3>1. /\ d \in 0..(D - 1) /\ Len(p) <= Len(docs[d + 1])
          /\ Occurs(docs, cf, p, d, Len(docs[d + 1]) - Len(p))
      BY <1>2, <1>3, <1>4 DEF Abstract!EndingWith
    <3>2. d + 1 \in 1..D
      BY <3>1
    <3>3. docs[d + 1] \in Seq(Bytes)
      BY <1>1, <3>2
    <3>4. Len(docs[d + 1]) \in Nat
      BY <3>3
    <3>5. PICK off \in 0..Len(docs[d + 1]) : off = Len(docs[d + 1]) - Len(p)
      <4> HIDE <3>3
      <4> QED BY <1>1, <3>1, <3>4
    <3>6. off + Len(p) = Len(docs[d + 1])
      <4> HIDE <3>3
      <4> QED BY <1>1, <3>4, <3>5
    <3>7. <<d, off>> \in H
      BY <1>5, <3>1, <3>5
    <3>8. <<d, off>> \in E
      BY <2>0, <3>6, <3>7
    <3> QED BY <3>8
  <2>2. ASSUME NEW h \in E PROVE h[1] \in Abstract!EndingWith(c, p)
    <3>1. h \in H /\ h[2] + Len(p) = Len(docs[h[1] + 1])
      BY <2>0
    <3>2. h[1] \in 0..(D - 1) /\ h[2] \in Nat /\ Occurs(docs, cf, p, h[1], h[2])
      BY <1>6, <3>1
    <3>3. Len(p) <= Len(docs[h[1] + 1]) /\ Len(docs[h[1] + 1]) - Len(p) = h[2]
      <4>1. PICK m \in Nat : m = Len(docs[h[1] + 1])
        BY <1>6, <3>1
      <4>2. PICK l \in Nat : l = Len(p)
        BY <1>1
      <4>3. PICK x \in Nat : x = h[2]
        BY <3>2
      <4>4. x + l = m
        BY <3>1, <4>1, <4>2, <4>3
      <4>5. l <= m /\ m - l = x
        BY <4>4
      <4> QED BY <4>1, <4>2, <4>3, <4>5
    <3> QED BY <1>2, <1>3, <1>4, <3>2, <3>3 DEF Abstract!EndingWith
  <2> QED BY <2>1, <2>2
<1> QED BY <1>7, <1>8, <1>9, <1>10 DEF docs, cf

\* The two specifications count with the same operator.
LEMMA SameCardinality == ASSUME NEW S PROVE Abstract!Cardinality(S) = Cardinality(S)
  BY DEF Abstract!Cardinality, Cardinality

\* a is the suffix array of corpus c; w is the word of pattern p in it; the rows
\* x..y-1 are those of word v.
Indexed(c, a) ==
    /\ Arguments(c)
    /\ Sorted(TextOf(c.docs, c.cf), DocBounds(c.docs)[Len(c.docs)], a)
Spelled(c, p, w) ==
    /\ p \in Seq(Bytes) /\ p # <<>>
    /\ Spells(w, ByteToId(c.docs, c.cf), p)
Covers(c, a, v, x, y) ==
    /\ x \in Nat /\ y \in Nat
    /\ RowsOf(TextOf(c.docs, c.cf), a, v) = x..(y - 1)

\* As many elements as an interval is long.
LEMMA IntervalSize ==
    ASSUME NEW x \in Nat, NEW y \in Nat, x <= y
    PROVE  IsFiniteSet(x..(y - 1)) /\ Cardinality(x..(y - 1)) = y - x
<1>1. x \in Int /\ y - 1 \in Int
  OBVIOUS
<1>2. IsFiniteSet(x..(y - 1)) /\ Cardinality(x..(y - 1)) = IF x > y - 1 THEN 0 ELSE (y - 1) - x + 1
  BY <1>1, FS_Interval
<1> QED BY <1>2

\* Count is the length of the interval.
LEMMA CountAnswer ==
    ASSUME NEW c, NEW a, Indexed(c, a), NEW p, NEW w, Spelled(c, p, w),
           NEW x, NEW y, Covers(c, a, w, x, y), x <= y
    PROVE  y - x = Cardinality(Abstract!Occurrences(c, p))
<1>1. PICK docs \in Seq(Seq(Bytes)), cf \in BOOLEAN : docs = c.docs /\ cf = c.cf
  BY DEF Indexed, Arguments
<1>2. PICK P \in Seq(Bytes) : P = p /\ P # <<>> /\ Spells(w, ByteToId(docs, cf), P)
  BY <1>1 DEF Spelled
<1>3. Sorted(TextOf(docs, cf), DocBounds(docs)[Len(docs)], a)
  BY <1>1 DEF Indexed
<1>4. Hits(docs, cf, w, Occurring(docs, cf, P))
  BY <1>2, WordHits
<1>5. Cardinality(RowsOf(TextOf(docs, cf), a, w)) = Cardinality(Occurring(docs, cf, P))
  BY <1>3, <1>4, RowCount
<1>6. Abstract!Occurrences(c, P) = Occurring(docs, cf, P)
  BY <1>1, AbstractSets DEF Indexed
<1>7. Cardinality(x..(y - 1)) = y - x
  BY IntervalSize DEF Covers
<1> QED BY <1>1, <1>2, <1>5, <1>6, <1>7 DEF Covers

\* A document is counted once by the suffix that is the pattern.
LEMMA SuffixAnswer ==
    ASSUME NEW c, NEW a, Indexed(c, a), NEW p, NEW w, Spelled(c, p, w),
           NEW x, NEW y, Covers(c, a, Append(w, 1), x, y), x <= y
    PROVE  y - x = Cardinality(Abstract!EndingWith(c, p))
<1>1. PICK docs \in Seq(Seq(Bytes)), cf \in BOOLEAN : docs = c.docs /\ cf = c.cf
  BY DEF Indexed, Arguments
<1>2. PICK P \in Seq(Bytes) : P = p /\ P # <<>> /\ Spells(w, ByteToId(docs, cf), P)
  BY <1>1 DEF Spelled
<1>3. Sorted(TextOf(docs, cf), DocBounds(docs)[Len(docs)], a)
  BY <1>1 DEF Indexed
<1> DEFINE E == Ending(docs, cf, P)
           R == RowsOf(TextOf(docs, cf), a, Append(w, 1))
           F == {h[1] : h \in E}
<1>4. Hits(docs, cf, Append(w, 1), E)
  BY <1>2, WordHits
<1>5. Cardinality(R) = Cardinality(E)
  BY <1>3, <1>4, RowCount
<1>6. Abstract!EndingWith(c, P) = F
  BY <1>1, AbstractSets DEF Indexed
<1>7. R = x..(y - 1) /\ Cardinality(x..(y - 1)) = y - x /\ IsFiniteSet(x..(y - 1))
  BY <1>1, IntervalSize DEF Covers
<1>8. Cardinality(F) = Cardinality(E)
  <2> DEFINE g == [h \in E |-> h[1]]
  <2>2. IsFiniteSet(E)
    BY <1>3, <1>4, RowCount
  <2>3. \A h \in E : h \in (0..(Len(docs) - 1)) \X Nat /\ h[2] + Len(P) = Len(docs[h[1] + 1])
    BY DEF Ending, Occurring, Coords
  <2>4. ASSUME NEW h \in E, NEW e \in E, h[1] = e[1] PROVE h = e
    <3>1. h[2] + Len(P) = e[2] + Len(P) /\ h[2] \in Nat /\ e[2] \in Nat
      BY <2>3, <2>4
    <3>2. PICK l \in Nat : l = Len(P)
      OBVIOUS
    <3>3. PICK u \in Nat, v \in Nat : u = h[2] /\ v = e[2]
      BY <3>1
    <3>4. u = v
      BY <3>1, <3>2, <3>3
    <3>5. h = <<h[1], h[2]>> /\ e = <<e[1], e[2]>>
      BY <2>3
    <3> QED BY <2>4, <3>3, <3>4, <3>5
  <2>5. g \in [E -> F] /\ (\A h, e \in E : g[h] = g[e] => h = e) /\ (\A d \in F : \E h \in E : g[h] = d)
    BY <2>4
  <2>6. g \in Bijection(E, F)
    <3> HIDE DEF g, F, E
    <3> QED BY <2>5 DEF Bijection, Injection, Surjection, IsInjective
  <2>7. ExistsBijection(E, F)
    BY <2>6 DEF ExistsBijection
  <2> QED BY <2>2, <2>7, FS_Bijection
<1> QED BY <1>2, <1>5, <1>6, <1>7, <1>8

\* The prefix query counts the rows that follow a document's start.
LEMMA PrefixAnswer ==
    ASSUME NEW c, NEW a, Indexed(c, a), NEW p, NEW w, Spelled(c, p, w),
           NEW x, NEW y, Covers(c, a, w, x, y), x <= y,
           NEW s, s = Bwt(TextOf(c.docs, c.cf), a)
    PROVE  /\ (RankIn(s, 0, y) + RankIn(s, 1, y)) - (RankIn(s, 0, x) + RankIn(s, 1, x))
                = Cardinality(Abstract!StartingWith(c, p))
           /\ RankIn(s, 0, x) < RankIn(s, 0, y) <=> 0 \in Abstract!StartingWith(c, p)
<1>1. PICK docs \in Seq(Seq(Bytes)), cf \in BOOLEAN : docs = c.docs /\ cf = c.cf
  BY DEF Indexed, Arguments
<1>2. PICK P \in Seq(Bytes) : P = p /\ P # <<>> /\ Spells(w, ByteToId(docs, cf), P)
  BY <1>1 DEF Spelled
<1>3. Sorted(TextOf(docs, cf), DocBounds(docs)[Len(docs)], a)
  BY <1>1 DEF Indexed
<1>4. Abstract!StartingWith(c, P) = Starting(docs, cf, P)
  BY <1>1, AbstractSets DEF Indexed
<1> DEFINE R == RowsOf(TextOf(docs, cf), a, w)
           bwt == Bwt(TextOf(docs, cf), a)
<1>5. /\ Cardinality(Heads(bwt, R)) = Cardinality(Starting(docs, cf, P))
      /\ Leads(bwt, R) <=> 0 \in Starting(docs, cf, P)
  BY <1>2, <1>3, PrefixCount
<1>6. R = x..(y - 1) /\ bwt = s /\ x \in Nat /\ y \in Nat
  BY <1>1 DEF Covers
<1> HIDE DEF R, bwt
<1>7. /\ (RankIn(s, 0, y) + RankIn(s, 1, y)) - (RankIn(s, 0, x) + RankIn(s, 1, x))
           = Cardinality(Heads(s, x..(y - 1)))
      /\ RankIn(s, 0, x) < RankIn(s, 0, y) <=> Leads(s, x..(y - 1))
  BY <1>6, RankPair
<1> QED BY <1>2, <1>4, <1>5, <1>6, <1>7

\* The hits of the rows are the occurrences, each of them once.
LEMMA LocateAnswer ==
    ASSUME NEW c, NEW a, Indexed(c, a), NEW p, NEW w, Spelled(c, p, w),
           NEW x, NEW y, Covers(c, a, w, x, y),
           NEW f, \A r \in x..(y - 1) : f[r] = HitAt(c.docs, a[r])
    PROVE  Gather(f, x, y) = [o \in Abstract!Occurrences(c, p) |-> 1]
<1>1. PICK docs \in Seq(Seq(Bytes)), cf \in BOOLEAN : docs = c.docs /\ cf = c.cf
  BY DEF Indexed, Arguments
<1>2. PICK P \in Seq(Bytes) : P = p /\ P # <<>> /\ Spells(w, ByteToId(docs, cf), P)
  BY <1>1 DEF Spelled
<1>3. Sorted(TextOf(docs, cf), DocBounds(docs)[Len(docs)], a)
  BY <1>1 DEF Indexed
<1> DEFINE H == Occurring(docs, cf, P)
           R == x..(y - 1)
<1>4. Abstract!Occurrences(c, P) = H
  BY <1>1, AbstractSets DEF Indexed
<1>5. Hits(docs, cf, w, H)
  BY <1>2, WordHits
<1>6. HitRows(docs, a, RowsOf(TextOf(docs, cf), a, w), H)
  BY <1>3, <1>5, RowHits
<1>7. HitRows(docs, a, R, H)
  BY <1>1, <1>6 DEF Covers
<1> HIDE DEF H
<1>8. \A r \in R : f[r] = HitAt(docs, a[r])
  BY <1>1
<1>9. {f[r] : r \in R} = H
  BY <1>7, <1>8 DEF HitRows
<1>10. ASSUME NEW h \in H PROVE Cardinality({r \in R : f[r] = h}) = 1
  <2>1. PICK r \in R : f[r] = h
    BY <1>9
  <2>2. {z \in R : f[z] = h} = {r}
    BY <1>7, <1>8, <2>1 DEF HitRows
  <2> QED BY <2>2, FS_Singleton
<1> QED BY <1>2, <1>4, <1>9, <1>10 DEF Gather

\* A document counts the rows in it.
LEMMA VisitAnswer ==
    ASSUME NEW c, NEW a, Indexed(c, a), NEW p, NEW w, Spelled(c, p, w),
           NEW x, NEW y, Covers(c, a, w, x, y),
           NEW f, \A r \in x..(y - 1) : f[r] = DocOf(DocBounds(c.docs), a[r])
    PROVE  Gather(f, x, y)
             = [d \in Abstract!Containing(c, p) |-> Cardinality(Abstract!Offsets(c, p, d))]
<1>1. PICK docs \in Seq(Seq(Bytes)), cf \in BOOLEAN : docs = c.docs /\ cf = c.cf
  BY DEF Indexed, Arguments
<1>2. PICK P \in Seq(Bytes) : P = p /\ P # <<>> /\ Spells(w, ByteToId(docs, cf), P)
  BY <1>1 DEF Spelled
<1>3. Sorted(TextOf(docs, cf), DocBounds(docs)[Len(docs)], a)
  BY <1>1 DEF Indexed
<1> DEFINE H == Occurring(docs, cf, P)
           R == x..(y - 1)
           C == Abstract!Containing(c, p)
<1>4. /\ Abstract!Occurrences(c, P) = H
      /\ C = {h[1] : h \in H}
  BY <1>1, <1>2, AbstractSets DEF Indexed
<1>5. Hits(docs, cf, w, H)
  BY <1>2, WordHits
<1>6. HitRows(docs, a, RowsOf(TextOf(docs, cf), a, w), H)
  BY <1>3, <1>5, RowHits
<1>7. HitRows(docs, a, R, H)
  BY <1>1, <1>6 DEF Covers
<1>f. IsFiniteSet(H)
  BY <1>3, <1>5, RowCount
<1>p. \A h \in H : h = <<h[1], h[2]>>
  BY DEF Occurring, Coords
<1> HIDE DEF H, C
<1>8. \A r \in R : f[r] = DocOf(DocBounds(docs), a[r]) /\ f[r] = HitAt(docs, a[r])[1]
  BY <1>1 DEF HitAt
<1>9. {f[r] : r \in R} = C
  <2>1. ASSUME NEW r \in R PROVE f[r] \in C
    BY <1>4, <1>7, <1>8 DEF HitRows
  <2>2. ASSUME NEW d \in C PROVE \E r \in R : f[r] = d
    <3>1. PICK h \in H : h[1] = d
      BY <1>4
    <3>2. PICK r \in R : HitAt(docs, a[r]) = h
      BY <1>7 DEF HitRows
    <3> QED BY <1>8, <3>1, <3>2
  <2> QED BY <2>1, <2>2
<1>10. ASSUME NEW d \in C
       PROVE  Cardinality({r \in R : f[r] = d}) = Cardinality(Abstract!Offsets(c, p, d))
  <2> DEFINE Y == {h \in H : h[1] = d}
             Z == Abstract!Offsets(c, p, d)
             g == [h \in Y |-> h[2]]
  <2>1. {r \in R : f[r] = d} = RowsIn(docs, a, R, d) /\ Y = HitsIn(H, d)
    BY <1>8 DEF RowsIn, HitsIn
  <2>2. Cardinality(RowsIn(docs, a, R, d)) = Cardinality(HitsIn(H, d))
    BY <1>7, DocCount
  <2>3. \A h : h \in H <=> \E e \in Abstract!DocIds(c) : \E off \in Abstract!Offsets(c, P, e) : h = <<e, off>>
    BY <1>4 DEF Abstract!Occurrences
  <2>d. d \in Abstract!DocIds(c)
    BY DEF C, Abstract!Containing
  <2>4. g \in [Y -> Z]
    <3> SUFFICES ASSUME NEW h \in Y PROVE h[2] \in Z
      OBVIOUS
    <3>1. PICK e \in Abstract!DocIds(c) : \E off \in Abstract!Offsets(c, P, e) : h = <<e, off>>
      BY <2>3
    <3>2. PICK off \in Abstract!Offsets(c, P, e) : h = <<e, off>>
      BY <3>1
    <3>3. e = d
      BY <3>2
    <3> QED BY <1>2, <3>2, <3>3
  <2>5. \A h, e \in Y : g[h] = g[e] => h = e
    BY <1>p
  <2>6. \A z \in Z : \E h \in Y : g[h] = z
    <3> SUFFICES ASSUME NEW z \in Z PROVE \E h \in Y : h[2] = z
      OBVIOUS
    <3>1. <<d, z>> \in H
      BY <1>2, <2>3, <2>d
    <3> QED BY <3>1
  <2>7. IsFiniteSet(Y)
    BY <1>f, FS_Subset
  <2> HIDE DEF Y, Z, g
  <2>8. g \in Bijection(Y, Z)
    BY <2>4, <2>5, <2>6 DEF Bijection, Injection, Surjection, IsInjective
  <2>9. ExistsBijection(Y, Z)
    BY <2>8 DEF ExistsBijection
  <2>10. Cardinality(Y) = Cardinality(Z)
    BY <2>7, <2>9, FS_Bijection
  <2> QED BY <2>1, <2>2, <2>10 DEF Z
<1> QED BY <1>9, <1>10 DEF Gather, C

\* The documents of the rows of a suffix query.
LEMMA EndingAnswer ==
    ASSUME NEW c, NEW a, Indexed(c, a), NEW p, NEW w, Spelled(c, p, w),
           NEW x, NEW y, Covers(c, a, Append(w, 1), x, y),
           NEW f, \A r \in x..(y - 1) : f[r] = DocOf(DocBounds(c.docs), a[r])
    PROVE  DOMAIN Gather(f, x, y) = Abstract!EndingWith(c, p)
<1>1. PICK docs \in Seq(Seq(Bytes)), cf \in BOOLEAN : docs = c.docs /\ cf = c.cf
  BY DEF Indexed, Arguments
<1>2. PICK P \in Seq(Bytes) : P = p /\ P # <<>> /\ Spells(w, ByteToId(docs, cf), P)
  BY <1>1 DEF Spelled
<1>3. Sorted(TextOf(docs, cf), DocBounds(docs)[Len(docs)], a)
  BY <1>1 DEF Indexed
<1> DEFINE E == Ending(docs, cf, P)
           R == x..(y - 1)
           C == Abstract!EndingWith(c, p)
<1>4. C = {h[1] : h \in E}
  BY <1>1, <1>2, AbstractSets DEF Indexed
<1>5. Hits(docs, cf, Append(w, 1), E)
  BY <1>2, WordHits
<1>6. HitRows(docs, a, RowsOf(TextOf(docs, cf), a, Append(w, 1)), E)
  BY <1>3, <1>5, RowHits
<1>7. HitRows(docs, a, R, E)
  BY <1>1, <1>6 DEF Covers
<1> HIDE DEF E, C
<1>8. \A r \in R : f[r] = HitAt(docs, a[r])[1]
  BY <1>1 DEF HitAt
<1>9. {f[r] : r \in R} = C
  <2>1. ASSUME NEW r \in R PROVE f[r] \in C
    BY <1>4, <1>7, <1>8 DEF HitRows
  <2>2. ASSUME NEW d \in C PROVE \E r \in R : f[r] = d
    <3>1. PICK h \in E : h[1] = d
      BY <1>4
    <3>2. PICK r \in R : HitAt(docs, a[r]) = h
      BY <1>7 DEF HitRows
    <3> QED BY <1>8, <3>1, <3>2
  <2> QED BY <2>1, <2>2
<1> QED BY <1>9 DEF Gather, C

\* f gives the document that starts behind the first symbol of each row.
GivesNext(f, c, a, x, y) ==
    \A r \in x..(y - 1) : f[r] = DocOf(DocBounds(c.docs), a[r] + 1)

\* The rows of the word with a separator in front give the documents that
\* start with the pattern, document 0 excepted.
LEMMA StartingAnswer ==
    ASSUME NEW c, NEW a, Indexed(c, a), NEW p, NEW w, Spelled(c, p, w),
           NEW v, Fronted(v, 1, w), NEW x, NEW y, Covers(c, a, v, x, y),
           NEW f, GivesNext(f, c, a, x, y)
    PROVE  \A d : d \in DOMAIN Gather(f, x, y) <=> d \in Abstract!StartingWith(c, p) /\ d # 0
<1>1. PICK docs \in Seq(Seq(Bytes)), cf \in BOOLEAN : docs = c.docs /\ cf = c.cf
  BY DEF Indexed, Arguments
<1>2. PICK P \in Seq(Bytes) : P = p /\ P # <<>> /\ Spells(w, ByteToId(docs, cf), P)
  BY <1>1 DEF Spelled
<1>3. Sorted(TextOf(docs, cf), DocBounds(docs)[Len(docs)], a)
  BY <1>1 DEF Indexed
<1>4. Abstract!StartingWith(c, P) = Starting(docs, cf, P)
  BY <1>1, AbstractSets DEF Indexed
<1> DEFINE R == RowsOf(TextOf(docs, cf), a, v)
<1>5. NextDocs(docs, a, R) = Starting(docs, cf, P) \ {0}
  BY <1>2, <1>3, PrefixRows
<1>6. R = x..(y - 1)
  BY <1>1 DEF Covers
<1> HIDE DEF R
<1>7. {f[r] : r \in x..(y - 1)} = NextDocs(docs, a, R)
  BY <1>1, <1>6 DEF NextDocs, GivesNext
<1> QED BY <1>2, <1>4, <1>5, <1>7 DEF Gather

\* The word of the whole pattern.
LEMMA WordSpells ==
    ASSUME NEW f \in [Bytes -> Int], NEW p \in Seq(Bytes)
    PROVE  /\ Spells(Ids(f, p, 0), f, p)
           /\ Ids(f, p, 0) \in Seq(Int)
<1> DEFINE L == Len(p)
<1>1. L \in Nat /\ \A j \in 1..L : p[j] \in Bytes
  OBVIOUS
<1>2. Ids(f, p, 0) = [j \in 1..L |-> f[p[j]]]
  <2>1. L - 0 = L /\ \A j \in 1..L : 0 + j = j
    BY <1>1
  <2> QED BY <2>1 DEF Ids
<1> HIDE DEF L
<1>3. Ids(f, p, 0) \in [1..L -> Int]
  BY <1>1, <1>2
<1>4. Ids(f, p, 0) \in Seq(Int) /\ Len(Ids(f, p, 0)) = L
  BY <1>1, <1>3
<1> QED BY <1>2, <1>4 DEF Spells, L

\* The separator in front of a word.
LEMMA SeparatorFronted ==
    ASSUME NEW w \in Seq(Int)
    PROVE  Fronted(<<1>> \o w, 1, w)
<1>1. <<1>> \in Seq(Int) /\ Len(<<1>>) = 1
  OBVIOUS
<1>2. Len(<<1>> \o w) = Len(w) + 1 /\ Len(w) \in Nat
  BY <1>1
<1>3. (<<1>> \o w)[1] = 1
  BY <1>1, <1>2
<1>4. ASSUME NEW j \in 1..Len(w) PROVE (<<1>> \o w)[j + 1] = w[j]
  BY <1>1, <1>2
<1> QED BY <1>2, <1>3, <1>4 DEF Fronted

\* What a valid object has of its corpus.
Mirrors(c) ==
    /\ Indexed(c, sa)
    /\ t = TextOf(c.docs, c.cf)
    /\ fm.byte_to_id_ = ByteToId(c.docs, c.cf) /\ fm.byte_to_id_ \in [Bytes -> Int]
    /\ fm.wm_ = Bwt(t, sa)
    /\ fm.doc_start_ = DocBounds(c.docs)
    /\ fm.text_len_ = DocBounds(c.docs)[Len(c.docs)]
    /\ fm.id_to_byte_ = IdToByte(fm.byte_to_id_, Sigma(c.docs, c.cf))

\* The object of a completed Build mirrors its corpus, as long as no other Build
\* runs.
LEMMA ValidMirrors ==
    ASSUME IInv, pc \notin BuildPcs, Valid(fm)
    PROVE  corpus # <<>> /\ Mirrors(corpus[1])
<1>1. corpus # <<>> /\ Complete(corpus[1]) /\ Shaped(fm)
  BY DEF IInv, ObjectHolds, BuildPcs, LatePcs
<1>2. /\ Serves(fm, t, sa) /\ Arguments(corpus[1])
      /\ fm.doc_start_ = DocBounds(corpus[1].docs)
      /\ fm.text_len_ = DocBounds(corpus[1].docs)[Len(corpus[1].docs)]
  BY ValidServes
<1>3. PICK c : c = corpus[1]
  OBVIOUS
<1> DEFINE o == Built(c.docs, c.cf, fm.sa_sample_rate_)
<1>4. /\ [fm EXCEPT !.isa_sample_ = NoIsa] = o
      /\ t = TextOf(c.docs, c.cf)
  BY <1>1, <1>3 DEF Complete, Ranked
<1>5. /\ o.byte_to_id_ = ByteToId(c.docs, c.cf)
      /\ o.id_to_byte_ = IdToByte(ByteToId(c.docs, c.cf), Sigma(c.docs, c.cf))
  BY DEF Built
<1> HIDE DEF o
<1>6. fm.byte_to_id_ = o.byte_to_id_ /\ fm.id_to_byte_ = o.id_to_byte_
  BY <1>1, <1>4 DEF Shaped
<1>7. fm.byte_to_id_ \in [Bytes -> Int]
  <2>1. \A y \in Bytes : fm.byte_to_id_[y] \in Int
    BY <1>2 DEF Serves
  <2>2. fm.byte_to_id_ = [y \in Bytes |-> fm.byte_to_id_[y]]
    BY <1>5, <1>6 DEF ByteToId
  <2> QED BY <2>1, <2>2
<1>8. Indexed(c, sa)
  BY <1>2, <1>3, <1>4 DEF Serves, Indexed
<1> QED BY <1>1, <1>2, <1>3, <1>4, <1>5, <1>6, <1>7, <1>8 DEF Mirrors, Serves

\* An object without a completed Build is the only one that is not valid.
LEMMA NoIndex ==
    ASSUME IInv, pc \notin BuildPcs, ~ Valid(fm)
    PROVE  corpus = <<>>
<1> SUFFICES ASSUME corpus # <<>> PROVE FALSE
  OBVIOUS
<1>1. Complete(corpus[1]) /\ Shaped(fm)
  BY DEF IInv, ObjectHolds
<1>2. PICK docs \in Seq(Seq(Bytes)), cf \in BOOLEAN : docs = corpus[1].docs /\ cf = corpus[1].cf
  BY <1>1 DEF Complete, Arguments
<1>3. fm.c_ = Built(docs, cf, fm.sa_sample_rate_).c_
  BY <1>1, <1>2 DEF Complete, Shaped
<1>4. DOMAIN fm.c_ = 0..(Sigma(docs, cf) - 1)
  BY <1>3 DEF Built, CTable
<1>5. 0 \in 0..(Sigma(docs, cf) - 1)
  <2>1. Sigma(docs, cf) \in Nat /\ Sigma(docs, cf) >= 2
    BY AlphabetFacts
  <2> QED BY <2>1
<1>6. DOMAIN Nothing = {}
  BY DEF Nothing
<1> QED BY <1>4, <1>5, <1>6 DEF Valid

\* A shorter part of the pattern is the tail of its word.
LEMMA WordTail ==
    ASSUME NEW f \in [Bytes -> Int], NEW p \in Seq(Bytes), NEW m \in 0..Len(p), NEW op
    PROVE  /\ Len(Word(f, p, m, op)) \in Nat
           /\ Len(Word(f, p, 0, op)) = m + Len(Word(f, p, m, op))
           /\ \A j \in 1..Len(Word(f, p, m, op)) : Word(f, p, 0, op)[m + j] = Word(f, p, m, op)[j]
<1> DEFINE L == Len(p)
           d == L - m
           u == Ids(f, p, m)
           v == Ids(f, p, 0)
<1>1. L \in Nat /\ m \in 0..L /\ \A j \in 1..L : p[j] \in Bytes
  OBVIOUS
<1>2. u \in [1..d -> Int] /\ \A j \in 1..d : u[j] = f[p[m + j]]
  <2> HIDE DEF L
  <2>1. \A j \in 1..(L - m) : m + j \in 1..L
    BY <1>1
  <2> QED BY <1>1, <2>1 DEF Ids, L
<1>3. v \in [1..L -> Int] /\ \A j \in 1..L : v[j] = f[p[j]]
  <2> HIDE DEF L
  <2>1. L - 0 = L /\ \A j \in 1..L : 0 + j = j
    BY <1>1
  <2> QED BY <1>1, <2>1 DEF Ids, L
<1> HIDE DEF L, u, v
<1>4. d \in Nat /\ L = m + d
  BY <1>1
<1> HIDE DEF d
<1>5. u \in Seq(Int) /\ Len(u) = d /\ v \in Seq(Int) /\ Len(v) = L
  BY <1>1, <1>2, <1>3, <1>4
<1>6. ASSUME NEW j \in 1..d PROVE v[m + j] = u[j]
  <2>1. m + j \in 1..L
    BY <1>1, <1>4
  <2> QED BY <1>2, <1>3, <2>1
<1>7. CASE op \notin SuffixOps
  BY <1>4, <1>5, <1>6, <1>7 DEF Word, u, v
<1>8. CASE op \in SuffixOps
  <2> DEFINE x == Append(u, 1)
             y == Append(v, 1)
  <2>1. /\ Len(x) = d + 1 /\ x[d + 1] = 1 /\ \A j \in 1..d : x[j] = u[j]
        /\ Len(y) = L + 1 /\ y[L + 1] = 1 /\ \A j \in 1..L : y[j] = v[j]
    <3>1. L \in Nat
      BY <1>1
    <3>2. Len(x) = d + 1 /\ x[d + 1] = 1 /\ \A j \in 1..d : x[j] = u[j]
      BY <1>4, <1>5
    <3>0. v \in Seq(Int) /\ L = Len(v)
      BY <1>5
    <3>3. Len(y) = L + 1 /\ y[L + 1] = 1 /\ \A j \in 1..L : y[j] = v[j]
      <4>1. Len(y) = Len(v) + 1 /\ y[Len(v) + 1] = 1 /\ \A j \in 1..Len(v) : y[j] = v[j]
        BY <3>0
      <4> QED BY <3>0, <4>1
    <3> QED BY <3>2, <3>3
  <2> HIDE DEF x, y
  <2>2. ASSUME NEW j \in 1..(d + 1) PROVE y[m + j] = x[j]
    <3>1. CASE j = d + 1
      <4>1. m + j = L + 1
        BY <1>1, <1>4, <3>1
      <4> QED BY <2>1, <3>1, <4>1
    <3>2. CASE j # d + 1
      <4>1. j \in 1..d /\ m + j \in 1..L
        BY <1>1, <1>4, <3>2
      <4> QED BY <1>6, <2>1, <4>1
    <3> QED BY <3>1, <3>2
  <2>3. Len(x) \in Nat /\ Len(y) = m + Len(x)
    BY <1>1, <1>4, <2>1
  <2> QED BY <1>8, <2>1, <2>2, <2>3 DEF Word, u, v, x, y
<1> QED BY <1>7, <1>8

\* A part of the pattern that stands nowhere ends the search: the whole does
\* not stand anywhere either.
LEMMA NoRows ==
    ASSUME NEW f \in [Bytes -> Int], NEW p \in Seq(Bytes), NEW m \in 0..(Len(p) - 1), NEW op,
           NEW s, NEW n, NEW a, Sorted(s, n, a), n \in Nat, DOMAIN s = 0..n,
           RowsOf(s, a, Word(f, p, m, op)) = {}
    PROVE  RowsOf(s, a, Word(f, p, 0, op)) = {}
<1> DEFINE w == Word(f, p, 0, op)
           v == Word(f, p, m, op)
<1>0. m \in 0..Len(p) /\ m \in Nat
  OBVIOUS
<1>1. Len(v) \in Nat /\ Len(w) = m + Len(v) /\ \A j \in 1..Len(v) : w[m + j] = v[j]
  BY <1>0, WordTail
<1>2. DOMAIN a = 0..n /\ (\A r \in 0..n : a[r] \in 0..n) /\ \A x \in 0..n : \E r \in 0..n : a[r] = x
  BY DEF Sorted
<1>3. m + 1 <= Len(w)
  <2>1. Len(Word(f, p, Len(p), op)) \in Nat /\ Len(w) = Len(p) + Len(Word(f, p, Len(p), op))
    <3>1. Len(p) \in 0..Len(p)
      OBVIOUS
    <3> QED BY <3>1, WordTail
  <2>2. PICK e \in Nat, L \in Nat, z \in Nat : e = Len(Word(f, p, Len(p), op)) /\ L = Len(p) /\ z = Len(w)
    BY <2>1, <1>0, <1>1
  <2>3. m \in 0..(L - 1) /\ z = L + e
    BY <2>1, <2>2
  <2> QED BY <2>2, <2>3
<1> HIDE DEF w, v
<1> SUFFICES ASSUME NEW r \in RowsOf(s, a, w) PROVE FALSE
  BY DEF w
<1>4. r \in 0..n /\ StandsAt(s, a[r], w)
  BY <1>2 DEF RowsOf
<1>5. PICK q \in 0..n : q = a[r]
  BY <1>2, <1>4
<1>6. \A j \in 1..Len(w) : q + j - 1 \in 0..n /\ s[q + j - 1] = w[j]
  BY <1>4, <1>5 DEF StandsAt
<1>7. PICK l \in Nat : l = Len(v)
  BY <1>1
<1>8. Len(w) = m + l
  BY <1>1, <1>7
<1>9. q + m \in 0..n
  <2>1. m + 1 \in 1..Len(w)
    BY <1>0, <1>3, <1>8
  <2>2. q + (m + 1) - 1 \in 0..n
    BY <1>6, <2>1
  <2>3. q + (m + 1) - 1 = q + m
    BY <1>0
  <2> QED BY <2>2, <2>3
<1>10. StandsAt(s, q + m, v)
  <2> SUFFICES ASSUME NEW j \in 1..l PROVE (q + m) + j - 1 \in 0..n /\ s[(q + m) + j - 1] = v[j]
    BY <1>7 DEF StandsAt
  <2>1. m + j \in 1..Len(w) /\ q + (m + j) - 1 = (q + m) + j - 1
    BY <1>0, <1>8
  <2>2. w[m + j] = v[j]
    BY <1>1, <1>7
  <2> QED BY <1>6, <2>1, <2>2
<1>11. PICK z \in 0..n : a[z] = q + m
  BY <1>2, <1>9
<1>12. z \in RowsOf(s, a, v)
  BY <1>2, <1>10, <1>11 DEF RowsOf
<1> QED BY <1>12 DEF v

\* The answer to a pattern that is not empty.
LEMMA AnswerOf ==
    ASSUME NEW c, NEW q, q.p # <<>>
    PROVE  LET A == Abstract!AnswerFor(c, q) IN
           /\ q.op = "Count" => A = Cardinality(Abstract!Occurrences(c, q.p))
           /\ q.op = "CountPrefixDocs" => A = Cardinality(Abstract!StartingWith(c, q.p))
           /\ q.op = "CountSuffixDocs" => A = Cardinality(Abstract!EndingWith(c, q.p))
           /\ q.op = "LocateDocs" => A = [o \in Abstract!Occurrences(c, q.p) |-> 1]
           /\ q.op = "VisitMatchingDocs" =>
                A = [d \in Abstract!Containing(c, q.p) |-> Cardinality(Abstract!Offsets(c, q.p, d))]
           /\ q.op = "MatchingDocs" => A = Abstract!Containing(c, q.p)
           /\ q.op = "LocatePrefixDocs" => A = Abstract!StartingWith(c, q.p)
           /\ q.op = "LocateSuffixDocs" => A = Abstract!EndingWith(c, q.p)
<1> DEFINE A == Abstract!AnswerFor(c, q)
<1>1. ASSUME q.op = "Count" PROVE A = Cardinality(Abstract!Occurrences(c, q.p))
  BY <1>1, SameCardinality DEF Abstract!AnswerFor, Abstract!Count
<1>2. ASSUME q.op = "CountPrefixDocs" PROVE A = Cardinality(Abstract!StartingWith(c, q.p))
  BY <1>2, SameCardinality DEF Abstract!AnswerFor
<1>3. ASSUME q.op = "CountSuffixDocs" PROVE A = Cardinality(Abstract!EndingWith(c, q.p))
  BY <1>3, SameCardinality DEF Abstract!AnswerFor
<1>4. ASSUME q.op = "LocateDocs" PROVE A = [o \in Abstract!Occurrences(c, q.p) |-> 1]
  BY <1>4 DEF Abstract!AnswerFor, Abstract!Located
<1>5. ASSUME q.op = "VisitMatchingDocs"
      PROVE A = [d \in Abstract!Containing(c, q.p) |-> Cardinality(Abstract!Offsets(c, q.p, d))]
  BY <1>5, SameCardinality DEF Abstract!AnswerFor
<1>6. ASSUME q.op = "MatchingDocs" PROVE A = Abstract!Containing(c, q.p)
  BY <1>6 DEF Abstract!AnswerFor
<1>7. ASSUME q.op = "LocatePrefixDocs" PROVE A = Abstract!StartingWith(c, q.p)
  BY <1>7 DEF Abstract!AnswerFor
<1>8. ASSUME q.op = "LocateSuffixDocs" PROVE A = Abstract!EndingWith(c, q.p)
  BY <1>8 DEF Abstract!AnswerFor
<1> QED BY <1>1, <1>2, <1>3, <1>4, <1>5, <1>6, <1>7, <1>8

\* Nothing occurs in no documents.
LEMMA NoDocsSets ==
    ASSUME NEW p
    PROVE  LET c == Abstract!NoDocs IN
           /\ Abstract!Occurrences(c, p) = {} /\ Abstract!Containing(c, p) = {}
           /\ Abstract!StartingWith(c, p) = {} /\ Abstract!EndingWith(c, p) = {}
<1> DEFINE c == Abstract!NoDocs
<1>1. Abstract!DocIds(c) = {}
  <2>1. c.docs = <<>>
    BY DEF Abstract!NoDocs
  <2> HIDE DEF c
  <2>2. Abstract!NDocs(c) = 0
    BY <2>1 DEF Abstract!NDocs
  <2> QED BY <2>2 DEF Abstract!DocIds
<1> HIDE DEF c
<1> QED BY <1>1 DEF Abstract!Occurrences, Abstract!Containing, Abstract!StartingWith, Abstract!EndingWith, c

\* The answer without an index, and to the empty pattern.
LEMMA NoAnswer ==
    ASSUME NEW b, NEW q, q.op \in SearchOps, b = <<>> \/ q.p = <<>>
    PROVE  LET A == Abstract!Answer(b, q) IN
           /\ q.op = "Count" => A = IF b = <<>> THEN 0 ELSE Abstract!Positions(b[1])
           /\ q.op \in {"CountPrefixDocs", "CountSuffixDocs"} => A = 0
           /\ q.op \in {"LocateDocs", "VisitMatchingDocs"} => A = Nothing
           /\ q.op \in {"MatchingDocs", "LocatePrefixDocs", "LocateSuffixDocs"} => A = {}
<1> DEFINE A == Abstract!Answer(b, q)
           c == Abstract!NoDocs
           x == IF b = <<>> THEN c ELSE b[1]
<1>1. ASSUME q.op = "Count" PROVE A = IF b = <<>> THEN 0 ELSE Abstract!Positions(b[1])
  BY <1>1 DEF Abstract!Answer, Abstract!AnswerFor, Abstract!Count
<1>2. q.op # "Count" => A = Abstract!AnswerFor(x, q)
  <2> SUFFICES ASSUME q.op # "Count" PROVE A = Abstract!AnswerFor(x, q)
    OBVIOUS
  <2>1. q.op # "CountBatch"
    BY DEF SearchOps
  <2> QED BY <2>1 DEF Abstract!Answer
<1>3. x = c \/ q.p = <<>>
  OBVIOUS
<1>4. /\ Abstract!Occurrences(c, q.p) = {} /\ Abstract!Containing(c, q.p) = {}
      /\ Abstract!StartingWith(c, q.p) = {} /\ Abstract!EndingWith(c, q.p) = {}
  BY NoDocsSets
<1>5. Cardinality({}) = 0
  BY FS_EmptySet
<1> HIDE DEF c, x
<1>6. ASSUME q.op = "CountPrefixDocs" PROVE A = 0
  BY <1>2, <1>3, <1>4, <1>5, <1>6, SameCardinality DEF Abstract!AnswerFor
<1>7. ASSUME q.op = "CountSuffixDocs" PROVE A = 0
  BY <1>2, <1>3, <1>4, <1>5, <1>7, SameCardinality DEF Abstract!AnswerFor
<1>8. ASSUME q.op = "LocateDocs" PROVE A = Nothing
  <2>1. Abstract!Located(x, q.p) = [o \in {} |-> 0]
    <3>1. (IF q.p = <<>> THEN {} ELSE Abstract!Occurrences(x, q.p)) = {}
      BY <1>3, <1>4
    <3>2. Abstract!Located(x, q.p) = [o \in {} |-> 1]
      BY <3>1 DEF Abstract!Located
    <3> QED BY <3>2
  <2> QED BY <1>2, <1>8, <2>1 DEF Abstract!AnswerFor, Nothing
<1>9. ASSUME q.op = "VisitMatchingDocs" PROVE A = Nothing
  <2>1. (IF q.p = <<>> THEN {} ELSE Abstract!Containing(x, q.p)) = {}
    BY <1>3, <1>4
  <2>2. A = [d \in {} |-> Abstract!Cardinality(Abstract!Offsets(x, q.p, d))]
    BY <1>2, <1>9, <2>1 DEF Abstract!AnswerFor
  <2> QED BY <2>2 DEF Nothing
<1>10. ASSUME q.op = "MatchingDocs" PROVE A = {}
  BY <1>2, <1>3, <1>4, <1>10 DEF Abstract!AnswerFor
<1>11. ASSUME q.op = "LocatePrefixDocs" PROVE A = {}
  BY <1>2, <1>3, <1>4, <1>11 DEF Abstract!AnswerFor
<1>12. ASSUME q.op = "LocateSuffixDocs" PROVE A = {}
  BY <1>2, <1>3, <1>4, <1>12 DEF Abstract!AnswerFor
<1> QED BY <1>1, <1>6, <1>7, <1>8, <1>9, <1>10, <1>11, <1>12

-----------------------------------------------------------------------------
(***************************************************************************)
(* The third invariant: what each query has found so far, and its answer.  *)
(***************************************************************************)

\* No document id wraps around in the check that Extract makes of it.
NoIdWraps == DocIdMod \in Nat /\ \A q \in Requests : q.op = "Extract" => q.doc + 1 < DocIdMod

\* There is something to search for.
Searching == Valid(fm) /\ req[1].p # <<>>

\* The word that is searched for, and the one whose rows are gone through.
Sought == Word(fm.byte_to_id_, req[1].p, 0, req[1].op)
Listed == IF req[1].op = "LocatePrefixDocs" THEN <<1>> \o Sought ELSE Sought

\* The interval of the search.
Found ==
    /\ lo <= hi
    /\ Searching => RowsOf(t, sa, Sought) = lo..(hi - 1)
    /\ ~ Searching => lo = 0 /\ hi = IF Valid(fm) /\ req[1].op = "Count" THEN M(fm) ELSE 0

\* What the walk from a row pushes.
Pushed == [r \in 0..fm.text_len_ |->
             CASE req[1].op = "LocatePrefixDocs" -> DocOf(fm.doc_start_, sa[r] + 1)
               [] req[1].op = "LocateDocs" -> Hit(fm, sa[r])
               [] OTHER -> DocOf(fm.doc_start_, sa[r])]

FirstDocs == {0} \cap Abstract!StartingWith(corpus[1], req[1].p)

\* What the rows before i have given.
Collected ==
    IF req[1].op = "LocatePrefixDocs"
      THEN DOMAIN out = FirstDocs \cup {Pushed[r] : r \in lo..(i - 1)}
      ELSE out = Gather(Pushed, lo, i)

Listing ==
    /\ req[1].op \notin CountOps
    /\ lo <= i /\ (i = lo \/ i <= hi)
    /\ Searching => RowsOf(t, sa, Listed) = lo..(hi - 1) /\ Collected
    /\ ~ Searching => hi = 0 /\ out = Nothing

\* Extract: the range is that of the excerpt.
Asked ==
    LET q == req[1]
        c == corpus[1] IN
    /\ q.doc \in Abstract!DocIds(c) /\ q.off < Len(Abstract!Doc(c, q.doc))
    /\ lo = fm.doc_start_[q.doc] + q.off
    /\ hi = lo + Len(Abstract!Excerpt(c, q.doc, q.off, q.len))
    /\ out = [j \in 1..(hi - lo) |-> out[j]]

Answered == res = <<Abstract!Answer(corpus, req[1])>>

AnswerHolds ==
    /\ pc \in BuildPcs => [docs |-> arg[1].docs, cf |-> arg[1].cf] \in Corpora
    /\ pc # "done" => res = <<>>
    /\ pc = "interval" => Found
    /\ pc \in {"rows", "walk"} => Listing
    /\ pc = "extract" => Asked
    /\ pc = "done" => Answered
    /\ pc # "stray"

\* A request of the search.
LEMMA SearchRequest ==
    ASSUME IInv, pc \in {"search", "interval", "rows", "walk"}
    PROVE  /\ pc \notin BuildPcs
           /\ req[1] \in Requests /\ req[1].op \in SearchOps /\ req[1].p \in Seq(Bytes)
           /\ lo \in 0..M(fm) /\ hi \in 0..M(fm) /\ lo \in Nat /\ hi \in Nat
           /\ fm.text_len_ \in Nat /\ M(fm) = fm.text_len_ + 1
<1>1. pc \notin BuildPcs /\ pc \in QueryPcs
  BY DEF BuildPcs, LatePcs, QueryPcs
<1>2. req[1] \in Requests /\ req[1].op # "Extract" /\ lo \in 0..M(fm) /\ hi \in 0..M(fm)
  BY <1>1 DEF IInv, SearchHolds
<1>3. fm.text_len_ \in Nat /\ M(fm) = fm.text_len_ + 1
  BY DEF IInv, ObjectHolds, M
<1> QED BY <1>1, <1>2, <1>3, CallAssumption

\* What is sought spells the pattern, with a separator behind it for a suffix
\* query.
LEMMA SoughtSpells ==
    ASSUME NEW c, Mirrors(c), req[1].p \in Seq(Bytes), req[1].p # <<>>
    PROVE  \E w \in Seq(Int) :
             /\ Spelled(c, req[1].p, w)
             /\ Sought = IF req[1].op \in SuffixOps THEN Append(w, 1) ELSE w
<1>1. PICK p \in Seq(Bytes) : p = req[1].p
  OBVIOUS
<1>2. PICK f \in [Bytes -> Int] : f = fm.byte_to_id_ /\ f = ByteToId(c.docs, c.cf)
  BY DEF Mirrors
<1> DEFINE w == Ids(f, p, 0)
<1>3. Spells(w, f, p) /\ w \in Seq(Int)
  BY WordSpells
<1>4. Sought = IF req[1].op \in SuffixOps THEN Append(w, 1) ELSE w
  BY <1>1, <1>2 DEF Sought, Word
<1> HIDE DEF w
<1> QED BY <1>1, <1>2, <1>3, <1>4 DEF Spelled

\* Build and its caller.
LEMMA BuildAnswers ==
    ASSUME ThrowsEarly, IInv, IInv', AnswerHolds, BuildCall \/ BuildStep
    PROVE  AnswerHolds'
<1>1. pc' \in BuildPcs \cup {"idle"}
  BY DEF BuildCall, BuildStep, BuildLayout, BuildAlphabet, BuildSort, BuildClearSamples,
         BuildSamples, BuildBitmap, BuildCTable, BuildWavelet, BuildGroups, BuildDerived,
         BuildThrow, BuildPcs, LatePcs
<1>2. res' = <<>>
  BY <1>1 DEF IInv, BuildHolds, SearchHolds, AtRest
<1>3. pc' \in BuildPcs => ([docs |-> arg[1].docs, cf |-> arg[1].cf] \in Corpora)'
  <2>1. CASE BuildCall
    <3>1. PICK c \in Corpora, rate \in Rates :
            arg' = <<[docs |-> c.docs, cf |-> c.cf, rate |-> rate]>>
      BY <2>1 DEF BuildCall
    <3>2. c = [docs |-> c.docs, cf |-> c.cf]
      BY CallAssumption
    <3>3. arg'[1].docs = c.docs /\ arg'[1].cf = c.cf
      BY <3>1
    <3> QED BY <3>2, <3>3
  <2>2. CASE BuildStep
    <3>1. pc' \in BuildPcs => pc \in BuildPcs /\ arg' = arg
      BY <2>2 DEF BuildStep, BuildLayout, BuildAlphabet, BuildSort, BuildClearSamples,
                  BuildSamples, BuildBitmap, BuildCTable, BuildWavelet, BuildGroups,
                  BuildDerived, BuildThrow, BuildPcs, LatePcs, build
    <3> QED BY <3>1 DEF AnswerHolds
  <2> QED BY <2>1, <2>2
<1>4. pc' \notin {"interval", "rows", "walk", "extract", "done", "stray"}
  BY <1>1 DEF BuildPcs, LatePcs
<1> QED BY <1>2, <1>3, <1>4 DEF AnswerHolds

\* The calls, and the end of a query.
LEMMA CallAnswers ==
    ASSUME IInv, IInv', AnswerHolds,
           \/ \E q \in Requests : CallSearch(q) \/ CallExtract(q)
           \/ Return
    PROVE  AnswerHolds'
<1>1. CASE Return
  BY <1>1 DEF Return, AnswerHolds, BuildPcs, LatePcs
<1>2. ASSUME NEW q \in Requests, CallExtract(q) PROVE AnswerHolds'
  BY <1>2 DEF CallExtract, AnswerHolds, BuildPcs, LatePcs
<1>3. ASSUME NEW q \in Requests, CallSearch(q) PROVE AnswerHolds'
  <2>1. /\ pc = "idle" /\ req' = <<q>> /\ req'[1] = q /\ res' = res /\ fm' = fm
        /\ pc' \in {"interval", "search"}
    BY <1>3 DEF CallSearch
  <2>2. res' = <<>>
    BY <2>1 DEF AnswerHolds
  <2>3. ASSUME pc' = "interval" PROVE Found'
    <3>1. ~Valid(fm) \/ q.p = <<>>
      BY <1>3, <2>3 DEF CallSearch
    <3>2. lo' = 0 /\ hi' = IF Valid(fm) /\ q.op = "Count" THEN M(fm) ELSE 0
      BY <1>3, <3>1 DEF CallSearch
    <3>3. ~ Searching'
      BY <2>1, <3>1 DEF Searching, Valid
    <3>4. lo' <= hi'
      <4>1. M(fm) \in Nat
        BY DEF IInv, ObjectHolds, M
      <4> QED BY <3>2, <4>1
    <3>5. hi' = IF Valid(fm)' /\ req'[1].op = "Count" THEN M(fm)' ELSE 0
      BY <2>1, <3>2 DEF Valid, M
    <3> QED BY <3>2, <3>3, <3>4, <3>5 DEF Found
  <2> QED BY <2>1, <2>2, <2>3 DEF AnswerHolds, BuildPcs, LatePcs
<1> QED BY <1>1, <1>2, <1>3

\* The search ends with the rows of the whole pattern.
LEMMA SearchAnswers ==
    ASSUME IInv, IInv', AnswerHolds, SearchStep
    PROVE  AnswerHolds'
<1> DEFINE p == req[1].p
           op == req[1].op
           f == fm.byte_to_id_
           id == f[p[k]]
           nlo == Extend(fm, id, lo)
           nhi == Extend(fm, id, hi)
<1>1. /\ pc = "search" /\ UNCHANGED <<fm, build, req, res>> /\ pc' \in {"interval", "search"}
  BY DEF SearchStep
<1>2. /\ pc \notin BuildPcs /\ p \in Seq(Bytes) /\ lo \in 0..M(fm) /\ hi \in 0..M(fm)
      /\ fm.text_len_ \in Nat /\ M(fm) = fm.text_len_ + 1
  BY <1>1, SearchRequest
<1>3. Valid(fm) /\ k \in 1..Len(p) /\ Matching
  BY <1>1 DEF IInv, SearchHolds
<1>4. res' = <<>>
  BY <1>1 DEF AnswerHolds
<1>5. Serves(fm, t, sa) /\ Mirrors(corpus[1])
  BY <1>2, <1>3, ValidServes, ValidMirrors
<1>6. f \in [Bytes -> Int] /\ Searching
  BY <1>2, <1>3, <1>5 DEF Mirrors, Searching
<1>7. Fronted(Word(f, p, k - 1, op), id, Word(f, p, k, op))
  BY <1>2, <1>3, <1>6, WordStep
<1>8. ASSUME pc' = "interval" PROVE Found'
  <2>1. CASE id < 0 \/ nlo >= nhi
    <3>1. lo' = 0 /\ hi' = 0
      BY <2>1 DEF SearchStep, NextByte
    <3>2. RowsOf(t, sa, Word(f, p, k - 1, op)) = {}
      <4>1. p[k] \in Bytes
        BY <1>2, <1>3
      <4>2. CASE id < 0
        <5> SUFFICES ASSUME NEW r \in DOMAIN sa, StandsAt(t, sa[r], Word(f, p, k - 1, op)) PROVE FALSE
          BY DEF RowsOf
        <5>1. Len(Word(f, p, k, op)) \in Nat /\ Len(Word(f, p, k - 1, op)) = Len(Word(f, p, k, op)) + 1
              /\ Word(f, p, k - 1, op)[1] = id
          BY <1>7 DEF Fronted
        <5>2. 1 \in 1..Len(Word(f, p, k - 1, op))
          BY <5>1
        <5>3. sa[r] + 1 - 1 \in DOMAIN t /\ t[sa[r] + 1 - 1] = id
          BY <5>1, <5>2 DEF StandsAt
        <5>4. \A x \in DOMAIN t : t[x] \in Nat
          BY <1>5 DEF Serves, Ended
        <5> HIDE DEF id
        <5> QED BY <4>2, <5>3, <5>4
      <4>3. CASE ~(id < 0)
        <5>1. PICK c \in 1..(fm.sigma_ - 1) : c = id
          BY <1>5, <4>1, <4>3 DEF Serves
        <5>2. c \in 0..(fm.sigma_ - 1) /\ lo \in 0..(fm.text_len_ + 1) /\ hi \in 0..(fm.text_len_ + 1)
          BY <1>2
        <5>3. RowsOf(t, sa, Word(f, p, k, op)) = lo..(hi - 1)
          BY <1>3 DEF Matching, Matched, Word, Ids
        <5>4. RowsOf(t, sa, Word(f, p, k - 1, op)) = Extend(fm, c, lo)..(Extend(fm, c, hi) - 1)
          BY <1>5, <1>7, <5>1, <5>2, <5>3, ExtendRows
        <5>5. Extend(fm, c, lo) \in 0..(fm.text_len_ + 1) /\ Extend(fm, c, hi) \in 0..(fm.text_len_ + 1)
          BY <1>5, <5>2, ExtendIsCut
        <5>6. Extend(fm, c, lo) >= Extend(fm, c, hi)
          BY <2>1, <4>3, <5>1
        <5> QED BY <5>4, <5>5, <5>6
      <4> QED BY <4>2, <4>3
    <3>3. RowsOf(t, sa, Word(f, p, 0, op)) = {}
      <4>1. k - 1 \in 0..(Len(p) - 1)
        BY <1>2, <1>3
      <4>2. Sorted(t, fm.text_len_, sa) /\ DOMAIN t = 0..fm.text_len_
        BY <1>5 DEF Serves, Ended
      <4> HIDE DEF f, p, op
      <4>3. f \in [Bytes -> Int] /\ p \in Seq(Bytes)
        BY <1>2, <1>6
      <4> QED BY <1>2, <3>2, <4>1, <4>2, <4>3, NoRows
    <3>4. Searching' /\ RowsOf(t, sa, Sought)' = {}
      BY <1>1, <1>6, <3>3 DEF Searching, Sought, Valid, build
    <3>5. lo' <= hi' /\ lo'..(hi' - 1) = {}
      BY <3>1
    <3> QED BY <3>4, <3>5 DEF Found
  <2>2. CASE ~(id < 0 \/ nlo >= nhi)
    <3>1. lo' = nlo /\ hi' = nhi /\ k' = k - 1 /\ k = 1
      BY <1>8, <2>2 DEF SearchStep, NextByte
    <3>2. lo' < hi'
      <4>1. lo' \in Int /\ hi' \in Int
        BY <1>8 DEF IInv, SearchHolds, ObjectHolds, M
      <4> QED BY <2>2, <3>1, <4>1
    <3>3. Matching'
      BY <1>8, <3>2 DEF IInv, SearchHolds
    <3>4. k' = 0
      BY <3>1
    <3>5. Matched' = Sought'
      BY <3>4 DEF Matched, Sought, Word, Ids
    <3>6. Searching'
      BY <1>1, <1>6 DEF Searching, Valid
    <3>7. lo' <= hi'
      <4>1. lo' \in Int /\ hi' \in Int
        BY <1>8 DEF IInv, SearchHolds, ObjectHolds, M
      <4> QED BY <3>2, <4>1
    <3> QED BY <3>3, <3>5, <3>6, <3>7 DEF Found, Matching
  <2> QED BY <2>1, <2>2
<1> QED BY <1>1, <1>4, <1>8 DEF AnswerHolds, BuildPcs, LatePcs

\* An index answers for its corpus.
LEMMA IndexAnswer ==
    ASSUME corpus # <<>>, NEW q
    PROVE  Abstract!Answer(corpus, q) = Abstract!AnswerFor(corpus[1], q)
  BY DEF Abstract!Answer

\* A query that ends with the answer.
LEMMA Answers ==
    ASSUME NEW x, Respond(x), UNCHANGED <<corpus, req>>, x = Abstract!Answer(corpus, req[1])
    PROVE  AnswerHolds'
<1>1. res' = <<x>> /\ pc' = "done" /\ corpus' = corpus /\ req' = req
  BY DEF Respond
<1>2. Answered'
  <2>1. res' = <<Abstract!Answer(corpus, req[1])>>
    BY <1>1
  <2>2. Abstract!Answer(corpus, req[1])' = Abstract!Answer(corpus, req[1])
    BY <1>1
  <2> QED BY <2>1, <2>2 DEF Answered
<1> QED BY <1>1, <1>2 DEF AnswerHolds, BuildPcs, LatePcs

\* The queries that count.
LEMMA CountAnswers ==
    ASSUME IInv, AnswerHolds, CountInterval
    PROVE  AnswerHolds'
<1> DEFINE c == corpus[1]
           q == req[1]
           s == fm.wm_
           pair(b) == RankIn(s, 0, b) + RankIn(s, 1, b)
           x == IF q.op = "CountPrefixDocs" /\ lo < hi THEN pair(hi) - pair(lo) ELSE hi - lo
<1>1. /\ pc = "interval" /\ q.op \in CountOps /\ Respond(x) /\ UNCHANGED <<corpus, req>>
  BY DEF CountInterval, build
<1>2. /\ pc \notin BuildPcs /\ q.op \in SearchOps /\ q.p \in Seq(Bytes)
      /\ lo \in Nat /\ hi \in Nat
      /\ fm.text_len_ \in Nat /\ M(fm) = fm.text_len_ + 1
  BY <1>1, SearchRequest
<1>3. Found
  BY <1>1 DEF AnswerHolds
<1>4. q.op \in {"Count", "CountPrefixDocs", "CountSuffixDocs"}
  BY <1>1 DEF CountOps
<1>5. CASE Searching
  <2>1. corpus # <<>> /\ Mirrors(c) /\ q.p # <<>>
    BY <1>2, <1>5, ValidMirrors DEF Searching
  <2>2. lo <= hi /\ RowsOf(t, sa, Sought) = lo..(hi - 1)
    BY <1>3, <1>5 DEF Found
  <2>3. PICK w \in Seq(Int) :
          /\ Spelled(c, q.p, w)
          /\ Sought = IF q.op \in SuffixOps THEN Append(w, 1) ELSE w
    BY <1>2, <2>1, SoughtSpells
  <2>4. Indexed(c, sa) /\ t = TextOf(c.docs, c.cf) /\ s = Bwt(TextOf(c.docs, c.cf), sa)
    BY <2>1 DEF Mirrors
  <2>5. Covers(c, sa, Sought, lo, hi)
    BY <1>2, <2>2, <2>4 DEF Covers
  <2>6. Abstract!Answer(corpus, q) = Abstract!AnswerFor(c, q)
    BY <2>1, IndexAnswer
  <2>7. CASE q.op = "Count"
    <3>1. Sought = w /\ x = hi - lo
      BY <2>3, <2>7 DEF SuffixOps
    <3>2. hi - lo = Cardinality(Abstract!Occurrences(c, q.p))
      BY <2>2, <2>3, <2>4, <2>5, <3>1, CountAnswer
    <3>3. Abstract!AnswerFor(c, q) = Cardinality(Abstract!Occurrences(c, q.p))
      BY <2>1, <2>7, AnswerOf
    <3> QED BY <1>1, <2>6, <3>1, <3>2, <3>3, Answers
  <2>8. CASE q.op = "CountSuffixDocs"
    <3>1. Sought = Append(w, 1) /\ x = hi - lo
      BY <2>3, <2>8 DEF SuffixOps
    <3>2. hi - lo = Cardinality(Abstract!EndingWith(c, q.p))
      BY <2>2, <2>3, <2>4, <2>5, <3>1, SuffixAnswer
    <3>3. Abstract!AnswerFor(c, q) = Cardinality(Abstract!EndingWith(c, q.p))
      BY <2>1, <2>8, AnswerOf
    <3> QED BY <1>1, <2>6, <3>1, <3>2, <3>3, Answers
  <2>9. CASE q.op = "CountPrefixDocs"
    <3>1. Sought = w
      BY <2>3, <2>9 DEF SuffixOps
    <3>2. pair(hi) - pair(lo) = Cardinality(Abstract!StartingWith(c, q.p))
      BY <2>2, <2>3, <2>4, <2>5, <3>1, PrefixAnswer
    <3>3. x = pair(hi) - pair(lo)
      <4>1. CASE lo < hi
        BY <2>9, <4>1
      <4>2. CASE ~(lo < hi)
        <5>1. lo = hi
          BY <1>2, <2>2, <4>2
        <5>2. RankIn(s, 0, hi) \in Nat /\ RankIn(s, 1, hi) \in Nat
          BY <1>2, <2>2, RankBetween
        <5>3. x = hi - lo
          BY <4>2
        <5> QED BY <1>2, <5>1, <5>2, <5>3
      <4> QED BY <4>1, <4>2
    <3>4. Abstract!AnswerFor(c, q) = Cardinality(Abstract!StartingWith(c, q.p))
      BY <2>1, <2>9, AnswerOf
    <3> QED BY <1>1, <2>6, <3>2, <3>3, <3>4, Answers
  <2> QED BY <1>4, <2>7, <2>8, <2>9
<1>6. CASE ~ Searching
  <2>1. lo = 0 /\ hi = IF Valid(fm) /\ q.op = "Count" THEN M(fm) ELSE 0
    BY <1>3, <1>6 DEF Found
  <2>2. corpus = <<>> \/ q.p = <<>>
    BY <1>2, <1>6, NoIndex DEF Searching
  <2>3. x = IF Valid(fm) /\ q.op = "Count" THEN M(fm) ELSE 0
    <3>1. ~(q.op = "CountPrefixDocs" /\ lo < hi)
      BY <2>1
    <3>2. x = hi - lo /\ M(fm) \in Nat
      BY <1>2, <3>1
    <3> QED BY <2>1, <3>2
  <2>4. CASE q.op = "Count"
    <3>1. Abstract!Answer(corpus, q) = IF corpus = <<>> THEN 0 ELSE Abstract!Positions(c)
      BY <1>2, <2>2, <2>4, NoAnswer
    <3>2. CASE Valid(fm)
      <4>1. corpus # <<>> /\ Mirrors(c)
        BY <1>2, <3>2, ValidMirrors
      <4>2. Abstract!Positions(c) = DocBounds(c.docs)[Len(c.docs)] + 1
        BY <4>1, PositionsOf DEF Mirrors, Indexed
      <4>3. Abstract!Positions(c) = M(fm)
        BY <1>2, <4>1, <4>2 DEF Mirrors
      <4> QED BY <1>1, <2>3, <2>4, <3>1, <3>2, <4>1, <4>3, Answers
    <3>3. CASE ~ Valid(fm)
      <4>1. corpus = <<>>
        BY <1>2, <3>3, NoIndex
      <4> QED BY <1>1, <2>3, <3>1, <3>3, <4>1, Answers
    <3> QED BY <3>2, <3>3
  <2>5. CASE q.op # "Count"
    <3>1. Abstract!Answer(corpus, q) = 0
      BY <1>2, <1>4, <2>2, <2>5, NoAnswer
    <3> QED BY <1>1, <2>3, <2>5, <3>1, Answers
  <2> QED BY <2>4, <2>5
<1> QED BY <1>5, <1>6

\* The rows of a locating query before its first walk.
LEMMA LocateStartAnswers ==
    ASSUME IInv, IInv', AnswerHolds, LocateInterval
    PROVE  AnswerHolds'
<1> DEFINE c == corpus[1]
           q == req[1]
           prefix == q.op = "LocatePrefixDocs" /\ lo < hi
<1>1. /\ pc = "interval" /\ pc' = "rows" /\ q.op \notin CountOps /\ UNCHANGED <<fm, build, req, res>>
      /\ lo' = (IF prefix THEN Extend(fm, 1, lo) ELSE lo)
      /\ hi' = (IF prefix THEN Extend(fm, 1, hi) ELSE hi)
      /\ out' = (IF prefix THEN FirstDoc ELSE Nothing)
      /\ i' = lo'
  BY DEF LocateInterval
<1>2. /\ pc \notin BuildPcs /\ q.op \in SearchOps /\ q.p \in Seq(Bytes)
      /\ lo \in 0..M(fm) /\ hi \in 0..M(fm) /\ lo \in Nat /\ hi \in Nat
      /\ fm.text_len_ \in Nat /\ M(fm) = fm.text_len_ + 1
  BY <1>1, SearchRequest
<1>3. Found /\ res = <<>>
  BY <1>1 DEF AnswerHolds
<1>4. /\ Searching' <=> Searching
      /\ Listed' = Listed /\ t' = t /\ sa' = sa /\ req' = req /\ corpus' = corpus
  BY <1>1 DEF Searching, Valid, Listed, Sought, build
<1>5. lo' \in Nat /\ i' = lo' /\ lo' <= i'
  <2>1. lo' \in 0..M(fm)' /\ M(fm)' \in Nat
    BY <1>1 DEF IInv, SearchHolds, ObjectHolds, M
  <2> QED BY <1>1, <2>1
<1>6. CASE ~ Searching
  <2>1. lo = 0 /\ hi = 0
    BY <1>1, <1>3, <1>6 DEF Found, CountOps
  <2>2. ~ prefix
    BY <2>1
  <2>3. hi' = 0 /\ out' = Nothing
    BY <1>1, <2>1, <2>2
  <2>4. Listing'
    BY <1>1, <1>4, <1>5, <1>6, <2>3 DEF Listing
  <2> QED BY <1>1, <1>3, <2>4 DEF AnswerHolds, BuildPcs, LatePcs
<1>7. CASE Searching
  <2>1. corpus # <<>> /\ Mirrors(c) /\ q.p # <<>> /\ Serves(fm, t, sa)
    BY <1>2, <1>7, ValidMirrors, ValidServes DEF Searching
  <2>2. lo <= hi /\ RowsOf(t, sa, Sought) = lo..(hi - 1)
    BY <1>3, <1>7 DEF Found
  <2>3. PICK w \in Seq(Int) :
          /\ Spelled(c, q.p, w)
          /\ Sought = IF q.op \in SuffixOps THEN Append(w, 1) ELSE w
    BY <1>2, <2>1, SoughtSpells
  <2>4. Indexed(c, sa) /\ t = TextOf(c.docs, c.cf) /\ fm.wm_ = Bwt(TextOf(c.docs, c.cf), sa)
    BY <2>1 DEF Mirrors
  <2>5. lo'..(i' - 1) = {}
    <3>1. PICK x \in Nat : x = lo' /\ x = i'
      BY <1>5
    <3>2. x..(x - 1) = {}
      OBVIOUS
    <3> QED BY <3>1, <3>2
  <2>6. CASE q.op = "LocatePrefixDocs"
    <3>1. Sought = w /\ Listed = <<1>> \o w
      BY <2>3, <2>6 DEF SuffixOps, Listed
    <3>2. Fronted(Listed, 1, Sought)
      BY <3>1, SeparatorFronted
    <3>3. 1 \in 1..(fm.sigma_ - 1) /\ lo \in 0..(fm.text_len_ + 1) /\ hi \in 0..(fm.text_len_ + 1)
          /\ 1 \in 0..(fm.sigma_ - 1)
      BY <1>2, <2>1 DEF Serves, Ended
    <3>4. RowsOf(t, sa, Listed) = Extend(fm, 1, lo)..(Extend(fm, 1, hi) - 1)
      BY <2>1, <2>2, <3>2, <3>3, ExtendRows
    <3>5. RowsOf(t, sa, Listed) = lo'..(hi' - 1)
      <4>1. CASE lo < hi
        BY <1>1, <2>6, <3>4, <4>1
      <4>2. CASE ~(lo < hi)
        <5>1. lo = hi
          BY <1>2, <2>2, <4>2
        <5>2. Extend(fm, 1, lo) \in 0..(fm.text_len_ + 1)
          BY <2>1, <3>3, ExtendIsCut
        <5>3. RowsOf(t, sa, Listed) = {}
          BY <3>4, <5>1, <5>2
        <5>4. lo' = lo /\ hi' = hi
          BY <1>1, <4>2
        <5>5. lo'..(hi' - 1) = {}
          BY <1>2, <5>1, <5>4
        <5> QED BY <5>3, <5>5
      <4> QED BY <4>1, <4>2
    <3>6. Covers(c, sa, w, lo, hi)
      BY <1>2, <2>2, <2>4, <3>1 DEF Covers
    <3>7. RankIn(fm.wm_, 0, lo) < RankIn(fm.wm_, 0, hi) <=> 0 \in Abstract!StartingWith(c, q.p)
      BY <2>2, <2>3, <2>4, <3>6, PrefixAnswer
    <3>8. DOMAIN out' = FirstDocs
      <4>1. DOMAIN Nothing = {} /\ DOMAIN Push(Nothing, 0) = {0}
        BY DEF Nothing, Push
      <4>2. CASE lo < hi
        <5>1. out' = FirstDoc
          BY <1>1, <2>6, <4>2
        <5>2. CASE 0 \in Abstract!StartingWith(c, q.p)
          BY <3>7, <4>1, <5>1, <5>2 DEF FirstDoc, FirstDocs
        <5>3. CASE 0 \notin Abstract!StartingWith(c, q.p)
          BY <3>7, <4>1, <5>1, <5>3 DEF FirstDoc, FirstDocs
        <5> QED BY <5>2, <5>3
      <4>3. CASE ~(lo < hi)
        <5>1. lo = hi
          BY <1>2, <2>2, <4>3
        <5>2. RankIn(fm.wm_, 0, lo) \in Nat
          BY <1>2, <2>2, RankBetween
        <5>3. ~(RankIn(fm.wm_, 0, lo) < RankIn(fm.wm_, 0, hi))
          BY <5>1, <5>2
        <5>4. 0 \notin Abstract!StartingWith(c, q.p)
          BY <3>7, <5>3
        <5>5. out' = Nothing
          BY <1>1, <4>3
        <5> QED BY <4>1, <5>4, <5>5 DEF FirstDocs
      <4> QED BY <4>2, <4>3
    <3>9. FirstDocs' = FirstDocs
      BY <1>4 DEF FirstDocs
    <3>10. Collected'
      <4>1. {Pushed'[r] : r \in lo'..(i' - 1)} = {}
        BY <2>5
      <4> QED BY <1>4, <2>6, <3>8, <3>9, <4>1 DEF Collected
    <3>11. Listing'
      BY <1>1, <1>4, <1>5, <1>7, <3>5, <3>10 DEF Listing
    <3> QED BY <1>1, <1>3, <3>11 DEF AnswerHolds, BuildPcs, LatePcs
  <2>7. CASE q.op # "LocatePrefixDocs"
    <3>1. lo' = lo /\ hi' = hi /\ out' = Nothing /\ Listed = Sought
      BY <1>1, <2>7 DEF Listed
    <3>2. Collected'
      <4>1. ASSUME NEW F PROVE Gather(F, lo', i') = Nothing
        BY <2>5 DEF Gather, Nothing
      <4> QED BY <1>4, <2>7, <3>1, <4>1 DEF Collected
    <3>3. Listing'
      BY <1>1, <1>4, <1>5, <1>7, <2>2, <3>1, <3>2 DEF Listing
    <3> QED BY <1>1, <1>3, <3>3 DEF AnswerHolds, BuildPcs, LatePcs
  <2> QED BY <2>6, <2>7
<1> QED BY <1>6, <1>7

\* A walk changes nothing of what was collected.
LEMMA WalkAnswers ==
    ASSUME AnswerHolds, StartRow \/ WalkStep
    PROVE  AnswerHolds'
<1>1. /\ pc \in {"rows", "walk"} /\ pc' = "walk"
      /\ UNCHANGED <<fm, build, req, res, lo, hi, i, out>>
  BY DEF StartRow, WalkStep
<1>2. Listing /\ res = <<>>
  BY <1>1 DEF AnswerHolds
<1>3. Listing'
  BY <1>1, <1>2 DEF Listing, Searching, Valid, Listed, Sought, Collected, FirstDocs, Pushed, build
<1> QED BY <1>1, <1>2, <1>3 DEF AnswerHolds, BuildPcs, LatePcs

\* The row of a query that is not a prefix query is not that of the sentinel.
LEMMA RowInText ==
    ASSUME NEW c, NEW a, Indexed(c, a), NEW p, NEW w, Spelled(c, p, w),
           NEW v, v = w \/ v = Append(w, 1), NEW r \in RowsOf(TextOf(c.docs, c.cf), a, v)
    PROVE  a[r] < DocBounds(c.docs)[Len(c.docs)]
<1>1. PICK docs \in Seq(Seq(Bytes)), cf \in BOOLEAN : docs = c.docs /\ cf = c.cf
  BY DEF Indexed, Arguments
<1>2. PICK P \in Seq(Bytes) : P = p /\ P # <<>> /\ Spells(w, ByteToId(docs, cf), P)
  BY <1>1 DEF Spelled
<1>3. Sorted(TextOf(docs, cf), DocBounds(docs)[Len(docs)], a)
  BY <1>1 DEF Indexed
<1>4. \E H : Hits(docs, cf, v, H)
  BY <1>2, WordHits
<1>5. PICK H : Hits(docs, cf, v, H)
  BY <1>4
<1>6. HitRows(docs, a, RowsOf(TextOf(docs, cf), a, v), H)
  BY <1>3, <1>5, RowHits
<1> QED BY <1>1, <1>6 DEF HitRows

\* The end of a walk pushes what its row stands for.
LEMMA WalkEndAnswers ==
    ASSUME IInv, AnswerHolds, WalkEnd
    PROVE  AnswerHolds'
<1> DEFINE c == corpus[1]
           q == req[1]
           pos == SampleVal(fm, row) + steps
<1>1. /\ pc = "walk" /\ pc' = "rows" /\ row \in fm.sampled_bv_ /\ i' = i + 1
      /\ UNCHANGED <<fm, build, req, res, lo, hi>>
  BY DEF WalkEnd
<1>2. /\ pc \notin BuildPcs /\ q.op \in SearchOps /\ q.p \in Seq(Bytes)
      /\ lo \in Nat /\ hi \in Nat /\ hi \in 0..M(fm)
      /\ fm.text_len_ \in Nat /\ M(fm) = fm.text_len_ + 1
  BY <1>1, SearchRequest
<1>3. /\ Valid(fm) /\ i < hi /\ row \in 0..fm.text_len_ /\ steps \in Nat
      /\ sa[row] + steps = sa[i] /\ i \in 0..M(fm)
  BY <1>1 DEF IInv, SearchHolds
<1>4. Listing /\ res = <<>>
  BY <1>1 DEF AnswerHolds
<1>5. i \in Nat /\ lo <= i /\ i \in lo..(hi - 1) /\ i \in 0..fm.text_len_
  <2>1. lo <= i
    BY <1>4 DEF Listing
  <2> QED BY <1>2, <1>3, <2>1
<1>6. Searching
  <2> SUFFICES ASSUME ~ Searching PROVE FALSE
    OBVIOUS
  <2>1. hi = 0
    BY <1>4 DEF Listing
  <2> QED BY <1>3, <1>5, <2>1
<1>7. /\ corpus # <<>> /\ Mirrors(c) /\ q.p # <<>> /\ Serves(fm, t, sa) /\ Sampled(fm, sa)
  BY <1>2, <1>6, ValidMirrors, ValidServes DEF Searching
<1>8. pos = sa[i]
  <2>1. SampleVal(fm, row) = sa[row]
    BY <1>1, <1>3, <1>7, SampleIsPosition
  <2> QED BY <1>3, <2>1
<1>9. RowsOf(t, sa, Listed) = lo..(hi - 1) /\ Collected
  BY <1>4, <1>6 DEF Listing
<1>10. /\ Searching' /\ Listed' = Listed /\ Pushed' = Pushed /\ FirstDocs' = FirstDocs
       /\ t' = t /\ sa' = sa /\ req' = req /\ lo' = lo /\ hi' = hi
  BY <1>1, <1>6 DEF Searching, Valid, Listed, Sought, Pushed, FirstDocs, build
<1>11. out' = Push(out, Pushed[i])
  <2>1. CASE q.op = "LocatePrefixDocs"
    <3>1. out' = Push(out, DocOf(fm.doc_start_, pos + 1))
      BY <2>1 DEF WalkEnd
    <3>2. Pushed[i] = DocOf(fm.doc_start_, sa[i] + 1)
      BY <1>5, <2>1 DEF Pushed
    <3> QED BY <1>8, <3>1, <3>2
  <2>2. CASE q.op # "LocatePrefixDocs"
    <3>1. PICK w \in Seq(Int) :
            /\ Spelled(c, q.p, w)
            /\ Sought = IF q.op \in SuffixOps THEN Append(w, 1) ELSE w
      BY <1>2, <1>7, SoughtSpells
    <3>2. Listed = w \/ Listed = Append(w, 1)
      BY <2>2, <3>1 DEF Listed
    <3>3. Indexed(c, sa) /\ t = TextOf(c.docs, c.cf) /\ fm.text_len_ = DocBounds(c.docs)[Len(c.docs)]
      BY <1>7 DEF Mirrors
    <3>4. i \in RowsOf(TextOf(c.docs, c.cf), sa, Listed)
      BY <1>5, <1>9, <3>3
    <3>5. sa[i] < fm.text_len_
      BY <3>1, <3>2, <3>3, <3>4, RowInText
    <3>6. sa[i] \in Nat
      <4>1. sa \in [0..fm.text_len_ -> 0..fm.text_len_]
        BY <1>7 DEF Serves, Sorted
      <4>2. sa[i] \in 0..fm.text_len_
        BY <1>5, <4>1
      <4> QED BY <1>2, <4>2
    <3>7. ~(pos >= fm.text_len_)
      BY <1>2, <1>8, <3>5, <3>6
    <3> HIDE DEF pos
    <3>8. CASE q.op = "LocateDocs"
      <4>1. out' = Push(out, Hit(fm, pos))
        BY <3>7, <3>8 DEF WalkEnd, pos
      <4>2. Pushed[i] = Hit(fm, sa[i])
        BY <1>5, <3>8 DEF Pushed
      <4> QED BY <1>8, <4>1, <4>2
    <3>9. CASE q.op # "LocateDocs"
      <4>1. out' = Push(out, DocOf(fm.doc_start_, pos))
        BY <2>2, <3>7, <3>9 DEF WalkEnd, pos
      <4>2. Pushed[i] = DocOf(fm.doc_start_, sa[i])
        BY <1>5, <2>2, <3>9 DEF Pushed
      <4> QED BY <1>8, <4>1, <4>2
    <3> QED BY <3>8, <3>9
  <2> QED BY <2>1, <2>2
<1>12. Collected'
  <2>1. CASE q.op = "LocatePrefixDocs"
    <3>1. DOMAIN out' = DOMAIN out \cup {Pushed[i]}
      BY <1>11 DEF Push
    <3>2. DOMAIN out = FirstDocs \cup {Pushed[r] : r \in lo..(i - 1)}
      BY <1>9, <2>1 DEF Collected
    <3>3. \A r : r \in lo..((i + 1) - 1) <=> r \in lo..(i - 1) \/ r = i
      BY <1>2, <1>5
    <3> HIDE DEF Pushed
    <3>4. {Pushed[r] : r \in lo..((i + 1) - 1)} = {Pushed[r] : r \in lo..(i - 1)} \cup {Pushed[i]}
      BY <3>3
    <3>5. DOMAIN out' = FirstDocs \cup {Pushed[r] : r \in lo..((i + 1) - 1)}
      BY <3>1, <3>2, <3>4
    <3> QED BY <1>1, <1>10, <2>1, <3>5 DEF Collected
  <2>2. CASE q.op # "LocatePrefixDocs"
    <3>1. out = Gather(Pushed, lo, i)
      BY <1>9, <2>2 DEF Collected
    <3>2. Push(Gather(Pushed, lo, i), Pushed[i]) = Gather(Pushed, lo, i + 1)
      BY <1>2, <1>5, GatherStep
    <3> QED BY <1>1, <1>10, <1>11, <2>2, <3>1, <3>2 DEF Collected
  <2> QED BY <2>1, <2>2
<1>13. lo' <= i' /\ i' <= hi'
  BY <1>1, <1>2, <1>3, <1>5, <1>10
<1>14. Listing'
  BY <1>4, <1>9, <1>10, <1>12, <1>13 DEF Listing
<1> QED BY <1>1, <1>4, <1>14 DEF AnswerHolds, BuildPcs, LatePcs

\* The rows are gone through, and what was collected is the answer.
LEMMA LocateEndAnswers ==
    ASSUME IInv, AnswerHolds, LocateEnd
    PROVE  AnswerHolds'
<1> DEFINE c == corpus[1]
           q == req[1]
           x == IF q.op \in {"LocateDocs", "VisitMatchingDocs"} THEN out ELSE DOMAIN out
<1>1. pc = "rows" /\ i >= hi /\ Respond(x) /\ UNCHANGED <<corpus, req>>
  BY DEF LocateEnd, build
<1>2. /\ pc \notin BuildPcs /\ q.op \in SearchOps /\ q.p \in Seq(Bytes)
      /\ lo \in Nat /\ hi \in Nat /\ hi \in 0..M(fm)
      /\ fm.text_len_ \in Nat /\ M(fm) = fm.text_len_ + 1
  BY <1>1, SearchRequest
<1>3. Listing /\ i \in Nat
  BY <1>1 DEF AnswerHolds, IInv, SearchHolds
<1>4. q.op \in {"LocateDocs", "VisitMatchingDocs", "MatchingDocs", "LocatePrefixDocs",
                "LocateSuffixDocs"}
  BY <1>2, <1>3 DEF Listing, SearchOps, CountOps
<1>5. CASE ~ Searching
  <2>1. out = Nothing
    BY <1>3, <1>5 DEF Listing
  <2>2. corpus = <<>> \/ q.p = <<>>
    BY <1>2, <1>5, NoIndex DEF Searching
  <2>3. DOMAIN Nothing = {}
    BY DEF Nothing
  <2>4. CASE q.op \in {"LocateDocs", "VisitMatchingDocs"}
    <3>1. Abstract!Answer(corpus, q) = Nothing
      BY <1>2, <2>2, <2>4, NoAnswer
    <3> QED BY <1>1, <2>1, <2>4, <3>1, Answers
  <2>5. CASE q.op \notin {"LocateDocs", "VisitMatchingDocs"}
    <3>1. Abstract!Answer(corpus, q) = {}
      BY <1>2, <1>4, <2>2, <2>5, NoAnswer
    <3> QED BY <1>1, <2>1, <2>3, <2>5, <3>1, Answers
  <2> QED BY <2>4, <2>5
<1>6. CASE Searching
  <2>1. /\ corpus # <<>> /\ Mirrors(c) /\ q.p # <<>>
    BY <1>2, <1>6, ValidMirrors DEF Searching
  <2>2. RowsOf(t, sa, Listed) = lo..(hi - 1) /\ Collected /\ lo <= i /\ (i = lo \/ i <= hi)
    BY <1>3, <1>6 DEF Listing
  <2>3. PICK w \in Seq(Int) :
          /\ Spelled(c, q.p, w)
          /\ Sought = IF q.op \in SuffixOps THEN Append(w, 1) ELSE w
    BY <1>2, <2>1, SoughtSpells
  <2>4. Indexed(c, sa) /\ t = TextOf(c.docs, c.cf) /\ fm.doc_start_ = DocBounds(c.docs)
    BY <2>1 DEF Mirrors
  <2>5. Covers(c, sa, Listed, lo, hi)
    BY <1>2, <2>2, <2>4 DEF Covers
  <2>6. lo..(i - 1) = lo..(hi - 1)
    BY <1>1, <1>2, <1>3, <2>2
  <2>7. Abstract!Answer(corpus, q) = Abstract!AnswerFor(c, q)
    BY <2>1, IndexAnswer
  <2>8. \A r \in lo..(hi - 1) : r \in 0..fm.text_len_
    BY <1>2
  <2>9. CASE q.op = "LocatePrefixDocs"
    <3>1. Listed = <<1>> \o w
      BY <2>3, <2>9 DEF Listed, SuffixOps
    <3>2. Fronted(Listed, 1, w)
      BY <3>1, SeparatorFronted
    <3>3. GivesNext(Pushed, c, sa, lo, hi)
      BY <2>4, <2>8, <2>9 DEF Pushed, GivesNext
    <3>4. {Pushed[r] : r \in lo..(hi - 1)} = Abstract!StartingWith(c, q.p) \ {0}
      <4>1. \A d : d \in DOMAIN Gather(Pushed, lo, hi) <=> d \in Abstract!StartingWith(c, q.p) /\ d # 0
        BY <2>3, <2>4, <2>5, <3>2, <3>3, StartingAnswer
      <4> QED BY <4>1 DEF Gather
    <3>5. DOMAIN out = FirstDocs \cup {Pushed[r] : r \in lo..(hi - 1)}
      BY <2>2, <2>6, <2>9 DEF Collected
    <3> HIDE DEF Pushed
    <3>6. x = Abstract!StartingWith(c, q.p)
      BY <2>9, <3>4, <3>5 DEF FirstDocs
    <3>7. Abstract!AnswerFor(c, q) = Abstract!StartingWith(c, q.p)
      BY <2>1, <2>9, AnswerOf
    <3> QED BY <1>1, <2>7, <3>6, <3>7, Answers
  <2>10. CASE q.op # "LocatePrefixDocs"
    <3>1. Listed = Sought /\ out = Gather(Pushed, lo, i)
      BY <2>2, <2>10 DEF Listed, Collected
    <3>2. out = Gather(Pushed, lo, hi)
      BY <2>6, <3>1 DEF Gather
    <3>3. CASE q.op = "LocateDocs"
      <4>1. Listed = w
        BY <2>3, <3>1, <3>3 DEF SuffixOps
      <4>2. \A r \in lo..(hi - 1) : Pushed[r] = HitAt(c.docs, sa[r])
        BY <2>4, <2>8, <3>3 DEF Pushed, Hit, HitAt
      <4>3. out = [o \in Abstract!Occurrences(c, q.p) |-> 1]
        BY <2>3, <2>4, <2>5, <3>2, <4>1, <4>2, LocateAnswer
      <4>4. Abstract!AnswerFor(c, q) = [o \in Abstract!Occurrences(c, q.p) |-> 1]
        BY <2>1, <3>3, AnswerOf
      <4>5. x = Abstract!Answer(corpus, q)
        BY <2>7, <3>3, <4>3, <4>4
      <4> QED BY <1>1, <4>5, Answers
    <3>4. CASE q.op # "LocateDocs"
      <4>1. \A r \in lo..(hi - 1) : Pushed[r] = DocOf(DocBounds(c.docs), sa[r])
        BY <2>4, <2>8, <2>10, <3>4 DEF Pushed
      <4>2. CASE q.op = "LocateSuffixDocs"
        <5>1. Listed = Append(w, 1)
          BY <2>3, <3>1, <4>2 DEF SuffixOps
        <5>2. DOMAIN out = Abstract!EndingWith(c, q.p)
          BY <2>3, <2>4, <2>5, <3>2, <4>1, <5>1, EndingAnswer
        <5>3. Abstract!AnswerFor(c, q) = Abstract!EndingWith(c, q.p)
          BY <2>1, <4>2, AnswerOf
        <5>4. x = Abstract!Answer(corpus, q)
          BY <2>7, <4>2, <5>2, <5>3
        <5> QED BY <1>1, <5>4, Answers
      <4>3. CASE q.op \in {"VisitMatchingDocs", "MatchingDocs"}
        <5>1. Listed = w
          BY <2>3, <3>1, <4>3 DEF SuffixOps
        <5>2. out = [d \in Abstract!Containing(c, q.p) |-> Cardinality(Abstract!Offsets(c, q.p, d))]
          BY <2>3, <2>4, <2>5, <3>2, <4>1, <5>1, VisitAnswer
        <5>3. CASE q.op = "VisitMatchingDocs"
          <6>1. Abstract!AnswerFor(c, q)
                  = [d \in Abstract!Containing(c, q.p) |-> Cardinality(Abstract!Offsets(c, q.p, d))]
            BY <2>1, <5>3, AnswerOf
          <6>2. x = Abstract!Answer(corpus, q)
            BY <2>7, <5>2, <5>3, <6>1
          <6> QED BY <1>1, <6>2, Answers
        <5>4. CASE q.op = "MatchingDocs"
          <6>1. Abstract!AnswerFor(c, q) = Abstract!Containing(c, q.p)
            BY <2>1, <5>4, AnswerOf
          <6>2. x = Abstract!Answer(corpus, q)
            BY <2>7, <5>2, <5>4, <6>1
          <6> QED BY <1>1, <6>2, Answers
        <5> QED BY <4>3, <5>3, <5>4
      <4> QED BY <1>4, <2>10, <3>4, <4>2, <4>3
    <3> QED BY <3>3, <3>4
  <2> QED BY <2>9, <2>10
<1> QED BY <1>5, <1>6

-----------------------------------------------------------------------------
(***************************************************************************)
(* The answer of Extract.                                                  *)
(***************************************************************************)

\* How much of a document is there behind an offset.
Clamped(len, avail) == IF len < avail THEN len ELSE avail

\* The bytes that the text of c holds in document d from offset off on.
TextBytes(c, d, off, m) ==
    [j \in 1..m |-> IdToByte(ByteToId(c.docs, c.cf), Sigma(c.docs, c.cf))
                      [TextOf(c.docs, c.cf)[(DocBounds(c.docs)[d] + off) + (j - 1)]]]

\* The excerpt, read from the text.
LEMMA ExcerptText ==
    ASSUME NEW c, Arguments(c), NEW d \in 0..(Len(c.docs) - 1), NEW off \in Nat, NEW len \in Nat,
           off < Len(c.docs[d + 1])
    PROVE  /\ Clamped(len, Len(c.docs[d + 1]) - off) \in Nat
           /\ Len(Abstract!Excerpt(c, d, off, len)) = Clamped(len, Len(c.docs[d + 1]) - off)
           /\ Abstract!Excerpt(c, d, off, len)
                = TextBytes(c, d, off, Clamped(len, Len(c.docs[d + 1]) - off))
<1>1. PICK docs \in Seq(Seq(Bytes)), cf \in BOOLEAN : docs = c.docs /\ cf = c.cf
  BY DEF Arguments
<1> DEFINE doc == docs[d + 1]
           avail == Len(doc) - off
           m == Clamped(len, avail)
           B == DocBounds(docs)
           I == IdToByte(ByteToId(docs, cf), Sigma(docs, cf))
           s == TextOf(docs, cf)
           x == Abstract!Excerpt(c, d, off, len)
<1>2. d \in 0..(Len(docs) - 1) /\ d + 1 \in 1..Len(docs)
  BY <1>1
<1>3. doc \in Seq(Bytes) /\ Len(doc) \in Nat /\ off < Len(doc)
  BY <1>1, <1>2
<1>4. \A y : Abstract!Fold(cf, y) = Fold(cf, y)
  BY DEF Abstract!Fold, Abstract!IsUpper, Fold, IsUpper
<1>5. x = [j \in 1..m |-> Fold(cf, doc[off + j])]
  <2>1. Abstract!Doc(c, d) = doc
    BY <1>1 DEF Abstract!Doc
  <2>2. d \in Abstract!DocIds(c)
    BY <1>1, <1>2 DEF Abstract!DocIds, Abstract!NDocs
  <2>3. ~(off >= Len(doc))
    <3>1. PICK l \in Nat : l = Len(doc)
      BY <1>3
    <3> HIDE DEF doc
    <3> QED BY <1>3, <3>1
  <2> HIDE DEF doc
  <2>4. x = [j \in 1..m |-> Abstract!Fold(cf, doc[off + j])]
    BY <1>1, <2>1, <2>2, <2>3 DEF Abstract!Excerpt, Clamped
  <2> QED BY <1>4, <2>4
<1>6. m \in Nat /\ m <= avail
  <2>1. PICK l \in Nat : l = Len(doc)
    BY <1>3
  <2> HIDE DEF doc
  <2> QED BY <1>3, <2>1 DEF Clamped
<1>7. \A j \in 1..m : off + j \in 1..Len(doc) /\ off + (j - 1) \in 0..Len(doc) /\ off + (j - 1) < Len(doc)
                      /\ (off + (j - 1)) + 1 = off + j
  <2>1. PICK l \in Nat : l = Len(doc)
    BY <1>3
  <2> HIDE DEF doc, m
  <2> QED BY <1>3, <1>6, <2>1
<1>8. ASSUME NEW j \in 1..m PROVE I[s[(B[d] + off) + (j - 1)]] = Fold(cf, doc[off + j])
  <2>1. PICK o \in 0..Len(doc) : o = off + (j - 1) /\ o < Len(doc) /\ o + 1 = off + j
    BY <1>7
  <2>2. B[d] \in Nat
    BY <1>2, DocText
  <2>3. s[B[d] + o] = ByteToId(docs, cf)[doc[o + 1]]
    <3>1. s[B[d] + o] = IF o < Len(doc) THEN ByteToId(docs, cf)[doc[o + 1]] ELSE 1
      BY <1>2, DocText DEF TextOf
    <3> QED BY <2>1, <3>1
  <2>4. doc[o + 1] \in Bytes /\ Fold(cf, doc[o + 1]) \in Present(docs, cf)
    <3>1. o + 1 \in 1..Len(doc)
      BY <1>7, <2>1
    <3> QED BY <1>2, <3>1, PresentFacts
  <2>5. PICK z \in Bytes : z = doc[o + 1] /\ Fold(cf, z) \in Present(docs, cf)
    BY <2>4
  <2>6. I[ByteToId(docs, cf)[z]] = Fold(cf, z)
    BY <2>5, IdToByteFold
  <2>7. B[d] + o = (B[d] + off) + (j - 1)
    <3> HIDE DEF B, m
    <3> QED BY <2>1, <2>2
  <2> HIDE DEF I, s, B, doc, m
  <2> QED BY <2>1, <2>3, <2>5, <2>6, <2>7
<1>9. x = [j \in 1..m |-> I[s[(B[d] + off) + (j - 1)]]]
  BY <1>5, <1>8
<1>10. Len(x) = m
  <2>1. ASSUME NEW j \in 1..m PROVE doc[off + j] \in Bytes
    <3>1. PICK z \in 1..Len(doc) : z = off + j
      BY <1>7
    <3> HIDE DEF doc
    <3> QED BY <1>3, <3>1
  <2>2. \A j \in 1..m : Fold(cf, doc[off + j]) \in Bytes
    BY <2>1, FoldType
  <2>3. x \in [1..m -> Bytes]
    BY <1>5, <2>2
  <2> HIDE DEF x, m
  <2>4. x \in Seq(Bytes)
    BY <1>6, <2>3
  <2> QED BY <1>6, <2>3, <2>4
<1> QED BY <1>1, <1>6, <1>9, <1>10 DEF TextBytes

\* The check of a document id lets the ids of the documents pass, and no others.
LEMMA InDocsExact ==
    ASSUME NoIdWraps, NEW c, Mirrors(c), NEW q \in Requests, q.op = "Extract"
    PROVE  /\ q.doc \in Nat /\ q.off \in Nat /\ q.len \in Nat
           /\ Len(c.docs) \in Nat
           /\ InDocs(q.doc) <=> q.doc \in 0..(Len(c.docs) - 1)
<1>1. PICK docs \in Seq(Seq(Bytes)) : docs = c.docs
  BY DEF Mirrors, Indexed, Arguments
<1>2. PICK d \in Nat : d = q.doc
  BY CallAssumption
<1>3. PICK D \in Nat : D = Len(docs)
  BY <1>1
<1>4. NDocBounds(fm) = D + 1
  <2>1. DOMAIN DocBounds(docs) = 0..D
    BY <1>3, BoundsFacts
  <2>2. Cardinality(0..D) = D + 1
    <3>1. 0 \in Int /\ D \in Int
      OBVIOUS
    <3>2. Cardinality(0..D) = IF 0 > D THEN 0 ELSE D - 0 + 1
      BY <3>1, FS_Interval
    <3> QED BY <3>2
  <2> QED BY <1>1, <2>1, <2>2 DEF NDocBounds, Mirrors
<1>5. PICK W \in Nat : W = DocIdMod /\ d + 1 < W
  BY <1>2 DEF NoIdWraps
<1>6. (d + 1) % W = d + 1
  <2>1. d + 1 \in 0..(W - 1)
    BY <1>5
  <2> QED BY <2>1, SmallMod
<1>7. InDocs(q.doc) <=> d + 1 < D + 1
  BY <1>2, <1>4, <1>5, <1>6 DEF InDocs
<1>8. d + 1 < D + 1 <=> d \in 0..(D - 1)
  OBVIOUS
<1>9. q.doc \in Nat /\ q.off \in Nat /\ q.len \in Nat
  BY CallAssumption
<1> QED BY <1>1, <1>2, <1>3, <1>7, <1>8, <1>9

\* What an index answers to Extract.
LEMMA ExtractAnswer ==
    ASSUME NEW b, NEW q, q.op = "Extract"
    PROVE  Abstract!Answer(b, q)
             = Abstract!Excerpt(IF b = <<>> THEN Abstract!NoDocs ELSE b[1], q.doc, q.off, q.len)
  BY DEF Abstract!Answer, Abstract!AnswerFor

\* Extract of a document that does not exist.
LEMMA ExtractNothingAnswers ==
    ASSUME NoIdWraps, IInv, ExtractHolds, AnswerHolds, ExtractNothing
    PROVE  AnswerHolds'
<1> DEFINE c == corpus[1]
           q == req[1]
           x == IF corpus = <<>> THEN Abstract!NoDocs ELSE c
<1>1. /\ pc = "entry" /\ (~Valid(fm) \/ ~InDocs(q.doc)) /\ Respond(<<>>) /\ UNCHANGED <<corpus, req>>
  BY DEF ExtractNothing, build
<1>2. pc \notin BuildPcs /\ q \in Requests /\ q.op = "Extract"
  BY <1>1 DEF IInv, SearchHolds, ExtractHolds, BuildPcs, LatePcs, QueryPcs
<1>3. q.doc \notin Abstract!DocIds(x)
  <2>1. CASE ~ Valid(fm)
    <3>1. corpus = <<>>
      BY <1>2, <2>1, NoIndex
    <3>2. x = Abstract!NoDocs
      BY <3>1
    <3>3. Len(x.docs) = 0
      BY <3>2 DEF Abstract!NoDocs
    <3> HIDE DEF x
    <3> QED BY <3>3 DEF Abstract!DocIds, Abstract!NDocs
  <2>2. CASE Valid(fm)
    <3>1. corpus # <<>> /\ Mirrors(c)
      BY <1>2, <2>2, ValidMirrors
    <3>2. ~InDocs(q.doc)
      BY <1>1, <2>2
    <3>3. q.doc \notin 0..(Len(c.docs) - 1)
      BY <1>2, <3>1, <3>2, InDocsExact
    <3> QED BY <3>1, <3>3 DEF Abstract!DocIds, Abstract!NDocs
  <2> QED BY <2>1, <2>2
<1>4. Abstract!Excerpt(x, q.doc, q.off, q.len) = <<>>
  BY <1>3 DEF Abstract!Excerpt
<1>5. Abstract!Answer(corpus, q) = <<>>
  BY <1>2, <1>4, ExtractAnswer
<1> QED BY <1>1, <1>5, Answers

\* The range of Extract is that of the excerpt.
LEMMA ExtractAnchorAnswers ==
    ASSUME NoIdWraps, IInv, ExtractHolds, AnswerHolds, ExtractAnchor
    PROVE  AnswerHolds'
<1> DEFINE c == corpus[1]
           q == req[1]
           B == fm.doc_start_
           dlen == (B[q.doc + 1] - 1) - B[q.doc]
           avail == dlen - q.off
           pos == B[q.doc] + q.off
           end == pos + (IF q.len < avail THEN q.len ELSE avail)
           x == Abstract!Excerpt(c, q.doc, q.off, q.len)
<1>1. /\ pc = "entry" /\ Valid(fm) /\ InDocs(q.doc) /\ UNCHANGED <<build, req>>
      /\ fm' = [fm EXCEPT !.isa_sample_ = EnsureIsaSample]
  BY DEF ExtractAnchor
<1>2. pc \notin BuildPcs /\ q \in Requests /\ q.op = "Extract" /\ Shaped(fm) /\ res = <<>>
  BY <1>1 DEF IInv, SearchHolds, ObjectHolds, ExtractHolds, AnswerHolds, BuildPcs, LatePcs, QueryPcs
<1>3. corpus # <<>> /\ Mirrors(c)
  BY <1>1, <1>2, ValidMirrors
<1>4. /\ q.doc \in Nat /\ q.off \in Nat /\ q.len \in Nat
      /\ q.doc \in 0..(Len(c.docs) - 1) /\ Len(c.docs) \in Nat
  BY <1>1, <1>2, <1>3, InDocsExact
<1>5. PICK docs \in Seq(Seq(Bytes)) : docs = c.docs /\ B = DocBounds(docs) /\ Arguments(c)
  BY <1>3 DEF Mirrors, Indexed, Arguments
<1>6. PICK d \in 0..(Len(docs) - 1) : d = q.doc
  BY <1>4, <1>5
<1>7. {q.doc, q.doc + 1} \subseteq DOMAIN B
  <2>1. DOMAIN B = 0..Len(docs)
    BY <1>5, BoundsFacts
  <2>2. d \in 0..Len(docs) /\ d + 1 \in 0..Len(docs)
    OBVIOUS
  <2> QED BY <1>6, <2>1, <2>2
<1>8. PICK l \in Nat : l = Len(docs[d + 1]) /\ dlen = l /\ B[q.doc] \in Nat
  <2>1. d + 1 \in 1..Len(docs)
    OBVIOUS
  <2>2. docs[d + 1] \in Seq(Bytes)
    BY <2>1
  <2>3. PICK l \in Nat : l = Len(docs[d + 1])
    BY <2>2
  <2>4. DocBounds(docs)[d] \in Nat /\ DocBounds(docs)[d + 1] = DocBounds(docs)[d] + Len(docs[d + 1]) + 1
    <3>1. 0 \in 0..Len(docs[d + 1])
      BY <2>3
    <3> QED BY <3>1, DocText
  <2>5. PICK y \in Nat : y = DocBounds(docs)[d]
    BY <2>4
  <2>6. DocBounds(docs)[d + 1] = y + l + 1
    BY <2>3, <2>4, <2>5
  <2>7. B[q.doc] = y /\ B[q.doc + 1] = y + l + 1
    BY <1>5, <1>6, <2>5, <2>6
  <2>8. dlen = l
    BY <2>7
  <2> QED BY <2>3, <2>7, <2>8
<1>9. Abstract!Doc(c, q.doc) = docs[d + 1] /\ q.doc \in Abstract!DocIds(c)
  BY <1>4, <1>5, <1>6 DEF Abstract!Doc, Abstract!DocIds, Abstract!NDocs
<1>10. CASE q.off >= dlen
  <2>1. Respond(<<>>)
    BY <1>7, <1>10 DEF ExtractAnchor
  <2>2. x = <<>>
    BY <1>8, <1>9, <1>10 DEF Abstract!Excerpt
  <2>3. Abstract!Answer(corpus, q) = <<>>
    BY <1>2, <1>3, <2>2, ExtractAnswer
  <2> QED BY <1>1, <2>1, <2>3, Answers DEF build
<1>11. CASE ~(q.off >= dlen)
  <2>1. /\ lo' = pos /\ hi' = end /\ out' = [j \in 1..(end - pos) |-> 0]
        /\ pc' = "extract" /\ res' = res
    BY <1>7, <1>11 DEF ExtractAnchor
  <2>2. q.off < l
    <3>1. ~(q.off >= l)
      BY <1>8, <1>11
    <3>2. PICK off \in Nat : off = q.off
      BY <1>4
    <3> QED BY <3>1, <3>2
  <2>3. Len(x) = Clamped(q.len, l - q.off) /\ Len(x) \in Nat
    <3>1. PICK off \in Nat, len \in Nat : off = q.off /\ len = q.len
      BY <1>4
    <3>2. off < Len(c.docs[d + 1]) /\ d \in 0..(Len(c.docs) - 1)
      BY <1>5, <1>8, <2>2, <3>1
    <3>3. /\ Clamped(len, Len(c.docs[d + 1]) - off) \in Nat
          /\ Len(Abstract!Excerpt(c, d, off, len)) = Clamped(len, Len(c.docs[d + 1]) - off)
      BY <1>5, <3>2, ExcerptText
    <3> QED BY <1>5, <1>6, <1>8, <3>1, <3>3
  <2>4. avail = l - q.off
    BY <1>8
  <2>5. end = pos + Len(x)
    <3>1. end = pos + Clamped(q.len, avail)
      BY DEF Clamped
    <3> HIDE DEF pos, end, avail
    <3> QED BY <2>3, <2>4, <3>1
  <2>6. pos \in Nat
    <3>1. PICK y \in Nat, off \in Nat : y = B[q.doc] /\ off = q.off
      BY <1>4, <1>8
    <3> QED BY <3>1
  <2> HIDE DEF pos, end, avail
  <2>7. end - pos = Len(x)
    BY <2>3, <2>5, <2>6
  <2>8. out' = [j \in 1..(hi' - lo') |-> out'[j]]
    BY <2>1
  <2>9. q.off < Len(Abstract!Doc(c, q.doc))
    BY <1>8, <1>9, <2>2
  <2>10. fm'.doc_start_ = fm.doc_start_ /\ req' = req /\ corpus' = corpus
    BY <1>1, <1>2 DEF Shaped, build
  <2>11. lo' = fm'.doc_start_[q.doc] + q.off
    BY <2>1, <2>10 DEF pos
  <2>12. hi' = lo' + Len(x)
    BY <2>1, <2>5
  <2>13. Asked'
    BY <1>9, <2>8, <2>9, <2>10, <2>11, <2>12 DEF Asked
  <2> QED BY <1>2, <2>1, <2>13 DEF AnswerHolds, BuildPcs, LatePcs
<1> QED BY <1>10, <1>11

\* A step of the walk writes inside the range.
LEMMA ExtractStepAnswers ==
    ASSUME AnswerHolds, ExtractHolds, ExtractStep
    PROVE  AnswerHolds'
<1>1. /\ pc = "extract" /\ pc' = "extract" /\ UNCHANGED <<fm, build, req, res, lo, hi>>
      /\ out' = (IF steps - 1 < hi
                   THEN [out EXCEPT ![steps - lo] = fm.id_to_byte_[fm.wm_[row]]] ELSE out)
  BY DEF ExtractStep
<1>2. Asked /\ res = <<>>
  BY <1>1 DEF AnswerHolds
<1>3. out = [j \in 1..(hi - lo) |-> out[j]]
  BY <1>2 DEF Asked
<1>4. out' = [j \in 1..(hi - lo) |-> out'[j]]
  <2> DEFINE S == 1..(hi - lo)
             v == fm.id_to_byte_[fm.wm_[row]]
             z == steps - lo
  <2>1. out = [j \in S |-> out[j]]
    BY <1>3
  <2> HIDE DEF S, v, z
  <2>2. [out EXCEPT ![z] = v] = [j \in S |-> [out EXCEPT ![z] = v][j]]
    BY <2>1
  <2> QED BY <1>1, <2>1, <2>2 DEF S, v, z
<1>5. Asked'
  <2>1. fm' = fm /\ req' = req /\ corpus' = corpus /\ lo' = lo /\ hi' = hi
    BY <1>1 DEF build
  <2> QED BY <1>2, <1>4, <2>1 DEF Asked
<1> QED BY <1>1, <1>2, <1>5 DEF AnswerHolds, BuildPcs, LatePcs

\* When the walk has passed the start of the range everything is written.
LEMMA ExtractEndAnswers ==
    ASSUME IInv, ExtractHolds, AnswerHolds, ExtractEnd
    PROVE  AnswerHolds'
<1> DEFINE c == corpus[1]
           q == req[1]
           x == Abstract!Excerpt(c, q.doc, q.off, q.len)
<1>1. /\ pc = "extract" /\ steps <= lo /\ Respond(out) /\ UNCHANGED <<corpus, req>>
  BY DEF ExtractEnd, build
<1>2. pc \notin BuildPcs /\ q \in Requests /\ q.op = "Extract" /\ Locals /\ Extracting /\ Asked
  BY <1>1 DEF IInv, SearchHolds, ExtractHolds, AnswerHolds, BuildPcs, LatePcs, QueryPcs
<1>3. corpus # <<>> /\ Mirrors(c)
  BY <1>2, ValidMirrors DEF Extracting
<1>4. PICK docs \in Seq(Seq(Bytes)) : docs = c.docs /\ Arguments(c)
  BY <1>3 DEF Mirrors, Indexed, Arguments
<1>5. PICK d \in 0..(Len(c.docs) - 1), off \in Nat, len \in Nat : d = q.doc /\ off = q.off /\ len = q.len
  BY <1>2, CallAssumption DEF Asked, Abstract!DocIds, Abstract!NDocs
<1>6. off < Len(c.docs[d + 1])
  BY <1>2, <1>5 DEF Asked, Abstract!Doc
<1> DEFINE m == Clamped(len, Len(c.docs[d + 1]) - off)
           I == IdToByte(ByteToId(c.docs, c.cf), Sigma(c.docs, c.cf))
           s == TextOf(c.docs, c.cf)
           b == DocBounds(c.docs)[d]
<1>7. /\ m \in Nat /\ Len(x) = m
      /\ x = [j \in 1..m |-> I[s[(b + off) + (j - 1)]]]
  <2>1. /\ m \in Nat
        /\ Len(Abstract!Excerpt(c, d, off, len)) = m
        /\ Abstract!Excerpt(c, d, off, len) = TextBytes(c, d, off, m)
    BY <1>4, <1>6, ExcerptText
  <2>2. TextBytes(c, d, off, m) = [j \in 1..m |-> I[s[(b + off) + (j - 1)]]]
    BY DEF TextBytes
  <2>3. x = Abstract!Excerpt(c, d, off, len)
    BY <1>5
  <2> HIDE DEF m
  <2> QED BY <2>1, <2>2, <2>3
<1> HIDE DEF m, x
<1>8. lo = b + off /\ hi = lo + m /\ out = [j \in 1..(hi - lo) |-> out[j]]
  BY <1>2, <1>3, <1>5, <1>7 DEF Asked, Mirrors, x
<1>9. lo \in Nat /\ hi \in Nat /\ steps \in Nat
  <2>1. M(fm) \in Nat
    BY DEF IInv, ObjectHolds, M
  <2> QED BY <1>2, <2>1 DEF Locals
<1>10. fm.id_to_byte_ = I /\ t = s
  BY <1>3 DEF Mirrors
<1> HIDE DEF I, s, b
<1>11. hi - lo = m
  BY <1>7, <1>8, <1>9
<1>12. ASSUME NEW j \in 1..m PROVE out[j] = I[s[(b + off) + (j - 1)]]
  <2>1. PICK pos \in Nat : pos = lo + (j - 1)
    BY <1>7, <1>9
  <2>2. pos \in lo..(hi - 1) /\ pos >= steps /\ pos - lo + 1 = j
    <3>1. PICK u \in Nat, v \in Nat, z \in Nat, n \in Nat : u = lo /\ v = hi /\ z = steps /\ n = m
      BY <1>7, <1>9
    <3>2. v = u + n /\ z <= u /\ j \in 1..n /\ pos = u + (j - 1)
      BY <1>1, <1>8, <2>1, <3>1
    <3>3. pos \in u..(v - 1) /\ pos >= z /\ pos - u + 1 = j
      BY <3>2
    <3> QED BY <3>1, <3>3
  <2>3. out[pos - lo + 1] = fm.id_to_byte_[t[pos]]
    BY <1>2, <2>2 DEF Extracting
  <2> QED BY <1>8, <1>10, <2>1, <2>2, <2>3
<1>13. out = x
  <2>1. out = [j \in 1..m |-> out[j]]
    BY <1>8, <1>11
  <2> QED BY <1>7, <1>12, <2>1
<1>14. Abstract!Answer(corpus, q) = x
  BY <1>2, <1>3, ExtractAnswer DEF x
<1> QED BY <1>1, <1>13, <1>14, Answers

-----------------------------------------------------------------------------
(***************************************************************************)
(* The refinement of DocIndex.                                             *)
(***************************************************************************)

\* Every step keeps the third invariant.
LEMMA AnswerNext ==
    ASSUME ThrowsEarly, NoIdWraps, IInv, ExtractHolds, AnswerHolds, [Next]_vars
    PROVE  AnswerHolds'
<1>1. IInv'
  BY NextStep
<1>2. CASE BuildCall \/ BuildStep
  BY <1>1, <1>2, BuildAnswers
<1>3. CASE \/ \E q \in Requests : CallSearch(q) \/ CallExtract(q)
           \/ Return
  BY <1>1, <1>3, CallAnswers
<1>4. CASE SearchStep
  BY <1>1, <1>4, SearchAnswers
<1>5. CASE CountInterval
  BY <1>5, CountAnswers
<1>6. CASE LocateInterval
  BY <1>1, <1>6, LocateStartAnswers
<1>7. CASE StartRow \/ WalkStep
  BY <1>7, WalkAnswers
<1>8. CASE WalkEnd
  BY <1>8, WalkEndAnswers
<1>9. CASE LocateEnd
  BY <1>9, LocateEndAnswers
<1>10. CASE ExtractNothing
  BY <1>10, ExtractNothingAnswers
<1>11. CASE ExtractAnchor
  BY <1>11, ExtractAnchorAnswers
<1>12. CASE ExtractStep
  BY <1>12, ExtractStepAnswers
<1>13. CASE ExtractEnd
  BY <1>13, ExtractEndAnswers
<1>14. CASE UNCHANGED vars
  BY <1>14 DEF vars, build, query, AnswerHolds, Found, Listing, Collected, Pushed, FirstDocs, Asked,
               Answered, Searching, Sought, Listed, Valid, M
<1> QED BY <1>2, <1>3, <1>4, <1>5, <1>6, <1>7, <1>8, <1>9, <1>10, <1>11, <1>12, <1>13, <1>14
        DEF Next, QueryStep

\* The third invariant: every answer is that of the documents.
THEOREM AnswerInvariant ==
    ASSUME ThrowsEarly, NoRebuildAfterAnchor, NoIdWraps
    PROVE  Spec => [](IInv /\ ExtractHolds /\ AnswerHolds)
<1>1. Init => AnswerHolds
  BY DEF Init, AnswerHolds, BuildPcs, LatePcs
<1>2. IInv /\ ExtractHolds /\ AnswerHolds /\ [Next]_vars => AnswerHolds'
  BY AnswerNext
<1> QED BY <1>1, <1>2, ExtractInvariant, PTL DEF Spec

\* A step of Build leaves the caller's view alone, and the last one changes
\* the corpus.
LEMMA BuildSimulates ==
    ASSUME IInv, AnswerHolds, BuildCall \/ BuildStep
    PROVE  Abstract!Build \/ UNCHANGED <<corpus, req, res>>
<1>1. CASE BuildDerived
  <2>1. pc \in BuildPcs /\ UNCHANGED <<req, res>>
        /\ corpus' = <<[docs |-> arg[1].docs, cf |-> arg[1].cf]>>
    BY <1>1 DEF BuildDerived, BuildPcs, LatePcs, query
  <2>2. req = <<>> /\ [docs |-> arg[1].docs, cf |-> arg[1].cf] \in Corpora
    BY <2>1 DEF IInv, BuildHolds, AtRest, AnswerHolds
  <2> QED BY <2>1, <2>2 DEF Abstract!Build
<1>2. CASE \/ BuildCall \/ BuildLayout \/ BuildAlphabet \/ BuildSort \/ BuildClearSamples
           \/ BuildSamples \/ BuildBitmap \/ BuildCTable \/ BuildWavelet \/ BuildGroups
           \/ BuildThrow
  BY <1>2 DEF BuildCall, BuildLayout, BuildAlphabet, BuildSort, BuildClearSamples, BuildSamples,
              BuildBitmap, BuildCTable, BuildWavelet, BuildGroups, BuildThrow, build, query
<1> QED BY <1>1, <1>2 DEF BuildStep

\* A query is a call, one reply, and steps that the caller does not see.
LEMMA QuerySimulates ==
    ASSUME IInv, AnswerHolds, AnswerHolds', QueryStep
    PROVE  Abstract!Reply \/ UNCHANGED <<corpus, req, res>>
<1>1. UNCHANGED <<corpus, req>> /\ pc \in QueryPcs \ {"done"}
  BY DEF QueryStep, SearchStep, CountInterval, LocateInterval, StartRow, WalkStep, WalkEnd,
         LocateEnd,
         ExtractNothing, ExtractAnchor, ExtractStep, ExtractEnd, build, QueryPcs
<1>2. res = <<>> /\ req # <<>>
  BY <1>1 DEF AnswerHolds, IInv, SearchHolds
<1>3. CASE pc' = "done"
  <2>1. res' = <<Abstract!Answer(corpus, req[1])>>
    BY <1>1, <1>3 DEF AnswerHolds, Answered
  <2> QED BY <1>1, <1>2, <2>1 DEF Abstract!Reply
<1>4. CASE pc' # "done"
  BY <1>1, <1>2, <1>4 DEF AnswerHolds
<1> QED BY <1>3, <1>4

\* FMIndex is a DocIndex: whatever a caller sees of it, the corpus that a
\* completed Build installs and the answers of the queries, is what looking at
\* the documents gives.  (That every query is answered stays with TLC.)
THEOREM RefinesDocIndex ==
    ASSUME ThrowsEarly, NoRebuildAfterAnchor, NoIdWraps
    PROVE  Spec => Abstract!Init /\ [][Abstract!Next]_(Abstract!vars)
<1>1. Init => Abstract!Init
  BY DEF Init, Abstract!Init
<1>2. ASSUME IInv, AnswerHolds, AnswerHolds', [Next]_vars
      PROVE  [Abstract!Next]_(Abstract!vars)
  <2>1. CASE BuildCall \/ BuildStep
    BY <1>2, <2>1, BuildSimulates DEF Abstract!Next, Abstract!vars
  <2>2. CASE \E q \in Requests : CallSearch(q) \/ CallExtract(q)
    BY <2>2 DEF CallSearch, CallExtract, build, Abstract!Call, Abstract!Next, Abstract!vars
  <2>3. CASE QueryStep
    BY <1>2, <2>3, QuerySimulates DEF Abstract!Next, Abstract!vars
  <2>4. CASE Return
    <3>1. res # <<>>
      BY <1>2, <2>4 DEF Return, AnswerHolds, Answered
    <3> QED BY <2>4, <3>1 DEF Return, build, Abstract!Done, Abstract!Next, Abstract!vars
  <2>5. CASE UNCHANGED vars
    BY <2>5 DEF vars, build, query, Abstract!vars
  <2> QED BY <1>2, <2>1, <2>2, <2>3, <2>4, <2>5 DEF Next
<1>3. IInv /\ AnswerHolds /\ AnswerHolds' /\ [Next]_vars => [Abstract!Next]_(Abstract!vars)
  BY <1>2
<1> QED BY <1>1, <1>3, AnswerInvariant, PTL DEF Spec
=============================================================================
