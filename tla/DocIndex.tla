------------------------------ MODULE DocIndex ------------------------------
(***************************************************************************)
(* What the FM-index promises, without the FM-index: a corpus is a list of *)
(* documents, and every query is answered by looking at the documents.     *)
(* Documents and offsets count from 0, as the API does.  A vector that the *)
(* code sorts is a bag, or a set when the code also removes duplicates.    *)
(***************************************************************************)
EXTENDS ByteFold, Sequences, FiniteSets

CONSTANTS
    Corpora,   \* the corpora that may be indexed: [docs |-> seq of seqs, cf |-> BOOLEAN]
    Requests   \* the queries that may be asked

VARIABLES
    corpus,    \* <<>> for an index that holds nothing, or <<c>>
    req,       \* <<>> or <<the query being answered>>
    res        \* <<>> or <<its answer>>

vars == <<corpus, req, res>>

NDocs(c) == Len(c.docs)
Doc(c, d) == c.docs[d + 1]

\* Pattern p occurs in document d at offset off.
OccursAt(c, p, d, off) ==
    /\ off + Len(p) <= Len(Doc(c, d))
    /\ \A j \in 1..Len(p) : Fold(c.cf, Doc(c, d)[off + j]) = Fold(c.cf, p[j])

Offsets(c, p, d) == {off \in 0..Len(Doc(c, d)) : OccursAt(c, p, d, off)}
DocIds(c) == 0..(NDocs(c) - 1)
Occurrences(c, p) == UNION {{<<d, off>> : off \in Offsets(c, p, d)} : d \in DocIds(c)}
Containing(c, p) == {d \in DocIds(c) : Offsets(c, p, d) # {}}
StartingWith(c, p) == {d \in DocIds(c) : OccursAt(c, p, d, 0)}
EndingWith(c, p) ==
    {d \in DocIds(c) : Len(p) <= Len(Doc(c, d)) /\ OccursAt(c, p, d, Len(Doc(c, d)) - Len(p))}

\* Symbols of the indexed text: the content of every document, one separator
\* each, and the sentinel.
Positions(c) == LET upto[d \in 0..NDocs(c)] ==
                      IF d = 0 THEN 1 ELSE upto[d - 1] + Len(Doc(c, d - 1)) + 1
                IN upto[NDocs(c)]

\* T[offset, offset + len) of a document, clamped to its end.
Excerpt(c, d, off, len) ==
    IF d \notin DocIds(c) \/ off >= Len(Doc(c, d)) THEN <<>>
    ELSE LET avail == Len(Doc(c, d)) - off
         IN [j \in 1..(IF len < avail THEN len ELSE avail) |-> Fold(c.cf, Doc(c, d)[off + j])]

\* The least number of insertions, deletions and substitutions that lead from u
\* to v, by how much of each is left.
Lesser(x, y) == IF x <= y THEN x ELSE y
Distance(u, v) ==
    LET D[x \in (0..Len(u)) \X (0..Len(v))] ==
          IF x[1] = 0 \/ x[2] = 0 THEN x[1] + x[2]
          ELSE Lesser(1 + Lesser(D[<<x[1] - 1, x[2]>>], D[<<x[1], x[2] - 1>>]),
                      D[<<x[1] - 1, x[2] - 1>>]
                        + (IF u[Len(u) + 1 - x[1]] = v[Len(v) + 1 - x[2]] THEN 0 ELSE 1))
    IN D[<<Len(u), Len(v)>>]
Within(u, v, n) == Distance(u, v) <= n

Folded(c, w) == [j \in 1..Len(w) |-> Fold(c.cf, w[j])]

\* Documents with a substring that is at most n edits away from p.
Near(c, p, n) ==
    {d \in DocIds(c) : \E off \in 0..Len(Doc(c, d)) : \E end \in off..Len(Doc(c, d)) :
        Within(Folded(c, SubSeq(Doc(c, d), off + 1, end)), Folded(c, p), n)}

\* The longest substring of p that occurs, the first of several.
NoMatch == [length |-> 0, query_pos |-> 0, count |-> 0]
MatchesAt(c, p, s) ==
    {[length |-> n, query_pos |-> s, count |-> Cardinality(Occurrences(c, SubSeq(p, s + 1, s + n)))] :
       n \in 1..(Len(p) - s)}
Matches(c, p) == {NoMatch} \cup {m \in UNION {MatchesAt(c, p, s) : s \in 0..Len(p)} : m.count > 0}
Longest(c, p) ==
    CHOOSE m \in Matches(c, p) : \A x \in Matches(c, p) :
        x.length < m.length \/ (x.length = m.length /\ m.query_pos <= x.query_pos)

\* How often a pattern occurs; the empty one at every position.
Count(c, p) == IF p = <<>> THEN Positions(c) ELSE Cardinality(Occurrences(c, p))
Located(c, p) == [o \in IF p = <<>> THEN {} ELSE Occurrences(c, p) |-> 1]
Following(c, p) == {b \in Bytes : Occurrences(c, Append(p, b)) # {}}

\* The answer of an index over corpus c.  The queries for documents take the
\* empty pattern for one that occurs nowhere.
AnswerFor(c, q) ==
    CASE q.op = "Count" -> Count(c, q.p)
      [] q.op = "LocateDocs" -> Located(c, q.p)
      [] q.op = "Extract" -> Excerpt(c, q.doc, q.off, q.len)
      [] q.op = "CountBatch" -> [j \in 1..Len(q.ps) |-> Count(c, q.ps[j])]
      [] q.op = "LocateDocsBatch" -> [j \in 1..Len(q.ps) |-> Located(c, q.ps[j])]
      [] q.op = "LongestMatch" -> Longest(c, q.p)
      [] q.op = "NextTokenCounts" -> [b \in Following(c, q.p) |-> Count(c, Append(q.p, b))]
      [] q.op = "FuzzyMatchingDocs" -> IF q.p = <<>> THEN {} ELSE Near(c, q.p, q.k)
      [] q.op = "VisitMatchingDocs" ->
           [d \in IF q.p = <<>> THEN {} ELSE Containing(c, q.p) |-> Cardinality(Offsets(c, q.p, d))]
      [] q.op = "MatchingDocs" -> IF q.p = <<>> THEN {} ELSE Containing(c, q.p)
      [] q.op = "LocatePrefixDocs" -> IF q.p = <<>> THEN {} ELSE StartingWith(c, q.p)
      [] q.op = "LocateSuffixDocs" -> IF q.p = <<>> THEN {} ELSE EndingWith(c, q.p)
      [] q.op = "CountPrefixDocs" -> IF q.p = <<>> THEN 0 ELSE Cardinality(StartingWith(c, q.p))
      [] q.op = "CountSuffixDocs" -> IF q.p = <<>> THEN 0 ELSE Cardinality(EndingWith(c, q.p))

\* An index that holds nothing answers like one without documents, except that
\* it does not even count the empty pattern.
NoDocs == [docs |-> <<>>, cf |-> FALSE]
Answer(c, q) ==
    IF c # <<>> THEN AnswerFor(c[1], q)
    ELSE CASE q.op = "Count" -> 0
           [] q.op = "CountBatch" -> [j \in 1..Len(q.ps) |-> 0]
           [] OTHER -> AnswerFor(NoDocs, q)

-----------------------------------------------------------------------------
Init == corpus = <<>> /\ req = <<>> /\ res = <<>>

Build == /\ req = <<>>
         /\ UNCHANGED <<req, res>>
         /\ \E c \in Corpora : corpus' = <<c>>

Call == /\ req = <<>>
        /\ UNCHANGED <<corpus, res>>
        /\ \E q \in Requests : req' = <<q>>

Reply == /\ req # <<>> /\ res = <<>>
         /\ res' = <<Answer(corpus, req[1])>>
         /\ UNCHANGED <<corpus, req>>

Done == /\ res # <<>>
        /\ req' = <<>> /\ res' = <<>>
        /\ UNCHANGED corpus

Next == Build \/ Call \/ Reply \/ Done

\* Building is up to the caller; a query that was asked is answered.
Spec == Init /\ [][Next]_vars /\ WF_vars(Reply)
=============================================================================
