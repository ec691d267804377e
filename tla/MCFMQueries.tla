----------------------------- MODULE MCFMQueries ----------------------------
(***************************************************************************)
(* FMQueries over every small corpus.  A batch has one pattern more than a *)
(* tile has lanes; among its patterns are the empty one, repeated ones,    *)
(* some with an absent byte, and some that end rounds before the others.   *)
(***************************************************************************)
EXTENDS FMQueries, SmallCorpora

CONSTANTS
    MaxQuery,       \* length of a query of LongestMatch
    MaxPattern,     \* length of the other patterns
    MaxErrors       \* edits of FuzzyMatchingDocs

Pool == {<<>>, <<2>>, <<1, 2>>, <<2, 0>>}
Batches == {<<>>} \cup [1..(Tile + 1) -> Pool]

MCNextTokens == [op : {"NextTokenCounts"}, p : SeqsUpTo(Bytes, MaxPattern)]
MCRequests ==
    [op : {"LongestMatch"}, p : SeqsUpTo(Bytes, MaxQuery)]
      \cup MCNextTokens
      \cup [op : {"FuzzyMatchingDocs"}, p : SeqsUpTo(Bytes, MaxPattern), k : 0..MaxErrors]
      \cup [op : {"CountBatch", "LocateDocsBatch"}, ps : Batches]
=============================================================================
