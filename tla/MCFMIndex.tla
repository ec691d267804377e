------------------------------ MODULE MCFMIndex -----------------------------
(***************************************************************************)
(* FMIndex over every small corpus, with every short pattern.              *)
(***************************************************************************)
EXTENDS FMIndex, SmallCorpora

CONSTANTS
    MaxPattern,    \* length of a pattern
    AskedDocs      \* document ids given to Extract

MCSearches == [op : SearchOps, p : SeqsUpTo(Bytes, MaxPattern)]
MCExtracts == [op : {"Extract"}, doc : AskedDocs, off : 0..(MaxText - 1), len : 0..MaxText]
MCRequests == MCSearches \cup MCExtracts

\* A corpus with an upper-case byte, more documents and another alphabet than
\* most of those that are built after it, and the corpus without documents.
MCRebuildFrom == {[docs |-> <<<<1, 0>>, <<>>>>, cf |-> TRUE], [docs |-> <<>>, cf |-> FALSE]}

\* The first of them.
MCThrowsOn == {c \in MCRebuildFrom : c.cf}
=============================================================================
