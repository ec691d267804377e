---------------------------- MODULE SmallCorpora ----------------------------
(***************************************************************************)
(* Every corpus whose text (content and separators) is short.  With bytes  *)
(* 0, 1 and 2, byte 0 is the null byte and 1 the upper-case letter whose   *)
(* lower-case one is 2: byte order, folding and absent bytes are all met.  *)
(***************************************************************************)
EXTENDS ByteFold, Sequences

CONSTANTS
    MaxText,       \* content bytes and separators of a corpus
    Folding        \* the case_insensitive flags given to Build

SeqsUpTo(S, n) == UNION {[1..m -> S] : m \in 0..n}

\* The lists of documents whose text has exactly n symbols: the first document
\* and the rest.
DocLists[n \in 0..MaxText] ==
    IF n = 0 THEN {<<>>}
    ELSE UNION {{<<first>> \o rest : first \in [1..m -> Bytes], rest \in DocLists[n - 1 - m]} :
                  m \in 0..(n - 1)}

MCCorpora == {[docs |-> docs, cf |-> cf] :
                docs \in UNION {DocLists[n] : n \in 0..MaxText}, cf \in Folding}
=============================================================================
