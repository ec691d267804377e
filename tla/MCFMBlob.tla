------------------------------ MODULE MCFMBlob ------------------------------
(***************************************************************************)
(* FMBlob over every small corpus, with units of four bits: a level has up *)
(* to two words, and every place is overwritten with every value of        *)
(* Garbage.                                                                *)
(***************************************************************************)
EXTENDS FMBlob, SmallCorpora
=============================================================================
