--------------------------- MODULE MCWaveletMatrix4 -------------------------
(***************************************************************************)
(* Sequences over alphabets of one, two and five levels, the last one with *)
(* the ids at the end of the full alphabet (256 bytes, separator and       *)
(* sentinel), whose first digit differs from that of the others.           *)
(***************************************************************************)
EXTENDS WaveletMatrix4

MCAlphabets == {[q |-> 1, syms |-> 0..3],
                [q |-> 2, syms |-> {1, 4, 5, 6}],
                [q |-> 5, syms |-> {1, 2, 256, 257}]}
=============================================================================
