------------------------------ MODULE ByteFold ------------------------------
(***************************************************************************)
(* Bytes and the ASCII case fold of Build.  The code has 256 byte values,  *)
(* folds 'A'..'Z' and adds 32; the values are parameters so that a model   *)
(* can have an upper-case byte, its lower-case one and a byte that is      *)
(* neither among three or four values.                                     *)
(***************************************************************************)
EXTENDS Integers

CONSTANTS
    ByteMax,           \* the largest byte value (255)
    UpperLo, UpperHi,  \* the upper-case letters ('A' and 'Z')
    CaseShift          \* the distance to the lower-case letter (32)

Bytes == 0..ByteMax

ASSUME ByteAssumption ==
    /\ ByteMax \in Nat
    /\ UpperLo \in Nat /\ UpperHi \in Nat /\ CaseShift \in Nat \ {0}
    /\ UpperHi < UpperLo + CaseShift      \* the two cases are disjoint
    /\ UpperHi + CaseShift <= ByteMax     \* and every lower-case letter is a byte

IsUpper(x) == x \in UpperLo..UpperHi

\* fold: the identity unless the index is case-insensitive.
Fold(cf, x) == IF cf /\ IsUpper(x) THEN x + CaseShift ELSE x
=============================================================================
