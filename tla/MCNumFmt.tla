------------------------------- MODULE MCNumFmt -------------------------------
(***************************************************************************)
(* Arguments of 12 bits: the ends of the range, the numbers at which a     *)
(* digit is added in either base, palindromes and numbers that are not.    *)
(***************************************************************************)
EXTENDS NumFmt

MCNumbers == {0, 1, 9, 10, 15, 16, 100, 255, 256, 1000, 4095}
==============================================================================
