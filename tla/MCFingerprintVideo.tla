------------------------- MODULE MCFingerprintVideo -------------------------
(***************************************************************************)
(* FingerprintVideo with three hashes on a line.                           *)
(***************************************************************************)
EXTENDS FingerprintVideo

MCTime == {-1, 1}
MCDistance(a, b) == IF a < b THEN b - a ELSE a - b
=============================================================================
