--------------------------- MODULE MCVideoDecoder ---------------------------
(***************************************************************************)
(* VideoDecoder with timestamps of both signs, the extreme ones included,  *)
(* so that the widest gap does not fit a signed timestamp.                 *)
(***************************************************************************)
EXTENDS VideoDecoder

MCTime == {-3, -1, 0, 2, 3}
=============================================================================
