---------------------------- MODULE MCProcessFile ----------------------------
(***************************************************************************)
(* ProcessFile with an image, a video and a text that is neither and has   *)
(* the size of the image, so that a size alone does not tell them apart.   *)
(***************************************************************************)
EXTENDS ProcessFile

CONSTANTS Photo, Clip, Text

MCSize  == [c \in Content |-> IF c = Clip THEN 2 ELSE 1]
MCMedia == [c \in Content |-> CASE c = Photo -> "image"
                                [] c = Clip  -> "video"
                                [] OTHER     -> "other"]
=============================================================================
