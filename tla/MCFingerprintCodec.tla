------------------------- MODULE MCFingerprintCodec -------------------------
(***************************************************************************)
(* FingerprintCodec with bytes of four values, counts of two bytes, and    *)
(* every payload of up to two items, whole or not.                         *)
(***************************************************************************)
EXTENDS FingerprintCodec

Hashes == 0..2
Images == [hash : Hashes, quality : 0..MaxQuality]
Frames == [hash : Hashes, quality : {MaxQuality}, time : -2..1]

MCFingerprint ==
  {[kind |-> "image", items |-> s] : s \in UNION {[1..n -> Images] : n \in 0..2}}
    \cup {[kind |-> "video", items |-> s] : s \in UNION {[1..n -> Frames] : n \in 0..2}}

Body == UNION {[1..n -> {0, 2, 3}] : n \in 0..6}

MCPayload ==
  {<<>>, <<Magic>>, <<Magic, 1, 1>>}
    \cup {<<m, 1, 1, 0>> \o b : m \in 0..3, b \in UNION {[1..n -> {0, 2, 3}] : n \in 0..2}}
    \cup {<<Magic, kind, low, high>> \o b : kind \in 0..3, low \in 0..3, high \in {0, 1, 2}, b \in Body}

Options == {[dimension |-> d, pixels |-> p, background |-> <<0, c, 0>>, exposure |-> e, peak |-> 1] :
              d \in {1, 2}, p \in {1}, c \in {0, 1}, e \in {1, 2}}

Standard == [kinds |-> 0, image |-> CHOOSE o \in Options : o.dimension = 2, target |-> 0,
             transforms |-> 0, video |-> CHOOSE o \in Options : o.dimension = 1,
             interval |-> 1, prune |-> None, maxFrames |-> 1]

MCSettings ==
  {[Standard EXCEPT !.image = i, !.video = v] : i \in Options, v \in Options}
    \cup {[Standard EXCEPT !.kinds = k, !.transforms = t, !.target = x, !.interval = n,
                           !.prune = p, !.maxFrames = m] :
            k \in {0, 1}, t \in {0, 1}, x \in {0, 1, 2}, n \in {-1, 0, 1}, p \in {None, 0, 1}, m \in {0, 1, 2}}
=============================================================================
