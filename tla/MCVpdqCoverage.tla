--------------------------- MODULE MCVpdqCoverage ---------------------------
(***************************************************************************)
(* VpdqCoverage with two slots of three bits.  The second list is long     *)
(* enough, and far enough from some of the first, for the index to pay.    *)
(***************************************************************************)
EXTENDS VpdqCoverage

H(a, b) == [s \in Slot |-> IF s = 0 THEN a ELSE b]

Pool == <<H({}, {}), H({0}, {1}), H({0, 1}, {2}), H({0, 1, 2}, {0, 1, 2})>>

Far == <<H({1, 2}, {0, 1}), H({1}, {0}), H({0, 1, 2}, {0}), H({1, 2}, {2}),
         H({0, 1, 2}, {0, 2}), H({1, 2}, {0, 2}), H({0, 1, 2}, {2}), H({1, 2}, {0}),
         H({0, 1, 2}, {1, 2}), H({1, 2}, {0, 1, 2}), H({}, {0}), H({0, 1, 2}, {0, 1, 2})>>

Windows(list, sizes) ==
  {SubSeq(list, a, b) : <<a, b>> \in {p \in (1..Len(list)) \X (1..Len(list)) :
                                         p[2] + 1 - p[1] \in sizes}}

Without(n) == {list \in [1..n -> {Pool[i] : i \in 1..4}] :
                 \A i, j \in 1..n : list[i] = list[j] => i = j}

MCFrom == UNION {Without(n) : n \in 1..4}
MCTo   == Windows(Far, 1..12) \cup {<< >>}
=============================================================================
