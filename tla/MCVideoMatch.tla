---------------------------- MODULE MCVideoMatch ----------------------------
(***************************************************************************)
(* VideoMatch with three hashes in a row, each one bit from the next, and  *)
(* two qualities.                                                          *)
(***************************************************************************)
EXTENDS VideoMatch

H(a) == [s \in Slot |-> a]
Frame(a, q) == [hash |-> H(a), quality |-> q]

Frames == {Frame(a, q) : a \in {{}, {0}, {0, 1}}, q \in {40, 60}}

Signatures == UNION {[1..n -> Frames] : n \in 0..2}

\* The query has no use for the third hash.
MCSignature == UNION {[1..n -> {f \in Frames : f.hash # H({0, 1})}] : n \in 0..2}

Decoy(id) == [id |-> id, signature |-> <<Frame({0}, 60), Frame({0, 1}, 40)>>]

MCInput == {<< >>, <<Decoy(2), Decoy(2)>>}
             \cup UNION {{<<[id |-> 2, signature |-> s], Decoy(1)>>,
                         <<[id |-> 2, signature |-> s], Decoy(3)>>} : s \in Signatures}

Minima == {<< <<0, 1>>, <<0, 1>> >>, << <<1, 2>>, <<0, 1>> >>, << <<1, 1>>, <<0, 1>> >>,
           << <<0, 1>>, <<1, 2>> >>, << <<1, 1>>, <<1, 1>> >>}

MCPolicy == {[distance |-> d, quality |-> 50, query |-> m[1], candidate |-> m[2]] :
               d \in 0..2, m \in Minima}
=============================================================================
