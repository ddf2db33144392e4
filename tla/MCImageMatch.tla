---------------------------- MODULE MCImageMatch ----------------------------
(***************************************************************************)
(* ImageMatch with hashes in a row, each one bit from the next: two images *)
(* of one record and one of two, in any order.                             *)
(***************************************************************************)
EXTENDS ImageMatch

H(a) == [s \in Slot |-> a]
R(id, media, a, q) == [id |-> id, media |-> media, hash |-> H(a), quality |-> q]

MCRecord == {R(1, 20, {0}, 60), R(2, 10, {}, 60), R(2, 10, {0, 1}, 40), R(3, 20, {}, 60),
             R(3, 20, {0, 1}, 60), R(4, 30, {0}, 50)}

Variants == {[hash |-> H(a), quality |-> q] : a \in {{}, {0}, {0, 1}}, q \in {40, 60}}

MCQuery  == UNION {[1..n -> Variants] : n \in 1..2} \cup {<< >>}
MCPolicy == {[distance |-> d, quality |-> 50] : d \in 0..2}
=============================================================================
