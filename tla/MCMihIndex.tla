----------------------------- MODULE MCMihIndex -----------------------------
(***************************************************************************)
(* MihIndex with two slots of three bits, and a budget that lets a search  *)
(* of each radius use the buckets of some indexes and not of others.       *)
(***************************************************************************)
EXTENDS MihIndex

MCBudget == [n \in 0..End |-> 8 * n]

H(a, b) == [s \in Slot |-> IF s = 0 THEN a ELSE b]

MCHash  == {H({}, {}), H({0}, {1, 2}), H({0, 1, 2}, {0})}
MCQuery == MCHash \cup {H({}, {0, 1, 2}), H({1}, {0}), H({0, 1}, {1})}
=============================================================================
