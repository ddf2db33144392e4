------------------------------ MODULE PdqHash -------------------------------
(***************************************************************************)
(* PDQ hashes (include/GhidraEngine/core/fingerprints.hpp): a function     *)
(* from slots to sets of bits, compared by the number of bits that differ. *)
(***************************************************************************)
EXTENDS Naturals, Sequences, FiniteSets, FiniteSetsExt

CONSTANTS Slots,  \* parts of a hash: bytes (32) or words (16)
          Bits    \* bits of one (8 or 16)

ASSUME HashAssumption == Slots \in Nat \ {0} /\ Bits \in Nat \ {0}

Slot     == 0..Slots - 1
Value    == SUBSET (0..Bits - 1)
AllHash  == [Slot -> Value]
Farthest == Slots * Bits

Changed(a, b) == (a \ b) \cup (b \ a)

Distance(a, b) ==
  LET bits[s \in 0..Slots] ==
        IF s = 0 THEN 0 ELSE bits[s - 1] + Cardinality(Changed(a[s - 1], b[s - 1]))
  IN bits[Slots]

\* How many of the hashes in one set have a neighbour in the other: what
\* coverage is a quotient of.
Covered(from, to, d) == Cardinality({a \in from : \E b \in to : Distance(a, b) <= d})
=============================================================================
