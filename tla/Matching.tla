------------------------------ MODULE Matching ------------------------------
(***************************************************************************)
(* What the matching of images and the matching of videos share: a caller  *)
(* with a query and a policy, a catalogue of records, and the identifiers  *)
(* of the candidates that the catalogue verifies.                          *)
(***************************************************************************)
EXTENDS PdqHash, SequencesExt

CONSTANTS Self,     \* what the queries may be of
          Missing   \* an identifier of no record

VARIABLES
  records,        \* of the catalogue
  query, policy, self,
  candidates,     \* identifiers to verify
  phase, matches

Quality == 0..100

\* PdqFingerprint, and a frame of a signature without its time.
PdqFingerprint == [hash : AllHash, quality : Quality]

\* std::ranges::sort of different elements.
Ordered(set, Before(_, _)) ==
  CHOOSE list \in [1..Cardinality(set) -> set] :
    \A i, j \in 1..Cardinality(set) : i < j => Before(list[i], list[j])

\* std::ranges::sort and std::unique on numbers.
Ascending(set) == Ordered(set, <)

\* The caller may repeat candidates, and add some, even of another catalogue.
AddCandidate(ids) ==
  /\ phase = "verify"
  /\ \E id \in ids \cup {Missing} : candidates' = <<id>> \o candidates
  /\ phase' = "verifyMore"
=============================================================================
