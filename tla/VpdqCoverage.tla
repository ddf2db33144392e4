---------------------------- MODULE VpdqCoverage ----------------------------
(***************************************************************************)
(* vpdq_coverage_count (src/match/vpdq_byte_index.hpp): how many hashes of *)
(* one list have a neighbour in the other.  The other list is taken in     *)
(* chunks; a sample of the first list decides, for each chunk, whether the *)
(* rest is compared with all of it or looked up in an index by bytes.      *)
(***************************************************************************)
EXTENDS PdqHash

CONSTANTS From, To,   \* the lists: sequences of hashes, none repeated
          ChunkSize,  \* 65536
          Minimum,    \* lengths from which the index is thought of (512)
          Probes,     \* hashes in the sample (32)
          CostScale, CostBase  \* the estimated cost of an index (64, 32)

ASSUME CoverageAssumption ==
  /\ From \cup To \subseteq Seq(AllHash)
  /\ \A list \in From \cup To : \A i, j \in DOMAIN list : list[i] = list[j] => i = j
  /\ ChunkSize \in Nat \ {0} /\ CostScale \in Nat /\ CostBase \in Nat
  /\ Probes \in Nat \ {0} /\ Minimum \in Nat /\ Probes <= Minimum

VARIABLES
  from, to,    \* the lists of the call
  threshold,
  taken,       \* how much of the second list the chunks so far are
  matched,     \* positions (from 0) of hashes known to match
  matches,     \* the count so far
  used         \* whether an index was built

coverageVars == <<from, to, threshold, taken, matched, matches, used>>

InitCoverage ==
  /\ from \in From /\ to \in To
  /\ threshold \in 0..Farthest
  /\ taken = 0 /\ matched = {} /\ matches = 0 /\ used = FALSE

-----------------------------------------------------------------------------
(* Faulty variants, none of them part of the specification. *)

\* One wider slot too few.
MasksNarrow(s, d) ==
  {m \in Value : Cardinality(m) + 1 <= d \div Slots + (IF s < d % Slots THEN 1 ELSE 0)}

-----------------------------------------------------------------------------
(***************************************************************************)
(* VpdqByteIndex                                                           *)
(***************************************************************************)

\* The values to look up in a slot differ by these masks.  Radii are mixed: a
\* hash that none of them finds has at least d + 1 bits changed.
Masks(s, d) ==
  {m \in Value : Cardinality(m) + 1 <= d \div Slots + (IF s <= d % Slots THEN 1 ELSE 0)}

Lookups(d) == MapThenSumSet(LAMBDA s : Cardinality(Masks(s, d)), Slot)

\* The positions a query meets in the buckets of a slot.
Postings(a, chunk, s, d) == {i \in DOMAIN chunk : Changed(a[s], chunk[i][s]) \in Masks(s, d)}

Visits(a, chunk, d) ==
  MapThenSumSet(LAMBDA s : Cardinality(Postings(a, chunk, s, d)), Slot)

FoundByIndex(a, chunk, d) ==
  \E s \in Slot : \E i \in Postings(a, chunk, s, d) : Distance(a, chunk[i]) <= d

-----------------------------------------------------------------------------
(***************************************************************************)
(* vpdq_coverage_chunk                                                     *)
(***************************************************************************)
FoundByScan(a, chunk, d) == \E i \in DOMAIN chunk : Distance(a, chunk[i]) <= d

\* Hashes a scan compares before it stops.
Compared(a, chunk, d) ==
  IF FoundByScan(a, chunk, d)
    THEN Min({i \in DOMAIN chunk : Distance(a, chunk[i]) <= d})
    ELSE Len(chunk)

\* The sample is spread evenly; the hashes after each sampled one, up to the
\* next, are counted apart.
Sampled(n) == n * (Len(from) \div Probes)
After(n)   == IF n = 0 THEN 0 ELSE Sampled(n - 1) + 1
Until(n)   == IF n = Probes THEN Len(from) - 1 ELSE Sampled(n) - 1

Found(method, a, chunk) == IF method = "index" THEN FoundByIndex(a, chunk, threshold)
                                               ELSE FoundByScan(a, chunk, threshold)

\* Positions in a range that match now and did not before.
Fresh(first, last, method, chunk) ==
  {p \in first..last : p \notin matched /\ Found(method, from[p + 1], chunk)}

Mark(positions, count) ==
  /\ matched' = matched \cup positions
  /\ matches' = matches + count

\* All the hashes, or the sampled ones by what is known of them and the ranges
\* between by the method chosen.
CountAll(chunk) ==
  LET hits == Fresh(0, Len(from) - 1, "scan", chunk) IN Mark(hits, Cardinality(hits))

CountRemaining(sampled, method, chunk) ==
  LET between(n) == Fresh(After(n), Until(n), method, chunk)
      count[n \in 0..Probes] ==
        IF n = 0 THEN Cardinality(between(0)) ELSE count[n - 1] + Cardinality(between(n))
  IN Mark((UNION {between(n) : n \in 0..Probes}) \cup {Sampled(n) : n \in sampled},
          count[Probes] + Cardinality(sampled))

\* The index costs more than it saves, before it is built or after.
Cheap(chunk, probed) ==
  LET comparisons == MapThenSumSet(LAMBDA n : Compared(from[Sampled(n) + 1], chunk, threshold),
                                   probed)
      visits == MapThenSumSet(LAMBDA n : Visits(from[Sampled(n) + 1], chunk, threshold),
                              0..Probes - 1)
      cost == (CostScale * Len(chunk)) \div Len(from) + CostBase
  IN \/ comparisons \div Probes <= cost
     \/ visits \div Probes + cost + Lookups(threshold) >= comparisons \div Probes

CountChunk(chunk) ==
  LET probed  == {n \in 0..Probes - 1 : Sampled(n) \notin matched}
      sampled == {n \in probed : Found("scan", from[Sampled(n) + 1], chunk)}
      cheap   == Cheap(chunk, probed)
  IN IF threshold = Farthest \/ Len(from) < Minimum \/ Len(chunk) < Minimum
       THEN CountAll(chunk) /\ UNCHANGED used
       ELSE /\ CountRemaining(sampled, IF cheap THEN "scan" ELSE "index", chunk)
            /\ used' = (used \/ ~cheap)

-----------------------------------------------------------------------------
(***************************************************************************)
(* vpdq_coverage_count: one step for each chunk.  A list of one chunk has  *)
(* no bitmap, which is then not read either.                               *)
(***************************************************************************)
Running == taken < Len(to) /\ (Len(to) > ChunkSize => matches < Len(from))

NextChunk ==
  /\ Running
  /\ LET end == IF Len(to) - taken < ChunkSize THEN Len(to) ELSE taken + ChunkSize
     IN CountChunk(SubSeq(to, taken + 1, end)) /\ taken' = end
  /\ UNCHANGED <<from, to, threshold>>

SpecCoverage == InitCoverage /\ [][NextChunk]_coverageVars

-----------------------------------------------------------------------------
(***************************************************************************)
(* Properties.                                                             *)
(***************************************************************************)
Elements(list) == {list[i] : i \in DOMAIN list}

\* After each chunk every hash with a neighbour so far is counted, once; and
\* when the loop ends, early or not, those with a neighbour in the whole list.
\* Sampling, chunks and the index change what a count costs and never its value.
CoverageExact ==
  /\ matches = Covered(Elements(from), Elements(SubSeq(to, 1, taken)), threshold)
  /\ Cardinality(matched) = matches
  /\ ~Running => matches = Covered(Elements(from), Elements(to), threshold)
=============================================================================
