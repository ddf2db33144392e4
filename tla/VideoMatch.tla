----------------------------- MODULE VideoMatch -----------------------------
(***************************************************************************)
(* The way from signatures of videos to matches: the catalogue and its     *)
(* frames (src/index/video.cpp), the candidates an index of the frames     *)
(* gives (include/GhidraEngine/index/video.hpp), and their verification    *)
(* (src/match/video.cpp).  Searches of an index and counts of coverage are *)
(* exact, which MihIndex and VpdqCoverage show.                            *)
(***************************************************************************)
EXTENDS Matching

CONSTANTS Input,      \* the lists of records a catalogue may be built from
          Signature,  \* the signatures searched for: sequences of frames
          VideoPolicy \* VpdqMatchPolicy

\* The two minima of coverage are pairs: a numerator and a denominator.
PolicyOK(p) == /\ p.distance \in 0..Farthest /\ p.quality \in Quality
               /\ \A m \in {p.query, p.candidate} : m[1] \in 0..m[2] /\ m[2] \in Nat \ {0}

ASSUME VideoAssumption ==
  /\ VideoPolicy \subseteq [distance : Nat, quality : Nat, query : Nat \X Nat, candidate : Nat \X Nat]
  /\ \A p \in VideoPolicy : PolicyOK(p)
  /\ Input \subseteq Seq([id : Nat \ {Missing}, signature : Seq(PdqFingerprint)])
  /\ Signature \subseteq Seq(PdqFingerprint)
  /\ Missing \in Nat

VARIABLES
  input,        \* the records given to the constructor, in any order
  frames        \* of the catalogue: by identifier, from 0 in the code

videoVars == <<records, query, policy, self, candidates, phase, matches, input, frames>>

InitVideos ==
  /\ input \in Input
  /\ query \in Signature /\ policy \in VideoPolicy /\ self \in Self
  /\ records = << >> /\ frames = << >>
  /\ candidates = << >> /\ matches = << >>
  /\ phase = "build"

-----------------------------------------------------------------------------
(* Faulty variants, none of them part of the specification. *)

\* The video is noted as seen before the quality of the frame is looked at.
RetrievedOnce(hits) ==
  {v \in {frames[f].video : f \in hits} :
     frames[Min({f \in hits : frames[f].video = v})].quality >= policy.quality}

-----------------------------------------------------------------------------
(***************************************************************************)
(* vpdq_matching_hashes and compare_vpdq_hashes                            *)
(***************************************************************************)

\* The first frame of each hash decides whether it is eligible.
MatchingHashes(signature, quality) ==
  {signature[i].hash : i \in {i \in DOMAIN signature :
     /\ \A j \in 1..i - 1 : signature[j].hash # signature[i].hash
     /\ signature[i].quality >= quality}}

\* How many hashes of each side match; all at the largest distance, the common
\* ones at none, and by counting in between.
Matched(from, to, d) ==
  IF from = {} \/ to = {} THEN 0
  ELSE IF d = Farthest THEN Cardinality(from)
  ELSE IF d = 0 THEN Cardinality(from \cap to)
  ELSE Covered(from, to, d)

Reaches(count, total, minimum) == count * minimum[2] >= minimum[1] * total

\* match_vpdq: the counts behind the two coverages, if both are enough.
Enough(queries, hashes) ==
  /\ queries # {} /\ hashes # {}
  /\ Reaches(Matched(queries, hashes, policy.distance), Cardinality(queries), policy.query)
  /\ Reaches(Matched(hashes, queries, policy.distance), Cardinality(hashes), policy.candidate)

Match(id, queries, hashes) ==
  [id |-> id, query |-> Matched(queries, hashes, policy.distance),
   candidate |-> Matched(hashes, queries, policy.distance)]

-----------------------------------------------------------------------------
(***************************************************************************)
(* VideoFingerprintCatalog                                                 *)
(***************************************************************************)
Duplicates(list) == \E i, j \in DOMAIN list : i # j /\ list[i].id = list[j].id

\* Of a list without duplicates.
Sorted(list) == Ordered(ToSet(list), LAMBDA a, b : a.id < b.id)

\* The frames of all the records, one after the other.
FramesOf(list) ==
  FlattenSeq([i \in DOMAIN list |->
    [n \in DOMAIN list[i].signature |->
       [video |-> list[i].id, quality |-> list[i].signature[n].quality]]])

\* What an index is filled with: the hashes, under the same identifiers.
IndexEntries(list) ==
  FlattenSeq([i \in DOMAIN list |->
    [n \in DOMAIN list[i].signature |-> list[i].signature[n].hash]])

Build ==
  /\ phase = "build"
  /\ IF Duplicates(input)
       THEN phase' = "refused" /\ UNCHANGED <<records, frames>>
       ELSE /\ records' = Sorted(input)
            /\ frames' = FramesOf(Sorted(input))
            /\ phase' = "find"
  /\ UNCHANGED <<input, query, policy, self, candidates, matches>>

VideoIds == {records[i].id : i \in DOMAIN records}

-----------------------------------------------------------------------------
(***************************************************************************)
(* find_video_candidates                                                   *)
(***************************************************************************)

\* search_within of any index of the entries.
Hits(hash) ==
  LET entries == IndexEntries(records)
  IN {f \in DOMAIN entries : Distance(hash, entries[f]) <= policy.distance}

\* The videos of the frames found, if one of these has the quality.
Retrieved(hits) == {frames[f].video : f \in {f \in hits : frames[f].quality >= policy.quality}}

\* Without a minimum every video is a candidate, even one that has no frame near.
FindVideoCandidates ==
  /\ phase = "find"
  /\ candidates' = Ascending(
       IF policy.query[1] = 0 /\ policy.candidate[1] = 0 THEN VideoIds
       ELSE Retrieved(UNION {Hits(hash) : hash \in MatchingHashes(query, policy.quality)}))
  /\ phase' = "verify"
  /\ UNCHANGED <<input, records, frames, query, policy, self, matches>>

OtherVideoCandidates ==
  AddCandidate(VideoIds) /\ UNCHANGED <<input, records, frames, query, policy, self, matches>>

-----------------------------------------------------------------------------
(***************************************************************************)
(* verify_video_candidates                                                 *)
(***************************************************************************)
SignatureOf(id) == records[CHOOSE i \in DOMAIN records : records[i].id = id].signature

VerifyVideoCandidates ==
  /\ phase \in {"verify", "verifyMore"}
  /\ IF ~ToSet(candidates) \subseteq VideoIds
       THEN phase' = "out_of_range" /\ UNCHANGED matches
       ELSE LET queries    == MatchingHashes(query, policy.quality)
                hashes(id) == MatchingHashes(SignatureOf(id), policy.quality)
                accepted   == {id \in ToSet(candidates) \ {self} : Enough(queries, hashes(id))}
                order      == Ascending(accepted)
            IN /\ matches' = [n \in DOMAIN order |-> Match(order[n], queries, hashes(order[n]))]
               /\ phase' = "matched"
  /\ UNCHANGED <<input, records, frames, query, policy, self, candidates>>

NextVideos == Build \/ FindVideoCandidates \/ OtherVideoCandidates \/ VerifyVideoCandidates

SpecVideos == InitVideos /\ [][NextVideos]_videoVars

-----------------------------------------------------------------------------
(***************************************************************************)
(* Properties.  The definition of docs/api.md, on the records as given: a  *)
(* hash is eligible by the quality of its first occurrence, coverage is    *)
(* the share of eligible hashes with an eligible hash of the other side    *)
(* within the distance.                                                    *)
(***************************************************************************)
Eligible(signature) ==
  {h \in {signature[i].hash : i \in DOMAIN signature} :
     LET first == CHOOSE i \in DOMAIN signature :
                    signature[i].hash = h /\ \A j \in 1..i - 1 : signature[j].hash # h
     IN signature[first].quality >= policy.quality}

Near(from, to) == {h \in from : \E g \in to : Distance(h, g) <= policy.distance}

Covers(minimum, from, to) == Cardinality(Near(from, to)) * minimum[2] >= minimum[1] * Cardinality(from)

MatchingRecords ==
  {i \in DOMAIN input :
     LET from == Eligible(query)
         to   == Eligible(input[i].signature)
     IN /\ input[i].id # self /\ from # {} /\ to # {}
        /\ Covers(policy.query, from, to) /\ Covers(policy.candidate, to, from)}

\* The search loses no match and adds none: what comes out of the catalogue,
\* the index and the verification is what comparing with each record gives, in
\* the order of videos, each with its coverage of both sides.  No candidate is
\* missing from the catalogue that the caller did not add.
MatchesExact ==
  /\ phase = "out_of_range" => Missing \in ToSet(candidates)
  /\ phase = "matched" =>
       /\ {matches[n].id : n \in DOMAIN matches} = {input[i].id : i \in MatchingRecords}
       /\ \A m, n \in DOMAIN matches : m < n => matches[m].id < matches[n].id
       /\ \A i \in MatchingRecords, n \in DOMAIN matches :
            matches[n].id = input[i].id =>
              LET from == Eligible(query)
                  to   == Eligible(input[i].signature)
              IN /\ matches[n].query = Cardinality(Near(from, to))
                 /\ matches[n].candidate = Cardinality(Near(to, from))
=============================================================================
