----------------------------- MODULE ImageMatch -----------------------------
(***************************************************************************)
(* The way from fingerprints of images to matches: FlatPdqIndex            *)
(* (src/index/flat_pdq.cpp) filled in any order, the candidates it gives   *)
(* (include/GhidraEngine/match/image.hpp), and the catalogue that they are *)
(* verified with (src/match/image.cpp).                                    *)
(***************************************************************************)
EXTENDS Matching

CONSTANTS Record,      \* ImageFingerprintRecord; an image may have several
          Query,       \* ImageSignature: sequences of variants
          ImagePolicy, \* PdqMatchPolicy
          MaxRecords   \* bound on the records inserted

ASSUME ImageAssumption ==
  /\ Record \subseteq [id : Nat \ {Missing}, media : Nat, hash : AllHash, quality : Quality]
  /\ Query \subseteq Seq(PdqFingerprint)
  /\ ImagePolicy \subseteq [distance : 0..Farthest, quality : Quality]
  /\ Missing \in Nat /\ MaxRecords \in Nat

VARIABLE entries  \* of the index, by position

imageVars == <<records, query, policy, self, candidates, phase, matches, entries>>

InitImages ==
  /\ records = << >> /\ entries = << >>
  /\ query \in Query /\ policy \in ImagePolicy /\ self \in Self
  /\ candidates = << >> /\ matches = << >>
  /\ phase = "fill"

-----------------------------------------------------------------------------
(* Faulty variants, none of them part of the specification. *)

\* The matches of one image are ordered the other way.
FartherFirst(a, b) == a.media < b.media \/ (a.media = b.media /\ a.distance > b.distance)

-----------------------------------------------------------------------------
(***************************************************************************)
(* FlatPdqIndex                                                            *)
(***************************************************************************)
Known(id) == \E p \in DOMAIN entries : entries[p].id = id

\* The position of lower_bound; past the last one for an identifier in order.
Place(id) == Cardinality({p \in DOMAIN entries : entries[p].id < id}) + 1

\* The caller adds a record; a known identifier is refused, by the index as by
\* the catalogue, and nothing changes.
Insert(r) ==
  /\ phase = "fill" /\ Len(records) < MaxRecords /\ ~Known(r.id)
  /\ entries' = InsertAt(entries, Place(r.id), [id |-> r.id, hash |-> r.hash])
  /\ records' = Append(records, r)
  /\ UNCHANGED <<query, policy, self, candidates, phase, matches>>

\* search_within: the identifiers of the hits, in the order of the entries.
SearchWithin(hash, d) ==
  LET near == Ascending({p \in DOMAIN entries : Distance(hash, entries[p].hash) <= d})
  IN [n \in DOMAIN near |-> entries[near[n]].id]

-----------------------------------------------------------------------------
(***************************************************************************)
(* find_image_candidates                                                   *)
(***************************************************************************)

\* check_image_signature
CheckSignature(variants) == Len(variants) \in 1..8

\* std::set_union of two sequences, which is their union only if both are
\* sorted: one element after the other is taken, of equal ones one.
SetUnion(a, b) ==
  LET First(x)  == x.first < Len(a) /\ (x.second = Len(b) \/ a[x.first + 1] <= b[x.second + 1])
      Second(x) == x.second < Len(b) /\ (x.first = Len(a) \/ b[x.second + 1] <= a[x.first + 1])
      merge[n \in 0..Len(a) + Len(b)] ==
        IF n = 0 THEN [first |-> 0, second |-> 0, list |-> << >>]
        ELSE LET x == merge[n - 1]
             IN [first  |-> IF First(x) THEN x.first + 1 ELSE x.first,
                 second |-> IF Second(x) THEN x.second + 1 ELSE x.second,
                 list   |-> CASE First(x)  -> Append(x.list, a[x.first + 1])
                              [] ~First(x) /\ Second(x) -> Append(x.list, b[x.second + 1])
                              [] OTHER -> x.list]
  IN merge[Len(a) + Len(b)].list

\* The hits of every variant, whatever its quality, merged one by one.
Merged ==
  LET merged[n \in 0..Len(query)] ==
        IF n = 0 THEN << >>
        ELSE SetUnion(merged[n - 1], SearchWithin(query[n].hash, policy.distance))
  IN merged[Len(query)]

FindImageCandidates ==
  /\ phase = "fill"
  /\ IF ~CheckSignature(query) THEN phase' = "invalid" /\ UNCHANGED candidates
     ELSE candidates' = Merged /\ phase' = "verify"
  /\ UNCHANGED <<records, entries, query, policy, self, matches>>

ImageIds == {r.id : r \in ToSet(records)}

OtherImageCandidates ==
  AddCandidate(ImageIds) /\ UNCHANGED <<records, entries, query, policy, self, matches>>

-----------------------------------------------------------------------------
(***************************************************************************)
(* ImageFingerprintCatalog and verify_image_candidates                     *)
(***************************************************************************)
At(id) == CHOOSE r \in ToSet(records) : r.id = id

\* The distances of the variants that are good enough and near enough.
Distances(r) ==
  {Distance(v.hash, r.hash) : v \in {v \in ToSet(query) : v.quality >= policy.quality}}
    \cap 0..policy.distance

Verified(r) == r.media # self /\ r.quality >= policy.quality /\ Distances(r) # {}

NearerFirst(a, b) == a.media < b.media \/ (a.media = b.media /\ a.distance < b.distance)

\* std::unique: of a run of one image the first match stays.
FirstOfEach(list) ==
  LET first == Ascending({n \in DOMAIN list : n = 1 \/ list[n].media # list[n - 1].media})
  IN [n \in DOMAIN first |-> list[first[n]]]

\* Each candidate is looked up once.  Of equal matches one is kept, here as by
\* std::unique.
VerifyImageCandidates ==
  /\ phase \in {"verify", "verifyMore"}
  /\ IF ~ToSet(candidates) \subseteq ImageIds
       THEN phase' = "out_of_range" /\ UNCHANGED matches
       ELSE LET found == {At(id) : id \in ToSet(candidates)}
                all   == {[media |-> r.media, distance |-> Min(Distances(r))] :
                            r \in {r \in found : Verified(r)}}
            IN /\ matches' = FirstOfEach(Ordered(all, NearerFirst))
               /\ phase' = "matched"
  /\ UNCHANGED <<records, entries, query, policy, self, candidates>>

NextImages == \/ \E r \in Record : Insert(r)
              \/ FindImageCandidates \/ OtherImageCandidates \/ VerifyImageCandidates

SpecImages == InitImages /\ [][NextImages]_imageVars

-----------------------------------------------------------------------------
(***************************************************************************)
(* Properties.                                                             *)
(***************************************************************************)

\* The pairs of an image and the distance of one of its records to the query.
Pairs ==
  LET good == {x \in ToSet(records) \X ToSet(query) :
                 /\ x[1].quality >= policy.quality /\ x[2].quality >= policy.quality
                 /\ x[1].media # self /\ Distance(x[1].hash, x[2].hash) <= policy.distance}
  IN {[media |-> x[1].media, distance |-> Distance(x[1].hash, x[2].hash)] : x \in good}

\* However the index was filled, the search loses no image and adds none: each
\* other image with a good record near a good variant is there once, in order,
\* at the least of its distances.  No candidate is missing from the catalogue
\* that the caller did not add.
BestMatches ==
  /\ phase = "matched" =>
       LET nearest == {x \in Pairs : \A y \in Pairs : y.media = x.media => y.distance >= x.distance}
       IN matches = Ordered(nearest, LAMBDA a, b : a.media < b.media)
  /\ phase = "out_of_range" => Missing \in ToSet(candidates)
=============================================================================
