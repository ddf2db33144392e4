-------------------------- MODULE FingerprintVideo --------------------------
(***************************************************************************)
(* fingerprint_video (src/video/fingerprint.cpp) and the decoder it uses:  *)
(* frames are hashed, retained or pruned, and counted against a budget.    *)
(* prune_vpdq prunes a signature that is there already.                    *)
(***************************************************************************)
EXTENDS VideoDecoder, FiniteSets

CONSTANTS Hash,             \* PDQ hashes
          Distance(_, _),   \* their Hamming distance
          MaxDistance,      \* values of prune_distance
          Everything,       \* std::nullopt: nothing is pruned
          Budget            \* values of max_frames

ASSUME FingerprintAssumption ==
  /\ Budget \subseteq Nat \ {0}
  /\ MaxDistance \subseteq Nat /\ Everything \notin MaxDistance
  /\ \A a, b \in Hash : Distance(a, b) \in Nat

VARIABLES content,    \* the hash of each frame of the stream
          prune, budget,  \* prune_distance, max_frames
          signature,  \* signature.frames
          step,       \* where fingerprint_video is
          result      \* what it returns or throws

optionVars == <<content, prune, budget>>
callVars   == <<optionVars, signature, step, result>>
allVars    == <<vars, callVars>>

\* A frame is the index of its packet among those of the stream, so that equal
\* timestamps do not mean equal hashes.
InitVideo == /\ Init
             /\ content \in [DOMAIN VideoFrames -> Hash]
             /\ prune \in MaxDistance \cup {Everything} /\ budget \in Budget
             /\ signature = << >>
             /\ step = "begin" /\ result = "none"

End(r) == step' = "done" /\ result' = r

\* check_stop before the decoder is constructed.
Begin == /\ step = "begin"
         /\ IF stop THEN End("canceled") ELSE step' = "decode" /\ UNCHANGED result
         /\ UNCHANGED <<vars, optionVars, signature>>

\* The decoder works: its constructor, or next.
Decode == step = "decode" /\ Step /\ UNCHANGED callVars

NextFrame == /\ step = "decode" /\ outcome = "open" /\ Call
             /\ UNCHANGED callVars

\* What the decoder throws passes through.
Propagate == /\ step = "decode" /\ outcome \in Error
             /\ End(outcome)
             /\ UNCHANGED <<vars, optionVars, signature>>

\* check_stop and the hash of the frame.
HashFrame == /\ step = "decode" /\ outcome = "frame"
             /\ IF stop THEN End("canceled")
                ELSE step' = "retain" /\ UNCHANGED result
             /\ UNCHANGED <<vars, optionVars, signature>>

\* A vector of the hash or of the signature cannot grow.
OutOfMemory == /\ outcome = "frame" /\ step \in {"decode", "retain"}
               /\ End("memory")
               /\ UNCHANGED <<vars, optionVars, signature>>

Frame(n) == [hash |-> content[n], time |-> VideoFrames[n]]

-----------------------------------------------------------------------------
(* Faulty variants, none of them part of the specification. *)

\* Pruning compares with the first frame that was retained.
RetainFirst(frames, hash) ==
  prune # Everything /\ frames # << >> => Distance(Head(frames).hash, hash) > prune

\* prune_vpdq compares with the frame before, retained or not.
PruneNeighbours(frames) ==
  LET Kept == {n \in DOMAIN frames :
                 n > 1 /\ prune # Everything =>
                   Distance(frames[n - 1].hash, frames[n].hash) > prune}
  IN [i \in 1..Cardinality(Kept) |-> frames[SetToSortSeq(Kept, <)[i]]]

-----------------------------------------------------------------------------
\* retain: the hash is farther than prune_distance from the last one retained.
Retain(frames, hash) ==
  prune # Everything /\ frames # << >> => Distance(Last(frames).hash, hash) > prune

\* check_stop, the budget, and on to the next frame.
RetainFrame ==
  /\ step = "retain" /\ ~stop
  /\ LET f == Frame(Len(received))
     IN IF ~Retain(signature, f.hash)
          THEN step' = "decode" /\ Call /\ UNCHANGED <<signature, result>>
        ELSE IF Len(signature) = budget
          THEN End("length") /\ UNCHANGED <<vars, signature>>
        ELSE /\ signature' = Append(signature, f)
             /\ step' = "decode" /\ Call /\ UNCHANGED result
  /\ UNCHANGED optionVars

RetainStopped == /\ step = "retain" /\ stop
                 /\ End("canceled")
                 /\ UNCHANGED <<vars, optionVars, signature>>

\* check_stop, and the signature is returned.
Return == /\ step = "decode" /\ outcome = "end"
          /\ End(IF stop THEN "canceled" ELSE "signature")
          /\ UNCHANGED <<vars, optionVars, signature>>

\* prune_vpdq: its loop, which takes the last frame after those before it.
Prune(frames) ==
  LET kept[some \in Seq([hash : Hash, time : Time])] ==
        IF some = << >> THEN << >>
        ELSE LET before == kept[Front(some)]
             IN IF Retain(before, Last(some).hash) THEN Append(before, Last(some)) ELSE before
  IN kept[frames]

Work == \/ Begin \/ Decode \/ NextFrame \/ Propagate \/ HashFrame \/ OutOfMemory
        \/ RetainFrame \/ RetainStopped \/ Return

Done == step = "done" /\ UNCHANGED allVars

NextVideo == \/ RequestStop /\ UNCHANGED callVars
             \/ Work \/ Done

SpecVideo == InitVideo /\ [][NextVideo]_allVars /\ WF_allVars(Work)

-----------------------------------------------------------------------------
(***************************************************************************)
(* Properties.  The reference is stated on the file: which of its frames   *)
(* are sampled and which of those retained, each decided by the last one   *)
(* before it that was.                                                     *)
(***************************************************************************)
Thinned(frames, Far(_, _)) ==
  CHOOSE kept \in SUBSET frames : \A n \in frames :
    LET earlier == {m \in kept : m < n}
    IN n \in kept <=> earlier = {} \/ Far(Max(earlier), n)

SampledFrames ==
  Thinned(DOMAIN VideoFrames, LAMBDA m, n : VideoFrames[n] - VideoFrames[m] >= interval)

RetainedFrames ==
  Thinned(SampledFrames,
          LAMBDA m, n : prune # Everything => Distance(content[m], content[n]) > prune)

\* Those of the first n frames of the file that are among the indices, in order.
FirstFrames(indices, n) ==
  LET among[m \in 0..Len(VideoFrames)] ==
        IF m = 0 THEN << >>
        ELSE IF m \in indices THEN Append(among[m - 1], Frame(m)) ELSE among[m - 1]
  IN among[n]

FramesOf(indices) == FirstFrames(indices, Len(VideoFrames))

\* docs/api.md: a signature that is returned has exactly the retained frames of
\* the file with their own hash and timestamp; the budget is exceeded only by
\* more retained frames than that, those dropped or pruned not counted; a
\* cancellation is one the caller asked for.
SignatureExact ==
  /\ result = "signature" => signature = FramesOf(RetainedFrames)
                             /\ Len(signature) <= budget
  /\ result = "length" => Cardinality(RetainedFrames) > budget
  /\ result = "canceled" => stop

\* Pruning a finished signature with prune_vpdq and pruning while it is made
\* keep the same frames.
PruneAgrees == result = "signature" => Prune(FramesOf(SampledFrames)) = signature
=============================================================================
