-------------------------- MODULE FingerprintCodec --------------------------
(***************************************************************************)
(* The bytes of a fingerprint (src/io/fingerprint.cpp), as they are stored *)
(* and as they come back, and the key of the settings that it was made     *)
(* with (src/cache/fingerprint.cpp).                                       *)
(***************************************************************************)
EXTENDS Integers, Sequences, SequencesExt

CONSTANTS Base,         \* values of a byte (256)
          HashWidth, CountWidth, TimeWidth,  \* bytes of a field (32, 8, 8)
          MaxQuality,   \* 100
          MaxVariants,  \* 8
          Fingerprint,  \* the fingerprints serialized
          Payload,      \* other payloads a stored fingerprint may have
          Budget,       \* max_frames
          Settings,     \* the settings whose keys are compared
          DimensionLimit, PixelLimit,  \* of check_decode_options
          LeastTarget,  \* but for 0 (64)
          Refused, None

\* Exposures and peaks are the bits of finite numbers in their ranges.
OptionsType  == [dimension : Nat, pixels : Nat, background : [1..3 -> Nat],
                 exposure : Nat, peak : Nat]
SettingsType == [kinds : Nat, image : OptionsType, target : Nat, transforms : Nat,
                 video : OptionsType, interval : Int, prune : Nat \cup {None}, maxFrames : Nat]

-----------------------------------------------------------------------------
(***************************************************************************)
(* append and Reader: numbers with the lowest byte first.                  *)
(***************************************************************************)
Byte == 0..Base - 1

\* The numbers that so many bytes can hold are those below this.
Power(width) ==
  LET power[n \in 0..width] == IF n = 0 THEN 1 ELSE Base * power[n - 1] IN power[width]

Word(width) == 0..Power(width) - 1

\* A shift by one more byte for each byte appended.
Bytes(width, value) ==
  LET shifted[i \in 0..width] == IF i = 0 THEN value ELSE shifted[i - 1] \div Base
  IN [i \in 1..width |-> shifted[i - 1] % Base]

\* The number of the last n bytes, for each n.
Number(bytes) ==
  LET last[n \in 0..Len(bytes)] ==
        IF n = 0 THEN 0 ELSE bytes[Len(bytes) + 1 - n] + Base * last[n - 1]
  IN last[Len(bytes)]

\* std::bit_cast between a count of microseconds and a word.
Time           == {t \in Int : -Power(TimeWidth) <= 2 * t /\ 2 * t < Power(TimeWidth)}
Unsigned(time) == IF time < 0 THEN time + Power(TimeWidth) ELSE time
Signed(word)   == IF 2 * word < Power(TimeWidth) THEN word ELSE word - Power(TimeWidth)

\* ImageVariant and VpdqFrame.
Item(kind) ==
  IF kind = "image" THEN [hash : Word(HashWidth), quality : 0..MaxQuality]
  ELSE [hash : Word(HashWidth), quality : 0..MaxQuality, time : Time]

ASSUME CodecAssumption ==
  /\ {Base, HashWidth, CountWidth, TimeWidth, MaxVariants} \subseteq Nat \ {0}
  /\ Base > 2
  /\ MaxQuality \in Byte
  /\ Fingerprint \subseteq [kind : {"image"}, items : Seq(Item("image"))]
                           \cup [kind : {"video"}, items : Seq(Item("video"))]
  /\ \A f \in Fingerprint : Len(f.items) \in Word(CountWidth)
  /\ Payload \subseteq Seq(Byte)
  /\ Budget \subseteq Nat
  /\ {DimensionLimit, PixelLimit, LeastTarget} \subseteq Nat
  /\ None \notin Nat
  /\ Settings \subseteq SettingsType

VARIABLES
  fingerprint, budget,
  payload, sum,   \* what is stored: the payload, and what its checksum is of
  settings,       \* two settings
  result, pc

vars == <<fingerprint, budget, payload, sum, settings, result, pc>>

Init == /\ fingerprint \in Fingerprint \cup {None}
        /\ budget \in Budget
        /\ payload = << >> /\ sum = << >>
        /\ settings = << >>
        /\ result = None
        /\ pc = "start"

-----------------------------------------------------------------------------
(* Faulty variants, none of them part of the specification. *)

\* Bytes after the last item are not noticed.
FitsRounded(count, width, remaining) == count = remaining \div width

\* No distance and distance zero are written alike.
PruneWordsUnmarked(prune) == IF prune = None THEN <<0>> ELSE <<prune>>

-----------------------------------------------------------------------------
(***************************************************************************)
(* serialize_fingerprint                                                   *)
(***************************************************************************)

\* Magic and version are one byte here, and nothing else has its value.
Magic == Base - 1

Kind(kind)  == IF kind = "image" THEN 1 ELSE 2
Width(kind) == HashWidth + 1 + (IF kind = 1 THEN 0 ELSE TimeWidth)
HeaderWidth == 2 + CountWidth

ItemBytes(kind, item) ==
  Bytes(HashWidth, item.hash) \o Bytes(1, item.quality)
    \o (IF kind = "image" THEN << >> ELSE Bytes(TimeWidth, Unsigned(item.time)))

Serialized(f) ==
  <<Magic>> \o Bytes(1, Kind(f.kind)) \o Bytes(CountWidth, Len(f.items))
    \o FlattenSeq([n \in DOMAIN f.items |-> ItemBytes(f.kind, f.items[n])])

\* A video may have no frame at all, an image has from one to eight variants.
Valid(f) == f.kind = "image" => Len(f.items) \in 1..MaxVariants

Serialize ==
  /\ pc = "start" /\ fingerprint # None
  /\ IF Valid(fingerprint)
       THEN payload' = Serialized(fingerprint) /\ sum' = payload' /\ pc' = "stored"
       ELSE pc' = "invalid" /\ UNCHANGED <<payload, sum>>
  /\ UNCHANGED <<fingerprint, budget, settings, result>>

\* Bytes from elsewhere, with a checksum that is right.
Receive ==
  /\ pc = "start" /\ fingerprint = None
  /\ payload' \in Payload /\ sum' = payload'
  /\ pc' = "received"
  /\ UNCHANGED <<fingerprint, budget, settings, result>>

\* What is stored is cut off somewhere, or has a byte changed; the checksum is
\* then one of other bytes.
Damage ==
  /\ pc = "stored"
  /\ \/ \E n \in 0..Len(payload) - 1 : payload' = SubSeq(payload, 1, n)
     \/ \E n \in DOMAIN payload :
          payload' = [payload EXCEPT ![n] = (@ + 1) % Base]
  /\ pc' = "damaged"
  /\ UNCHANGED <<fingerprint, budget, sum, settings, result>>

-----------------------------------------------------------------------------
(***************************************************************************)
(* deserialize_fingerprint                                                 *)
(***************************************************************************)
CountValid(kind, count) ==
  CASE kind = 1 -> count \in 1..MaxVariants
    [] kind = 2 -> count <= budget
    [] OTHER    -> FALSE

\* By division: a product with a count from the bytes might overflow.
Fits(count, width, remaining) ==
  count = remaining \div width /\ remaining % width = 0

\* The reader at an item; the quality has a range of its own.
ItemAt(bytes, kind) ==
  LET item == [hash |-> Number(SubSeq(bytes, 1, HashWidth)), quality |-> bytes[HashWidth + 1]]
  IN IF kind = 1 THEN item
     ELSE [hash |-> item.hash, quality |-> item.quality,
           time |-> Signed(Number(SubSeq(bytes, HashWidth + 2, Len(bytes))))]

Items(body, kind, count) ==
  [n \in 1..count |-> ItemAt(SubSeq(body, (n - 1) * Width(kind) + 1, n * Width(kind)), kind)]

Deserialized ==
  IF Len(payload) < HeaderWidth \/ sum # payload \/ payload[1] # Magic THEN Refused
  ELSE LET kind  == payload[2]
           count == Number(SubSeq(payload, 3, HeaderWidth))
           body  == SubSeq(payload, HeaderWidth + 1, Len(payload))
           items == Items(body, kind, count)
       IN IF ~(CountValid(kind, count) /\ Fits(count, Width(kind), Len(body))) THEN Refused
          ELSE IF \E n \in DOMAIN items : items[n].quality > MaxQuality THEN Refused
          ELSE [kind |-> IF kind = 1 THEN "image" ELSE "video", items |-> items]

Deserialize ==
  /\ pc \in {"stored", "received", "damaged"}
  /\ result' = Deserialized
  /\ pc' = "read"
  /\ UNCHANGED <<fingerprint, budget, payload, sum, settings>>

-----------------------------------------------------------------------------
(***************************************************************************)
(* fingerprint_settings_key: BLAKE3, taken as injective, of these words    *)
(***************************************************************************)

\* check_decode_options.
OptionsValid(o) == o.dimension \in 1..DimensionLimit /\ o.pixels \in 1..PixelLimit

SettingsValid(s) ==
  /\ s.kinds \in 0..2 /\ s.transforms \in 0..2
  /\ s.maxFrames # 0
  /\ OptionsValid(s.image) /\ s.target \in {0} \cup LeastTarget..s.image.dimension
  /\ OptionsValid(s.video) /\ s.interval >= 0

\* append_decode; each number is one word of fixed width, so that words one after
\* the other tell as much as these nested sequences.
OptionWords(o) == <<o.dimension, o.pixels, o.background, o.exposure, o.peak>>

PruneWords(prune) == IF prune = None THEN <<0, 0>> ELSE <<1, prune>>

Key(s) == <<s.kinds, OptionWords(s.image), s.target, s.transforms, OptionWords(s.video),
            s.interval, PruneWords(s.prune), s.maxFrames>>

\* The keys of two settings are looked at.
Choose ==
  /\ pc = "start" /\ fingerprint = None
  /\ \E a, b \in Settings : settings' = <<a, b>>
  /\ pc' = IF SettingsValid(settings'[1]) /\ SettingsValid(settings'[2]) THEN "keys" ELSE "invalid"
  /\ UNCHANGED <<fingerprint, budget, payload, sum, result>>

Next == Serialize \/ Receive \/ Damage \/ Deserialize \/ Choose

Spec == Init /\ [][Next]_vars

-----------------------------------------------------------------------------
(***************************************************************************)
(* Properties.                                                             *)
(***************************************************************************)

\* What was stored and not damaged comes back as it was, unless it has more
\* frames than the reader allows; and bytes are accepted only if they are the
\* ones that their fingerprint is written as.
CodecExact ==
  pc = "read" =>
    /\ fingerprint # None /\ sum = payload =>
         result = IF fingerprint.kind = "video" /\ Len(fingerprint.items) > budget
                    THEN Refused ELSE fingerprint
    /\ sum # payload => result = Refused
    /\ result # Refused => Valid(result) /\ Serialized(result) = payload

\* Settings that differ anywhere have different keys, and so different entries
\* of the cache.
SettingsDistinct ==
  pc = "keys" => (Key(settings[1]) = Key(settings[2]) => settings[1] = settings[2])
=============================================================================
