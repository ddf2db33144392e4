---------------------------- MODULE VideoDecoder ----------------------------
(***************************************************************************)
(* VideoDecoder (src/video/decode.cpp): the constructor and next(), each   *)
(* call of FFmpeg a step.  A file is the sequence of its packets, each of  *)
(* one frame; the codec gives frames back some packets later.  A call of   *)
(* FFmpeg may fail at any time.  Pixels are left out.                      *)
(***************************************************************************)
EXTENDS Integers, Sequences, SequencesExt

CONSTANTS Time,        \* presentation timestamps, in microseconds
          Width,       \* bits of a timestamp (64)
          Interval,    \* values of sample_interval
          Delay,       \* frames a codec may hold back
          Other,       \* a packet of another stream
          NoTime,      \* std::nullopt
          MaxPackets,  \* bound on the length of a file
          MaxProbes,   \* packets read to find the stream (2500)
          MaxCalls     \* bound on the calls of next

Modulus == 2 ^ Width

ASSUME VideoAssumption ==
  /\ Width \in Nat \ {0} /\ Modulus \in Nat \ {0}
  /\ Time \subseteq 1 - Modulus \div 2 .. Modulus \div 2 - 1
  /\ Interval \subseteq 0 .. Modulus \div 2 - 1
  /\ Delay \subseteq Nat
  /\ Other \notin Time /\ NoTime \notin Time
  /\ MaxPackets \in Nat /\ MaxProbes \in Nat /\ MaxCalls \in Nat

Packet == Time \cup {Other}
File   == UNION {[1..n -> Packet] : n \in 0..MaxPackets}

\* What a demuxer gives of the stream, each frame named by its timestamp.
OfStream[file \in Seq(Packet)] ==
  IF file = << >> THEN << >>
  ELSE IF Last(file) = Other THEN OfStream[Front(file)]
  ELSE Append(OfStream[Front(file)], Last(file))

VARIABLES
  stop,             \* the caller has asked to stop
  packets, header,  \* the file, and whether its header names the streams
  interval, delay,  \* sample_interval; how many frames the codec holds back
  at,               \* packets read
  broken,           \* io->error: what looks like the end is none
  pending,          \* the packet read last has still to be sent
  held,             \* the frames in the codec
  draining, ended, failed,   \* members of Impl
  previous, selected,        \* timestamps of the last frames seen, given
  frame,            \* the frame received
  pc,               \* where the constructor or next is
  outcome,          \* what the last call gave
  received, given,  \* timestamps of all the frames seen, given (history)
  calls             \* counted against the bound

fileVars   == <<packets, header, interval, delay>>
streamVars == <<at, broken, pending>>
codecVars  == <<held, draining>>
frameVars  == <<previous, selected, frame, received, given>>
flagVars   == <<ended, failed>>
vars       == <<stop, fileVars, streamVars, codecVars, frameVars, flagVars, pc,
                outcome, calls>>

VideoFrames == OfStream[packets]

Error == {"canceled", "memory", "error"}

Init == /\ stop = FALSE
        /\ packets \in File /\ header \in BOOLEAN
        /\ interval \in Interval /\ delay \in Delay
        /\ at = 0 /\ broken = FALSE /\ pending = FALSE
        /\ held = << >> /\ draining = FALSE
        /\ ended = FALSE /\ failed = FALSE
        /\ previous = NoTime /\ selected = NoTime /\ frame = NoTime
        /\ received = << >> /\ given = << >>
        /\ pc = "open" /\ outcome = "none"
        /\ calls = 0

RequestStop == /\ ~stop /\ stop' = TRUE
               /\ UNCHANGED <<fileVars, streamVars, codecVars, frameVars,
                              flagVars, pc, outcome, calls>>

-----------------------------------------------------------------------------
(***************************************************************************)
(* Errors.  A stop turns every error of FFmpeg into cancellation; memory   *)
(* that runs out in the process, and a file that is refused, stay such.    *)
(***************************************************************************)
Constructing == pc \in {"open", "discover", "codec"}
Reading      == pc \in {"receive", "send", "read", "drain", "select", "pixels"}

Throw(e) == /\ outcome' = e
            /\ IF Constructing THEN pc' = "gone" /\ UNCHANGED flagVars
               ELSE pc' = "idle" /\ failed' = TRUE /\ UNCHANGED ended

\* cancel and fail; interrupt, read, seek and allocate_frame make FFmpeg fail.
Fails ==
  /\ Constructing \/ Reading
  /\ \/ Throw(IF stop THEN "canceled" ELSE "error")
     \/ Throw("memory")
     \/ pc = "open" /\ Throw("error")
  /\ UNCHANGED <<stop, fileVars, streamVars, codecVars, frameVars, calls>>

-----------------------------------------------------------------------------
(***************************************************************************)
(* The constructor                                                         *)
(***************************************************************************)

\* The file and its header: a stop that came before is noticed.
OpenInput ==
  /\ pc = "open" /\ ~stop
  /\ pc' = "discover"
  /\ UNCHANGED <<stop, fileVars, streamVars, codecVars, frameVars, flagVars,
                 outcome, calls>>

\* The stream is named by the header, or shows once packets are read: at the
\* latest with its own first one.
StreamKnown  == header \/ at > 0
StreamHidden == ~header /\ \A n \in 1..at : packets[n] = Other

\* A faulty variant, no part of the specification: the packet that was read to
\* find the stream is lost.
FindStreamOnly ==
  /\ pc = "discover" /\ StreamKnown
  /\ pc' = "codec"
  /\ UNCHANGED <<stop, fileVars, streamVars, codecVars, frameVars, flagVars,
                 outcome, calls>>

\* discover_stream: the packet that gave the stream away is kept if it is its.
FindStream ==
  /\ pc = "discover" /\ StreamKnown
  /\ pending' = (at > 0 /\ packets[at] # Other)
  /\ pc' = "codec"
  /\ UNCHANGED <<stop, fileVars, at, broken, codecVars, frameVars, flagVars,
                 outcome, calls>>

\* The last probe reads a packet and is not looked at.
ProbePacket ==
  /\ pc = "discover" /\ StreamHidden
  /\ ~stop /\ at < Len(packets) /\ at + 1 < MaxProbes
  /\ at' = at + 1
  /\ UNCHANGED <<stop, fileVars, broken, pending, codecVars, frameVars,
                 flagVars, pc, outcome, calls>>

OpenCodec ==
  /\ pc = "codec"
  /\ pc' = "idle"
  /\ outcome' = "open"
  /\ UNCHANGED <<stop, fileVars, streamVars, codecVars, frameVars, flagVars,
                 calls>>

-----------------------------------------------------------------------------
(***************************************************************************)
(* Faulty variants, none of them part of the specification.                *)
(***************************************************************************)

\* Signed subtraction.
GapSigned(t) ==
  IF selected = NoTime THEN 0
  ELSE ((t - selected + Modulus \div 2) % Modulus) - (Modulus \div 2)

\* A frame that sampling drops is not seen by the check of the order.
SelectFrameKept(keep) ==
  /\ pc = "select"
  /\ previous # NoTime => frame >= previous
  /\ received' = Append(received, frame)
  /\ IF keep THEN pc' = "pixels" /\ previous' = frame /\ UNCHANGED frame
             ELSE pc' = "receive" /\ frame' = NoTime /\ UNCHANGED previous
  /\ UNCHANGED <<stop, fileVars, streamVars, codecVars, flagVars, selected,
                 given, outcome, calls>>

\* The codec is not told that no packet follows.
DrainForgotten ==
  /\ pc = "drain" /\ ~broken
  /\ pc' = "receive"
  /\ UNCHANGED <<stop, fileVars, streamVars, codecVars, frameVars, flagVars,
                 outcome, calls>>

\* Packets are sent before the frames that are ready are received.
ReceiveNoneFirst ==
  /\ pc = "receive" /\ ~stop /\ ~draining
  /\ pending' = FALSE
  /\ pc' = IF pending THEN "send" ELSE "read"
  /\ UNCHANGED <<stop, fileVars, at, broken, codecVars, frameVars, flagVars,
                 outcome, calls>>

\* The codec is asked again after the end.
CallDrained ==
  /\ pc = "idle" /\ calls < MaxCalls
  /\ calls' = calls + 1
  /\ IF failed THEN outcome' = "logic" /\ UNCHANGED pc
     ELSE pc' = "receive" /\ outcome' = "none"
  /\ UNCHANGED <<stop, fileVars, streamVars, codecVars, frameVars, flagVars>>

-----------------------------------------------------------------------------
(***************************************************************************)
(* next                                                                    *)
(***************************************************************************)
Call ==
  /\ pc = "idle" /\ calls < MaxCalls
  /\ calls' = calls + 1
  /\ IF failed THEN outcome' = "logic" /\ UNCHANGED pc
     ELSE IF ended THEN outcome' = "end" /\ UNCHANGED pc
     ELSE pc' = "receive" /\ outcome' = "none"
  /\ UNCHANGED <<stop, fileVars, streamVars, codecVars, frameVars, flagVars>>

Ready == Len(held) > delay \/ (draining /\ held # << >>)

ReceiveFrame ==
  /\ pc = "receive" /\ ~stop /\ Ready
  /\ frame' = Head(held)
  /\ held' = Tail(held)
  /\ pc' = "select"
  /\ UNCHANGED <<stop, fileVars, streamVars, draining, previous, selected,
                 received, given, flagVars, outcome, calls>>

ReceiveEnd ==
  /\ pc = "receive" /\ ~stop /\ draining /\ held = << >>
  /\ ended' = TRUE
  /\ pc' = "idle" /\ outcome' = "end"
  /\ UNCHANGED <<stop, fileVars, streamVars, codecVars, frameVars, failed, calls>>

\* AVERROR(EAGAIN): the packet that is pending, or else the next one, is sent.
ReceiveNone ==
  /\ pc = "receive" /\ ~stop /\ ~Ready /\ ~draining
  /\ pending' = FALSE
  /\ pc' = IF pending THEN "send" ELSE "read"
  /\ UNCHANGED <<stop, fileVars, at, broken, codecVars, frameVars, flagVars,
                 outcome, calls>>

\* Packets of other streams are passed over, a stop seen before each.
ReadPacket ==
  /\ pc = "read" /\ ~stop /\ at < Len(packets)
  /\ at' = at + 1
  /\ pc' = IF packets[at + 1] = Other THEN "read" ELSE "send"
  /\ UNCHANGED <<stop, fileVars, broken, pending, codecVars, frameVars, flagVars,
                 outcome, calls>>

\* The demuxer takes an error of the input for the end of the file.
ReadEnd ==
  /\ pc = "read" /\ ~stop
  /\ broken' \in {TRUE, at < Len(packets)}
  /\ pc' = "drain"
  /\ UNCHANGED <<stop, fileVars, at, pending, codecVars, frameVars, flagVars,
                 outcome, calls>>

Drain ==
  /\ pc = "drain" /\ ~broken
  /\ draining' = TRUE
  /\ pc' = "receive"
  /\ UNCHANGED <<stop, fileVars, streamVars, held, frameVars, flagVars, outcome,
                 calls>>

SendPacket ==
  /\ pc = "send"
  /\ held' = Append(held, packets[at])
  /\ pc' = "receive"
  /\ UNCHANGED <<stop, fileVars, streamVars, draining, frameVars, flagVars,
                 outcome, calls>>

\* The gap is subtracted without a sign, so that it cannot overflow.
Gap(t) == IF selected = NoTime THEN 0 ELSE (t - selected) % Modulus

SelectFrame(keep) ==
  /\ pc = "select"
  /\ previous # NoTime => frame >= previous
  /\ previous' = frame
  /\ received' = Append(received, frame)
  /\ IF keep THEN pc' = "pixels" /\ UNCHANGED frame
             ELSE pc' = "receive" /\ frame' = NoTime
  /\ UNCHANGED <<stop, fileVars, streamVars, codecVars, flagVars, selected,
                 given, outcome, calls>>

Select == SelectFrame(selected = NoTime \/ Gap(frame) >= interval)

GiveFrame ==
  /\ pc = "pixels" /\ ~stop
  /\ selected' = frame
  /\ given' = Append(given, frame)
  /\ frame' = NoTime
  /\ pc' = "idle" /\ outcome' = "frame"
  /\ UNCHANGED <<stop, fileVars, streamVars, codecVars, previous, received,
                 flagVars, calls>>

Step == \/ Fails \/ OpenInput \/ FindStream \/ ProbePacket \/ OpenCodec
        \/ ReceiveFrame \/ ReceiveEnd \/ ReceiveNone \/ ReadPacket \/ ReadEnd
        \/ Drain \/ SendPacket \/ Select \/ GiveFrame

\* The caller has made all the calls of the bound, or has no decoder.
Quiet == /\ pc = "gone" \/ (pc = "idle" /\ calls = MaxCalls)
         /\ UNCHANGED vars

Next == RequestStop \/ Step \/ Call \/ Quiet

Spec == Init /\ [][Next]_vars /\ WF_vars(Step)

-----------------------------------------------------------------------------
(***************************************************************************)
(* Properties.                                                             *)
(***************************************************************************)
TypeOK ==
  /\ stop \in BOOLEAN
  /\ packets \in File /\ header \in BOOLEAN
  /\ interval \in Interval /\ delay \in Delay
  /\ at \in 0..Len(packets) /\ broken \in BOOLEAN /\ pending \in BOOLEAN
  /\ held \in Seq(Time) /\ Len(held) <= delay + 1
  /\ draining \in BOOLEAN /\ ended \in BOOLEAN /\ failed \in BOOLEAN
  /\ {previous, selected, frame} \subseteq Time \cup {NoTime}
  /\ received \in Seq(Time) /\ given \in Seq(Time)
  /\ pc \in {"open", "discover", "codec", "idle", "receive", "send", "read",
             "drain", "select", "pixels", "gone"}
  /\ outcome \in {"none", "open", "frame", "end", "logic"} \cup Error
  /\ calls \in 0..MaxCalls

\* docs/api.md: "A positive interval emits the first frame, then the first frame
\* at least that interval after the previously selected timestamp."
Sampled(frames, gap) ==
  LET kept[times \in Seq(Time)] ==
        IF times = << >> THEN << >>
        ELSE LET before == kept[Front(times)]
             IN IF before = << >> \/ Last(times) - Last(before) >= gap
                  THEN Append(before, Last(times)) ELSE before
  IN kept[frames]

\* No frame of the stream is lost, repeated or out of order between the file
\* and the caller, and after the end the caller has the sample of all of them.
SampleExact ==
  /\ IsPrefix(received, VideoFrames)
  /\ pc = "idle" /\ ~failed => given = Sampled(received, interval)
  /\ ended => given = Sampled(VideoFrames, interval)

\* docs/api.md: "backward PTS fail": the frames seen never go back in time,
\* those that sampling drops included.
NeverBackward ==
  \A n \in 1..Len(received) - 1 : received[n] <= received[n + 1]

\* docs/api.md: "repeatable nullopt at EOF"; "failed instances reject further
\* reads": once ended or failed, FFmpeg is not called and nothing is given.
EndFinal ==
  [][ended \/ failed => UNCHANGED <<streamVars, codecVars, given, flagVars>>
                        /\ outcome' \in {outcome, IF failed THEN "logic" ELSE "end"}]_vars

\* Every call returns.
Returns == Constructing \/ Reading ~> ~Constructing /\ ~Reading
=============================================================================
