----------------------------- MODULE VideoProofs -----------------------------
(***************************************************************************)
(* Theorems about VideoDecoder and about FingerprintVideo, which runs it,  *)
(* for any file, any codec, any interval and any hashes.                   *)
(*                                                                         *)
(* The decoder's invariant accounts for every packet read so far: its      *)
(* frame has been seen, is in hand, in the codec, or still to be sent, in  *)
(* that order (Flow); and it says that what has been given is the sample   *)
(* of what has been seen (Sampling), which the decoder decides from two    *)
(* timestamps and a subtraction that wraps (Marks, GapExact).              *)
(*                                                                         *)
(* The invariant of fingerprint_video relates the decoder's marks and the  *)
(* signature to sets of frames of the file, which are defined without the  *)
(* loop (Selection, Retention).                                            *)
(*                                                                         *)
(* The frames of a file, their sample and pruning are recursive functions  *)
(* on sequences.  That these exist is proved below (FoldDefined), by       *)
(* induction in the form of a least counterexample.                        *)
(***************************************************************************)
EXTENDS FingerprintVideo, FiniteSetTheorems, SequenceTheorems, WellFoundedInduction, TLAPS

(***************************************************************************)
(* The invariant of the decoder.                                           *)
(***************************************************************************)

\* Where the decoder stands.
Stages ==
  /\ Constructing \/ pc = "gone" =>
       /\ held = << >> /\ received = << >> /\ given = << >>
       /\ selected = NoTime
       /\ ~draining /\ ~ended /\ ~failed
  /\ pc = "open" => at = 0
  /\ pc \in {"open", "discover"} => ~pending
  /\ Reading => ~ended /\ ~failed
  /\ pc \in {"read", "send", "drain"} => Len(held) <= delay /\ ~draining /\ ~pending
  /\ pending \/ pc = "send" => at >= 1 /\ packets[at] # Other
  /\ pc = "drain" /\ ~broken => at = Len(packets)
  /\ draining => at = Len(packets) /\ ~pending
  /\ pc \in {"select", "pixels"} => frame # NoTime
  /\ ended => draining /\ held = << >> /\ ~failed

\* The packets read so far, what has become of their frames: seen, in hand, in
\* the codec, and not sent yet.
ReadSoFar == OfStream[SubSeq(packets, 1, at)]
InHand    == IF pc = "select" THEN <<frame>> ELSE << >>
Unsent    == IF pending \/ pc = "send" THEN <<packets[at]>> ELSE << >>

Flow ==
  /\ pc = "discover" =>
       ReadSoFar = IF at > 0 /\ packets[at] # Other THEN <<packets[at]>> ELSE << >>
  /\ pc \notin {"open", "discover", "gone"} /\ ~failed =>
       ReadSoFar = ((received \o InHand) \o held) \o Unsent
  /\ IsPrefix(received, VideoFrames)
  /\ ended => received = VideoFrames

\* The timestamps kept are those of the frames seen and given last.
Marks ==
  /\ previous = NoTime <=> received = << >>
  /\ received # << >> => previous = Last(received)
  /\ selected = NoTime <=> given = << >>
  /\ given # << >> => selected = Last(given)
  /\ selected # NoTime => previous # NoTime /\ selected <= previous
  /\ pc = "pixels" => frame = previous

Sampling ==
  ~failed =>
    Sampled(received, interval) = IF pc = "pixels" THEN Append(given, frame) ELSE given

IInv == TypeOK /\ Stages /\ Flow /\ Marks /\ NeverBackward /\ Sampling

-----------------------------------------------------------------------------
(***************************************************************************)
(* Induction and recursion on numbers and sequences.                       *)
(***************************************************************************)

\* Numbers, if any, have a least one.
LEMMA Least ==
  ASSUME NEW T \in SUBSET Nat, T # {}
  PROVE  \E x \in T : \A y \in T : x <= y
<1> DEFINE R == OpToRel(<, Nat)
<1>1. \A x, y \in Nat : <<x, y>> \in R <=> x < y
  BY DEF OpToRel
<1>2. T \subseteq Nat /\ IsWellFoundedOn(R, Nat)
  BY NatLessThanWellFounded
<1> HIDE DEF R
<1>3. \E x \in T : \A y \in T : ~ (<<y, x>> \in R)
  BY <1>2, WFMin, Zenon
<1>4. PICK x \in T : \A y \in T : ~ (<<y, x>> \in R)
  BY <1>3
<1>5. ASSUME NEW y \in T PROVE x <= y
  <2>1. x \in Nat /\ y \in Nat /\ ~ (<<y, x>> \in R)
    BY <1>4
  <2>2. ~ (y < x)
    BY <1>1, <2>1
  <2> QED BY <2>1, <2>2
<1> QED BY <1>5

\* Induction up to a number.
LEMMA Induct ==
  ASSUME NEW n \in Nat, NEW T \in SUBSET (0..n), 0 \in T,
         \A m \in 0..n - 1 : m \in T => m + 1 \in T
  PROVE  \A m \in 0..n : m \in T
<1> DEFINE Bad == (0..n) \ T
<1> SUFFICES ASSUME Bad # {} PROVE FALSE
  OBVIOUS
<1>1. Bad \in SUBSET Nat
  OBVIOUS
<1>2. PICK m \in Bad : \A i \in Bad : m <= i
  <2> HIDE DEF Bad
  <2> QED BY <1>1, Least
<1>3. m \in 0..n /\ m # 0 /\ m - 1 \in 0..n - 1 /\ m - 1 + 1 = m
  OBVIOUS
<1>4. m - 1 \notin Bad
  BY <1>1, <1>2
<1> QED BY <1>3, <1>4

\* A sequence is its front and its last element.
LEMMA FrontLast ==
  ASSUME NEW S, NEW s \in Seq(S), s # << >>
  PROVE  /\ Front(s) \in Seq(S) /\ Last(s) \in S
         /\ Len(s) \in Nat \ {0} /\ Len(Front(s)) = Len(s) - 1
         /\ \A i \in 1..Len(s) - 1 : Front(s)[i] = s[i]
         /\ s = Append(Front(s), Last(s))
<1>1. Len(s) \in Nat \ {0} /\ \A i \in 1..Len(s) : s[i] \in S
  BY EmptySeq, ElementOfSeq
<1>2. /\ Front(s) \in Seq(S) /\ Len(Front(s)) = Len(s) - 1
      /\ \A i \in 1..Len(s) - 1 : Front(s)[i] = s[i]
  <2> DEFINE n == Len(s) - 1
  <2>1. n \in Nat /\ \A i \in 1..n : s[i] \in S
    BY <1>1
  <2> HIDE DEF n
  <2>2. /\ SubSeq(s, 1, n) \in Seq(S)
        /\ Len(SubSeq(s, 1, n)) = IF 1 <= n THEN n - 1 + 1 ELSE 0
        /\ \A i \in 1..n - 1 + 1 : SubSeq(s, 1, n)[i] = s[1 + i - 1]
    BY <2>1, SubSeqProperties
  <2>3. n - 1 + 1 = n /\ \A i \in 1..n : 1 + i - 1 = i
    BY <2>1
  <2>4. Len(SubSeq(s, 1, n)) = n /\ \A i \in 1..n : SubSeq(s, 1, n)[i] = s[i]
    BY <2>1, <2>2, <2>3
  <2> QED BY <2>2, <2>4 DEF Front, n
<1>3. Last(s) \in S
  BY <1>1 DEF Last
<1>4. s = Append(Front(s), Last(s))
  <2>1. /\ Append(Front(s), Last(s)) \in Seq(S) /\ Len(Append(Front(s), Last(s))) = Len(s)
        /\ \A i \in 1..Len(s) : s[i] = Append(Front(s), Last(s))[i]
    BY <1>1, <1>2, <1>3, AppendProperties DEF Last
  <2> QED BY <2>1, SeqEqual
<1> QED BY <1>1, <1>2, <1>3, <1>4

\* What was appended is last.
LEMMA AppendFrontLast ==
  ASSUME NEW S, NEW s \in Seq(S), NEW x \in S
  PROVE  /\ Append(s, x) \in Seq(S) /\ Append(s, x) # << >>
         /\ Front(Append(s, x)) = s /\ Last(Append(s, x)) = x
<1>1. /\ Append(s, x) \in Seq(S) /\ Append(s, x) # << >>
      /\ Len(Append(s, x)) = Len(s) + 1 /\ Len(s) \in Nat
      /\ \A i \in 1..Len(s) : Append(s, x)[i] = s[i]
      /\ Append(s, x)[Len(s) + 1] = x
  BY AppendProperties, LenProperties
<1>2. Front(Append(s, x)) \in Seq(S) /\ Len(Front(Append(s, x))) = Len(s)
      /\ \A i \in 1..Len(s) : Front(Append(s, x))[i] = s[i]
  <2>1. /\ Len(Front(Append(s, x))) = Len(Append(s, x)) - 1
        /\ Front(Append(s, x)) \in Seq(S)
        /\ \A i \in 1..Len(Append(s, x)) - 1 : Front(Append(s, x))[i] = Append(s, x)[i]
    BY <1>1, FrontLast
  <2> QED BY <1>1, <2>1
<1>3. Front(Append(s, x)) = s
  BY <1>2, SeqEqual
<1> QED BY <1>1, <1>3 DEF Last

\* All sequences are had from the empty one by appending.
LEMMA SequencesByAppend ==
  ASSUME NEW S, NEW T \in SUBSET Seq(S), << >> \in T,
         \A s \in T, x \in S : Append(s, x) \in T
  PROVE  T = Seq(S)
<1> DEFINE Lengths == {Len(s) : s \in Seq(S) \ T}
<1> SUFFICES ASSUME Lengths # {} PROVE FALSE
  OBVIOUS
<1>1. Lengths \in SUBSET Nat
  BY LenProperties
<1>2. PICK l \in Lengths : \A k \in Lengths : l <= k
  <2> HIDE DEF Lengths
  <2> QED BY <1>1, Least
<1>3. PICK s \in Seq(S) \ T : l = Len(s)
  OBVIOUS
<1>4. /\ Front(s) \in Seq(S) /\ Last(s) \in S /\ Len(Front(s)) = l - 1
      /\ l \in Nat /\ s = Append(Front(s), Last(s))
  BY <1>1, <1>3, FrontLast
<1>5. ASSUME Front(s) \notin T PROVE FALSE
  <2>1. l - 1 \in Lengths
    BY <1>4, <1>5
  <2> HIDE DEF Lengths
  <2>2. l <= l - 1
    BY <1>2, <2>1
  <2> QED BY <1>4, <2>2
<1> QED BY <1>3, <1>4, <1>5

\* The sequences of at most so many elements.
Short(S, n) == {s \in Seq(S) : Len(s) <= n}

\* The function folds each sequence of the domain with the step.
Folds(f, base, put, dom) ==
  \A s \in dom : f[s] = IF s = << >> THEN base ELSE put[<<f[Front(s)], Last(s)>>]

\* No two functions fold differently.
LEMMA FoldUnique ==
  ASSUME NEW S, NEW base, NEW put, NEW m \in Nat, NEW n \in Nat, m <= n,
         NEW f, NEW g,
         Folds(f, base, put, Short(S, m)), Folds(g, base, put, Short(S, n))
  PROVE  \A s \in Short(S, m) : f[s] = g[s]
<1> DEFINE T == {Len(s) : s \in {s \in Short(S, m) : f[s] # g[s]}}
<1> SUFFICES T = {}
  OBVIOUS
<1>1. T \in SUBSET Nat
  BY LenProperties DEF Short
<1>2. SUFFICES ASSUME T # {} PROVE FALSE
  OBVIOUS
<1>3. PICK l \in T : \A k \in T : l <= k
  <2> HIDE DEF T
  <2> QED BY <1>1, <1>2, Least
<1>4. PICK s \in Short(S, m) : l = Len(s) /\ f[s] # g[s]
  OBVIOUS
<1>5. s \in Short(S, n) /\ s \in Seq(S) /\ Len(s) <= m
  BY <1>1 DEF Short
<1>6. s # << >>
  BY <1>4, <1>5 DEF Folds
<1>7. Front(s) \in Short(S, m) /\ Len(Front(s)) = l - 1
  BY <1>4, <1>5, <1>6, FrontLast DEF Short
<1>8. f[Front(s)] = g[Front(s)]
  BY <1>1, <1>3, <1>7
<1> QED BY <1>4, <1>5, <1>6, <1>8 DEF Folds

\* Sequences up to any length can be folded.
LEMMA FoldShort ==
  ASSUME NEW S, NEW D, NEW base \in D, NEW put \in [D \X S -> D], NEW n \in Nat
  PROVE  \E f \in [Short(S, n) -> D] : Folds(f, base, put, Short(S, n))
<1> DEFINE Good(k) == \E f \in [Short(S, k) -> D] : Folds(f, base, put, Short(S, k))
           T == {k \in Nat : ~Good(k)}
<1>1. Good(0)
  <2> DEFINE f == [s \in Short(S, 0) |-> base]
  <2>1. \A s \in Short(S, 0) : s = << >>
    BY EmptySeq DEF Short
  <2>2. f \in [Short(S, 0) -> D] /\ Folds(f, base, put, Short(S, 0))
    BY <2>1 DEF Folds
  <2> QED BY <2>2
<1>2. ASSUME NEW k \in Nat, Good(k) PROVE Good(k + 1)
  <2>1. PICK f \in [Short(S, k) -> D] : Folds(f, base, put, Short(S, k))
    BY <1>2
  <2> DEFINE g == [s \in Short(S, k + 1) |->
                     IF s = << >> THEN base ELSE put[<<f[Front(s)], Last(s)>>]]
  <2>2. \A s \in Short(S, k) : s \in Short(S, k + 1) /\ g[s] = f[s]
    BY <2>1, LenProperties DEF Folds, Short
  <2>3. ASSUME NEW s \in Short(S, k + 1), s # << >>
        PROVE  Front(s) \in Short(S, k) /\ Last(s) \in S
    BY <2>3, FrontLast DEF Short
  <2>4. g \in [Short(S, k + 1) -> D]
    BY <2>1, <2>3
  <2>5. Folds(g, base, put, Short(S, k + 1))
    BY <2>2, <2>3 DEF Folds
  <2> QED BY <2>4, <2>5
<1>3. T = {}
  <2> SUFFICES ASSUME T # {} PROVE FALSE
    OBVIOUS
  <2>1. PICK k \in T : \A j \in T : k <= j
    <3>1. T \in SUBSET Nat
      OBVIOUS
    <3> HIDE DEF T
    <3> QED BY <3>1, Least
  <2> HIDE DEF Good
  <2>2. k # 0 /\ k - 1 \in Nat /\ k - 1 \notin T
    BY <1>1, <2>1
  <2> QED BY <1>2, <2>1, <2>2
<1> QED BY <1>3

\* All sequences can be folded by one function.
LEMMA FoldDefined ==
  ASSUME NEW S, NEW D, NEW base \in D, NEW put \in [D \X S -> D]
  PROVE  \E f \in [Seq(S) -> D] : Folds(f, base, put, Seq(S))
<1> DEFINE Good(f, n) == f \in [Short(S, n) -> D] /\ Folds(f, base, put, Short(S, n))
           part == [n \in Nat |-> CHOOSE f : Good(f, n)]
           whole == [s \in Seq(S) |-> part[Len(s)][s]]
<1>1. ASSUME NEW n \in Nat PROVE Good(part[n], n)
  <2>1. \E f : Good(f, n)
    BY FoldShort
  <2> HIDE DEF Good
  <2> QED BY <2>1
<1> HIDE DEF part
<1>2. \A s \in Seq(S) : Len(s) \in Nat /\ s \in Short(S, Len(s))
  BY LenProperties DEF Short
<1>3. whole \in [Seq(S) -> D]
  BY <1>1, <1>2
<1>4. ASSUME NEW s \in Seq(S), s # << >>
      PROVE  whole[s] = put[<<whole[Front(s)], Last(s)>>]
  <2>1. Front(s) \in Seq(S) /\ Len(s) \in Nat /\ Len(Front(s)) \in Nat /\ Len(Front(s)) <= Len(s)
    BY <1>4, FrontLast
  <2>2. part[Len(s)][s] = put[<<part[Len(s)][Front(s)], Last(s)>>]
    BY <1>1, <1>2, <1>4 DEF Folds
  <2>3. part[Len(Front(s))][Front(s)] = part[Len(s)][Front(s)]
    BY <1>1, <1>2, <2>1, FoldUnique
  <2> QED BY <2>1, <2>2, <2>3
<1>5. whole[<< >>] = base
  BY <1>1, <1>2, EmptySeq DEF Folds
<1> QED BY <1>3, <1>4, <1>5 DEF Folds

-----------------------------------------------------------------------------
(***************************************************************************)
(* The operators of the model.                                             *)
(***************************************************************************)

\* The recursion of OfStream, packet by packet.
LEMMA OfStreamFold ==
  /\ OfStream \in [Seq(Packet) -> Seq(Time)]
  /\ OfStream[<< >>] = << >>
  /\ \A file \in Seq(Packet), p \in Packet :
       OfStream[Append(file, p)] =
         IF p = Other THEN OfStream[file] ELSE Append(OfStream[file], p)
<1> DEFINE put == [q \in Seq(Time) \X Packet |->
                      IF q[2] = Other THEN q[1] ELSE Append(q[1], q[2])]
<1>1. << >> \in Seq(Time) /\ << >> \in Seq(Packet) /\ put \in [Seq(Time) \X Packet -> Seq(Time)]
  BY EmptySeq, AppendProperties DEF Packet
<1>2. \A s \in Seq(Time), p \in Packet : put[<<s, p>>] = IF p = Other THEN s ELSE Append(s, p)
  OBVIOUS
<1> HIDE DEF put
<1>3. PICK f \in [Seq(Packet) -> Seq(Time)] : Folds(f, << >>, put, Seq(Packet))
  BY <1>1, FoldDefined
<1>4. \A s \in Seq(Packet) \ {<< >>} : Front(s) \in Seq(Packet) /\ Last(s) \in Packet
  BY FrontLast
<1>5. f = [file \in Seq(Packet) |->
             IF file = << >> THEN << >>
             ELSE IF Last(file) = Other THEN f[Front(file)]
             ELSE Append(f[Front(file)], Last(file))]
  BY <1>2, <1>3, <1>4 DEF Folds
<1>6. OfStream = [file \in Seq(Packet) |->
                    IF file = << >> THEN << >>
                    ELSE IF Last(file) = Other THEN OfStream[Front(file)]
                    ELSE Append(OfStream[Front(file)], Last(file))]
  BY <1>5, Zenon DEF OfStream
<1>7. OfStream[<< >>] = << >>
  BY <1>1, <1>6
<1>8. ASSUME NEW file \in Seq(Packet), NEW p \in Packet
      PROVE  OfStream[Append(file, p)] =
               IF p = Other THEN OfStream[file] ELSE Append(OfStream[file], p)
  <2>1. /\ Append(file, p) \in Seq(Packet) /\ Append(file, p) # << >>
        /\ Front(Append(file, p)) = file /\ Last(Append(file, p)) = p
    BY AppendFrontLast
  <2>2. \A q \in Seq(Packet) : OfStream[q] =
          IF q = << >> THEN << >>
          ELSE IF Last(q) = Other THEN OfStream[Front(q)]
          ELSE Append(OfStream[Front(q)], Last(q))
    BY <1>6
  <2>3. OfStream[Append(file, p)] =
          IF Append(file, p) = << >> THEN << >>
          ELSE IF Last(Append(file, p)) = Other THEN OfStream[Front(Append(file, p))]
          ELSE Append(OfStream[Front(Append(file, p))], Last(Append(file, p)))
    BY <2>1, <2>2
  <2> QED BY <2>1, <2>3
<1>9. \A file \in Seq(Packet) : OfStream[file] \in Seq(Time)
  <2> DEFINE T == {file \in Seq(Packet) : OfStream[file] \in Seq(Time)}
  <2>1. ASSUME NEW file \in T, NEW p \in Packet PROVE Append(file, p) \in T
    <3>1. Append(file, p) \in Seq(Packet)
      BY AppendProperties
    <3>2. p # Other => Append(OfStream[file], p) \in Seq(Time)
      BY AppendProperties DEF Packet
    <3> QED BY <1>8, <3>1, <3>2
  <2>2. T \in SUBSET Seq(Packet) /\ << >> \in T
    BY <1>1, <1>7
  <2> HIDE DEF T
  <2>3. T = Seq(Packet)
    BY <2>1, <2>2, SequencesByAppend
  <2> QED BY <2>3 DEF T
<1> QED BY <1>6, <1>7, <1>8, <1>9

\* The recursion of Sampled, frame by frame.
LEMMA SampledFold ==
  ASSUME NEW gap
  PROVE  /\ Sampled(<< >>, gap) = << >>
         /\ \A s \in Seq(Time) : Sampled(s, gap) \in Seq(Time)
         /\ \A s \in Seq(Time), t \in Time :
              Sampled(Append(s, t), gap) =
                IF Sampled(s, gap) = << >> \/ t - Last(Sampled(s, gap)) >= gap
                  THEN Append(Sampled(s, gap), t) ELSE Sampled(s, gap)
<1> DEFINE More(kept, t) == IF kept = << >> \/ t - Last(kept) >= gap
                              THEN Append(kept, t) ELSE kept
           put == [q \in Seq(Time) \X Time |-> More(q[1], q[2])]
           kept[times \in Seq(Time)] ==
             IF times = << >> THEN << >>
             ELSE LET before == kept[Front(times)]
                  IN IF before = << >> \/ Last(times) - Last(before) >= gap
                       THEN Append(before, Last(times)) ELSE before
<1>1. << >> \in Seq(Time) /\ put \in [Seq(Time) \X Time -> Seq(Time)]
  BY EmptySeq, AppendProperties
<1>2. \A s \in Seq(Time), t \in Time : put[<<s, t>>] = More(s, t)
  OBVIOUS
<1> HIDE DEF put
<1>3. PICK f \in [Seq(Time) -> Seq(Time)] : Folds(f, << >>, put, Seq(Time))
  BY <1>1, FoldDefined
<1>4. \A s \in Seq(Time) \ {<< >>} : Front(s) \in Seq(Time) /\ Last(s) \in Time
  BY FrontLast
<1>5. f = [times \in Seq(Time) |->
             IF times = << >> THEN << >>
             ELSE LET before == f[Front(times)]
                  IN IF before = << >> \/ Last(times) - Last(before) >= gap
                       THEN Append(before, Last(times)) ELSE before]
  <2>1. ASSUME NEW s \in Seq(Time), s # << >>
        PROVE  f[s] = More(f[Front(s)], Last(s))
    <3>1. f[s] = put[<<f[Front(s)], Last(s)>>] /\ f[Front(s)] \in Seq(Time)
      BY <1>3, <1>4, <2>1 DEF Folds
    <3> QED BY <1>2, <1>4, <2>1, <3>1
  <2>2. f[<< >>] = << >>
    BY <1>1, <1>3 DEF Folds
  <2> QED BY <1>3, <2>1, <2>2
<1>6. kept = [times \in Seq(Time) |->
                IF times = << >> THEN << >>
                ELSE LET before == kept[Front(times)]
                     IN IF before = << >> \/ Last(times) - Last(before) >= gap
                          THEN Append(before, Last(times)) ELSE before]
  BY <1>5, Zenon DEF kept
<1>s. \A s : Sampled(s, gap) = kept[s]
  BY Zenon DEF Sampled
<1> HIDE DEF kept
<1>7. kept[<< >>] = << >>
  BY <1>1, <1>6
<1>8. ASSUME NEW s \in Seq(Time), NEW t \in Time
      PROVE  kept[Append(s, t)] = More(kept[s], t)
  <2>1. /\ Append(s, t) \in Seq(Time) /\ Append(s, t) # << >>
        /\ Front(Append(s, t)) = s /\ Last(Append(s, t)) = t
    BY AppendFrontLast
  <2>2. \A r \in Seq(Time) : r # << >> => kept[r] = More(kept[Front(r)], Last(r))
    BY <1>6
  <2>3. kept[Append(s, t)] = More(kept[Front(Append(s, t))], Last(Append(s, t)))
    BY <2>1, <2>2
  <2> QED BY <2>1, <2>3
<1>9. \A s \in Seq(Time) : kept[s] \in Seq(Time)
  <2> DEFINE T == {s \in Seq(Time) : kept[s] \in Seq(Time)}
  <2>1. ASSUME NEW s \in T, NEW t \in Time PROVE Append(s, t) \in T
    <3>1. Append(s, t) \in Seq(Time) /\ Append(kept[s], t) \in Seq(Time)
      BY AppendProperties
    <3> QED BY <1>8, <3>1
  <2>2. T \in SUBSET Seq(Time) /\ << >> \in T
    BY <1>1, <1>7
  <2> HIDE DEF T
  <2>3. T = Seq(Time)
    BY <2>1, <2>2, SequencesByAppend
  <2> QED BY <2>3 DEF T
<1>10. Sampled(<< >>, gap) = << >> /\ \A s \in Seq(Time) : Sampled(s, gap) \in Seq(Time)
  BY <1>s, <1>7, <1>9
<1>11. ASSUME NEW s \in Seq(Time), NEW t \in Time
       PROVE  Sampled(Append(s, t), gap) = More(Sampled(s, gap), t)
  <2>1. Sampled(Append(s, t), gap) = kept[Append(s, t)] /\ Sampled(s, gap) = kept[s]
    BY <1>s
  <2> QED BY <1>8, <2>1
<1> QED BY <1>10, <1>11

\* A sequence is its head and its tail.
LEMMA HeadThenTail ==
  ASSUME NEW S, NEW s \in Seq(S), s # << >>
  PROVE  /\ Head(s) \in S /\ Tail(s) \in Seq(S) /\ <<Head(s)>> \in Seq(S)
         /\ s = <<Head(s)>> \o Tail(s)
<1>1. Head(s) \in S /\ Tail(s) \in Seq(S)
  BY HeadTailProperties
<1>2. Len(s) \in Nat /\ 1 \in 1..Len(s) /\ Len(s) \in 1..Len(s)
  BY EmptySeq
<1>3. s = <<s[1]>> \o SubSeq(s, 1 + 1, Len(s))
  <2>1. SubSeq(s, 1, Len(s)) = <<s[1]>> \o SubSeq(s, 1 + 1, Len(s))
    BY <1>2, SubSeqRecursiveFirst
  <2> QED BY <2>1, SubSeqFull
<1>4. Tail(s) = SubSeq(s, 1 + 1, Len(s)) /\ Head(s) = s[1]
  <2>1. 1 + 1 = 2
    OBVIOUS
  <2> QED BY <2>1, TailIsSubSeq
<1> QED BY <1>1, <1>3, <1>4

\* Prefixes, element by element.
LEMMA PrefixPointwise ==
  ASSUME NEW S, NEW s \in Seq(S), NEW t \in Seq(S)
  PROVE  IsPrefix(s, t) <=> Len(s) <= Len(t) /\ \A i \in 1..Len(s) : s[i] = t[i]
<1>1. Len(s) \in Nat /\ Len(t) \in Nat
  BY LenProperties
<1>2. SubSeq(s, 1, Len(s)) = s
  BY SubSeqFull
<1>3. ASSUME Len(s) <= Len(t)
      PROVE  /\ SubSeq(t, 1, Len(s)) \in Seq(S) /\ Len(SubSeq(t, 1, Len(s))) = Len(s)
             /\ \A i \in 1..Len(s) : SubSeq(t, 1, Len(s))[i] = t[i]
  <2>1. \A i \in 1..Len(s) : t[i] \in S
    BY <1>1, <1>3, ElementOfSeq
  <2> DEFINE n == Len(s)
  <2> HIDE DEF n
  <2>2. /\ SubSeq(t, 1, n) \in Seq(S)
        /\ Len(SubSeq(t, 1, n)) = IF 1 <= n THEN n - 1 + 1 ELSE 0
        /\ \A i \in 1..n - 1 + 1 : SubSeq(t, 1, n)[i] = t[1 + i - 1]
    BY <1>1, <2>1, SubSeqProperties DEF n
  <2>3. n \in Nat /\ n - 1 + 1 = n /\ \A i \in 1..n : 1 + i - 1 = i
    BY <1>1 DEF n
  <2>4. Len(SubSeq(t, 1, n)) = n /\ \A i \in 1..n : SubSeq(t, 1, n)[i] = t[i]
    BY <2>2, <2>3
  <2> QED BY <2>2, <2>4 DEF n
<1>4. ASSUME Len(s) <= Len(t)
      PROVE  s = SubSeq(t, 1, Len(s)) <=> \A i \in 1..Len(s) : s[i] = t[i]
  BY <1>3, <1>4, SeqEqual
<1> QED BY <1>2, <1>4 DEF IsPrefix

\* A prefix of a prefix is one.
LEMMA PrefixTransitive ==
  ASSUME NEW S, NEW s \in Seq(S), NEW t \in Seq(S), NEW u \in Seq(S),
         IsPrefix(s, t), IsPrefix(t, u)
  PROVE  IsPrefix(s, u)
<1>1. Len(s) \in Nat /\ Len(t) \in Nat /\ Len(u) \in Nat
  BY LenProperties
<1> QED BY <1>1, PrefixPointwise

\* A sequence is a prefix of what it is continued to.
LEMMA PrefixConcat ==
  ASSUME NEW S, NEW s \in Seq(S), NEW t \in Seq(S)
  PROVE  s \o t \in Seq(S) /\ IsPrefix(s, s \o t)
<1>1. Len(s) \in Nat /\ Len(t) \in Nat
  BY LenProperties
<1>2. /\ s \o t \in Seq(S) /\ Len(s \o t) = Len(s) + Len(t)
      /\ \A i \in 1..Len(s) : (s \o t)[i] = s[i]
  BY <1>1, ConcatProperties
<1>3. IsPrefix(s, s \o t) <=>
        Len(s) <= Len(s \o t) /\ \A i \in 1..Len(s) : s[i] = (s \o t)[i]
  BY <1>2, PrefixPointwise
<1> QED BY <1>1, <1>2, <1>3

\* The frames of the packets read first are the first frames.
LEMMA StreamPrefix ==
  ASSUME NEW file \in Seq(Packet), NEW m \in 0..Len(file)
  PROVE  /\ SubSeq(file, 1, m) \in Seq(Packet)
         /\ IsPrefix(OfStream[SubSeq(file, 1, m)], OfStream[file])
<1> DEFINE Below(f) == \A k \in 0..Len(f) :
                         /\ SubSeq(f, 1, k) \in Seq(Packet)
                         /\ IsPrefix(OfStream[SubSeq(f, 1, k)], OfStream[f])
           T == {f \in Seq(Packet) : Below(f)}
<1>1. << >> \in T
  <2>1. << >> \in Seq(Packet) /\ Len(<< >>) = 0 /\ SubSeq(<< >>, 1, 0) = << >>
    BY EmptySeq, SubSeqEmpty
  <2>2. IsPrefix(OfStream[<< >>], OfStream[<< >>])
    BY DEF IsPrefix
  <2>3. \A k \in 0..Len(<< >>) : k = 0
    BY <2>1
  <2> QED BY <2>1, <2>2, <2>3
<1>2. ASSUME NEW f \in T, NEW p \in Packet
      PROVE  Append(f, p) \in T
  <2>1. /\ Append(f, p) \in Seq(Packet) /\ Len(Append(f, p)) = Len(f) + 1 /\ Len(f) \in Nat
        /\ OfStream[f] \in Seq(Time) /\ OfStream[Append(f, p)] \in Seq(Time)
    <3>1. Append(f, p) \in Seq(Packet) /\ Len(Append(f, p)) = Len(f) + 1
      BY AppendProperties
    <3> QED BY <3>1, LenProperties, OfStreamFold
  <2>2. IsPrefix(OfStream[f], OfStream[Append(f, p)])
    <3>1. CASE p = Other
      BY <3>1, OfStreamFold DEF IsPrefix
    <3>2. CASE p # Other
      <4>1. p \in Time /\ OfStream[Append(f, p)] = Append(OfStream[f], p)
        BY <3>2, OfStreamFold DEF Packet
      <4>2. Append(OfStream[f], p) = OfStream[f] \o <<p>> /\ <<p>> \in Seq(Time)
        BY <2>1, <4>1, AppendIsConcat
      <4>3. IsPrefix(OfStream[f], OfStream[f] \o <<p>>)
        BY <2>1, <4>2, PrefixConcat
      <4> QED BY <4>1, <4>2, <4>3
    <3> QED BY <3>1, <3>2
  <2>3. ASSUME NEW k \in 0..Len(f) PROVE SubSeq(Append(f, p), 1, k) = SubSeq(f, 1, k)
    <3>1. CASE k = 0
      BY <3>1, SubSeqEmpty
    <3>2. CASE k # 0
      <4>1. k \in 1..Len(f) /\ 1 \in 1..Len(f) /\ <<p>> \in Seq(Packet)
        BY <2>1, <3>2
      <4>2. SubSeq(f \o <<p>>, 1, k) = SubSeq(f, 1, k)
        BY <4>1, SubSeqOfConcat1
      <4>3. Append(f, p) = f \o <<p>>
        BY AppendIsConcat
      <4> QED BY <4>2, <4>3
    <3> QED BY <3>1, <3>2
  <2>4. SubSeq(Append(f, p), 1, Len(f) + 1) = Append(f, p)
    BY <2>1, SubSeqFull
  <2>5. ASSUME NEW k \in 0..Len(f) + 1
        PROVE  /\ SubSeq(Append(f, p), 1, k) \in Seq(Packet)
               /\ IsPrefix(OfStream[SubSeq(Append(f, p), 1, k)], OfStream[Append(f, p)])
    <3>1. CASE k = Len(f) + 1
      <4>1. IsPrefix(OfStream[Append(f, p)], OfStream[Append(f, p)])
        BY DEF IsPrefix
      <4>2. SubSeq(Append(f, p), 1, k) = Append(f, p)
        BY <2>4, <3>1
      <4> QED BY <2>1, <4>1, <4>2
    <3>2. CASE k \in 0..Len(f)
      <4>1. SubSeq(f, 1, k) \in Seq(Packet) /\ IsPrefix(OfStream[SubSeq(f, 1, k)], OfStream[f])
        BY <3>2
      <4>2. OfStream[SubSeq(f, 1, k)] \in Seq(Time)
        BY <4>1, OfStreamFold
      <4> QED BY <2>1, <2>2, <2>3, <3>2, <4>1, <4>2, PrefixTransitive
    <3> QED BY <2>1, <3>1, <3>2
  <2> QED BY <2>1, <2>5
<1>3. T \in SUBSET Seq(Packet)
  OBVIOUS
<1> HIDE DEF T
<1>4. T = Seq(Packet)
  BY <1>1, <1>2, <1>3, SequencesByAppend
<1> QED BY <1>4 DEF T

-----------------------------------------------------------------------------
(***************************************************************************)
(* The steps.                                                              *)
(***************************************************************************)
USE DEF fileVars, streamVars, codecVars, frameVars, flagVars

\* A file is a sequence of packets.
LEMMA FileSeq ==
  ASSUME NEW file \in File
  PROVE  /\ file \in Seq(Packet) /\ Len(file) \in Nat
         /\ \A n \in 1..Len(file) : file[n] \in Packet
<1>1. PICK n \in 0..MaxPackets : file \in [1..n -> Packet]
  BY DEF File
<1>2. n \in Nat
  BY VideoAssumption
<1>3. file \in Seq(Packet) /\ Len(file) = n
  BY <1>1, <1>2
<1> QED BY <1>1, <1>2, <1>3

\* Types and stages go together: the codec holds no more than it may because a
\* packet is sent only after the frames that are ready have been received.
LEMMA TypeStep == TypeOK /\ Stages /\ [Next]_vars => TypeOK' /\ Stages'
<1> SUFFICES ASSUME TypeOK, Stages, [Next]_vars
             PROVE  TypeOK' /\ Stages'
  OBVIOUS
<1>p. /\ packets \in Seq(Packet) /\ Len(packets) \in Nat
      /\ \A n \in 1..Len(packets) : packets[n] \in Packet
      /\ delay \in Nat /\ Len(held) \in Nat
  BY FileSeq, LenProperties, VideoAssumption DEF TypeOK
<1>e. << >> \in Seq(Time) /\ Len(<< >>) = 0
  BY EmptySeq
<1>1. CASE UNCHANGED vars
  BY <1>1 DEF vars, TypeOK, Stages, Constructing, Reading
<1>2. CASE RequestStop
  BY <1>2 DEF RequestStop, TypeOK, Stages, Constructing, Reading
<1>3. CASE Fails
  <2>1. /\ UNCHANGED <<stop, packets, header, interval, delay, at, broken, pending, held,
                       draining, previous, selected, frame, received, given, ended, calls>>
        /\ outcome' \in {"canceled", "error", "memory"}
        /\ \/ Constructing /\ pc' = "gone" /\ failed' = failed
           \/ Reading /\ pc' = "idle" /\ failed' = TRUE
    BY <1>3 DEF Fails, Throw
  <2>2. TypeOK'
    BY <2>1 DEF TypeOK, Error
  <2>3. Stages'
    BY <2>1 DEF Stages, Constructing, Reading
  <2> QED BY <2>2, <2>3
<1>4. CASE OpenInput
  BY <1>4, <1>p DEF OpenInput, TypeOK, Stages, Constructing, Reading
<1>5. CASE FindStream
  BY <1>5, <1>p DEF FindStream, StreamKnown, TypeOK, Stages, Constructing, Reading
<1>6. CASE ProbePacket
  BY <1>6, <1>p DEF ProbePacket, StreamHidden, TypeOK, Stages, Constructing, Reading
<1>7. CASE OpenCodec
  BY <1>7, <1>p DEF OpenCodec, TypeOK, Stages, Constructing, Reading
<1>8. CASE Call
  BY <1>8, <1>p, VideoAssumption DEF Call, TypeOK, Stages, Constructing, Reading
<1>9. CASE ReceiveFrame
  <2>1. held # << >>
    BY <1>9, <1>p, <1>e DEF ReceiveFrame, Ready, TypeOK
  <2>2. Head(held) \in Time /\ Tail(held) \in Seq(Time) /\ Len(Tail(held)) = Len(held) - 1
    BY <2>1, HeadTailProperties DEF TypeOK
  <2>3. frame' \in Time /\ held' \in Seq(Time) /\ Len(held') <= delay + 1
    BY <1>9, <1>p, <2>2 DEF ReceiveFrame, TypeOK
  <2> QED BY <1>9, <1>p, <2>3, VideoAssumption DEF ReceiveFrame, TypeOK, Stages, Constructing, Reading
<1>10. CASE ReceiveEnd
  BY <1>10, <1>p DEF ReceiveEnd, TypeOK, Stages, Constructing, Reading
<1>11. CASE ReceiveNone
  <2>1. Len(held) <= delay /\ ~draining
    BY <1>11, <1>p DEF ReceiveNone, Ready
  <2>2. pc = "receive" /\ pc' \in {"send", "read"} /\ (pc' = "send" <=> pending) /\ ~pending'
    BY <1>11 DEF ReceiveNone, TypeOK
  <2> QED BY <1>11, <1>p, <2>1, <2>2 DEF ReceiveNone, TypeOK, Stages, Constructing, Reading
<1>12. CASE ReadPacket
  BY <1>12, <1>p DEF ReadPacket, TypeOK, Stages, Constructing, Reading
<1>13. CASE ReadEnd
  <2>1. broken' \in BOOLEAN /\ (~broken' => at = Len(packets))
    <3>1. broken' = TRUE \/ broken' = (at < Len(packets))
      BY <1>13, Zenon DEF ReadEnd
    <3>2. (at < Len(packets)) \in BOOLEAN
      OBVIOUS
    <3>3. ~(at < Len(packets)) => at = Len(packets)
      BY <1>p DEF TypeOK
    <3>4. broken' \in BOOLEAN
      BY <3>1, <3>2
    <3>5. ~broken' => ~(at < Len(packets))
      BY <3>1, Zenon
    <3> QED BY <3>3, <3>4, <3>5
  <2> QED BY <1>13, <1>p, <2>1 DEF ReadEnd, TypeOK, Stages, Constructing, Reading
<1>14. CASE Drain
  BY <1>14, <1>p DEF Drain, TypeOK, Stages, Constructing, Reading
<1>15. CASE SendPacket
  <2>1. packets[at] \in Time
    BY <1>15, <1>p DEF SendPacket, TypeOK, Stages, Packet
  <2>2. held' \in Seq(Time) /\ Len(held') = Len(held) + 1
    BY <1>15, <2>1, AppendProperties DEF SendPacket, TypeOK
  <2> QED BY <1>15, <1>p, <2>2 DEF SendPacket, TypeOK, Stages, Constructing, Reading
<1>16. CASE Select
  <2>1. frame \in Time
    BY <1>16 DEF Select, SelectFrame, TypeOK, Stages
  <2>2. received' \in Seq(Time)
    BY <1>16, <2>1, AppendProperties DEF Select, SelectFrame, TypeOK
  <2> QED BY <1>16, <1>p, <2>1, <2>2 DEF Select, SelectFrame, TypeOK, Stages, Constructing, Reading
<1>17. CASE GiveFrame
  <2>1. frame \in Time
    BY <1>17 DEF GiveFrame, TypeOK, Stages
  <2>2. given' \in Seq(Time)
    BY <1>17, <2>1, AppendProperties DEF GiveFrame, TypeOK
  <2> QED BY <1>17, <1>p, <2>1, <2>2 DEF GiveFrame, TypeOK, Stages, Constructing, Reading
<1> QED BY <1>1, <1>2, <1>3, <1>4, <1>5, <1>6, <1>7, <1>8, <1>9, <1>10, <1>11, <1>12, <1>13,
          <1>14, <1>15, <1>16, <1>17 DEF Next, Step, Quiet

\* What has been read is a prefix of the stream.
LEMMA ReadSoFarType ==
  TypeOK => ReadSoFar \in Seq(Time) /\ VideoFrames \in Seq(Time) /\ IsPrefix(ReadSoFar, VideoFrames)
<1> SUFFICES ASSUME TypeOK
             PROVE  /\ ReadSoFar \in Seq(Time) /\ VideoFrames \in Seq(Time)
                    /\ IsPrefix(ReadSoFar, VideoFrames)
  OBVIOUS
<1>1. packets \in Seq(Packet) /\ at \in 0..Len(packets)
  BY FileSeq DEF TypeOK
<1>2. /\ SubSeq(packets, 1, at) \in Seq(Packet)
      /\ IsPrefix(OfStream[SubSeq(packets, 1, at)], OfStream[packets])
  BY <1>1, StreamPrefix
<1> QED BY <1>1, <1>2, OfStreamFold DEF ReadSoFar, VideoFrames

\* Concatenating sequences of times may be regrouped.
LEMMA TimesAssociative ==
  ASSUME NEW s \in Seq(Time), NEW t \in Seq(Time), NEW u \in Seq(Time)
  PROVE  (s \o t) \o u = s \o (t \o u)
  BY ConcatAssociative

\* A first time may be taken from one sequence and added to the other.
LEMMA TakeHead ==
  ASSUME NEW s \in Seq(Time), NEW t \in Seq(Time), t # << >>
  PROVE  (s \o << >>) \o t = (s \o <<Head(t)>>) \o Tail(t)
<1> DEFINE first == <<Head(t)>>
           others == Tail(t)
<1>1. first \in Seq(Time) /\ others \in Seq(Time) /\ t = first \o others
  BY HeadThenTail
<1>2. s \o << >> = s
  BY ConcatEmptySeq
<1> HIDE DEF first, others
<1>3. (s \o first) \o others = s \o (first \o others)
  BY <1>1, TimesAssociative, Zenon
<1>4. (s \o << >>) \o t = (s \o first) \o others
  BY <1>1, <1>2, <1>3
<1> QED BY <1>4 DEF first, others

\* One packet more.
LEMMA PacketRead ==
  ASSUME NEW file \in Seq(Packet), NEW m \in 0..Len(file) - 1
  PROVE  OfStream[SubSeq(file, 1, m + 1)] =
           OfStream[SubSeq(file, 1, m)] \o IF file[m + 1] = Other THEN << >> ELSE <<file[m + 1]>>
<1>0. Len(file) \in Nat /\ m + 1 \in 1..Len(file) /\ 1 \in 1..Len(file) /\ m \in 0..Len(file)
  BY LenProperties
<1>1. file[m + 1] \in Packet
  BY <1>0, ElementOfSeq
<1>2. SubSeq(file, 1, m) \in Seq(Packet)
  BY <1>0, StreamPrefix
<1>3. SubSeq(file, 1, m + 1) = Append(SubSeq(file, 1, m), file[m + 1])
  <2>1. m + 1 \in 1..Len(file) /\ m + 1 - 1 = m
    BY <1>0
  <2>2. SubSeq(file, 1, m + 1) = SubSeq(file, 1, m + 1 - 1) \o <<file[m + 1]>>
    BY <1>0, SubSeqRecursiveSecond
  <2>3. Append(SubSeq(file, 1, m), file[m + 1]) = SubSeq(file, 1, m) \o <<file[m + 1]>>
    BY <1>1, <1>2, AppendIsConcat
  <2> QED BY <2>1, <2>2, <2>3
<1>4. OfStream[SubSeq(file, 1, m)] \in Seq(Time)
  BY <1>2, OfStreamFold
<1>5. CASE file[m + 1] = Other
  BY <1>1, <1>2, <1>3, <1>4, <1>5, OfStreamFold, ConcatEmptySeq
<1>6. CASE file[m + 1] # Other
  <2>1. file[m + 1] \in Time
    BY <1>1, <1>6 DEF Packet
  <2>2. OfStream[SubSeq(file, 1, m + 1)] = Append(OfStream[SubSeq(file, 1, m)], file[m + 1])
    BY <1>1, <1>2, <1>3, <1>6, OfStreamFold
  <2> QED BY <1>4, <1>6, <2>1, <2>2, AppendIsConcat
<1> QED BY <1>5, <1>6

\* A step that reads a packet.
LEMMA ReadingOn ==
  ASSUME TypeOK, at < Len(packets), at' = at + 1, packets' = packets
  PROVE  /\ packets[at + 1] \in Packet
         /\ ReadSoFar' = ReadSoFar \o IF packets[at + 1] = Other THEN << >> ELSE <<packets[at + 1]>>
<1>1. packets \in Seq(Packet) /\ at \in 0..Len(packets) - 1 /\ packets[at + 1] \in Packet
  BY FileSeq DEF TypeOK
<1>2. ReadSoFar' = OfStream[SubSeq(packets, 1, at + 1)]
  BY DEF ReadSoFar
<1> QED BY <1>1, <1>2, PacketRead DEF ReadSoFar

\* No frame is lost, repeated or overtaken on its way.
LEMMA FlowStep == TypeOK /\ Stages /\ Flow /\ [Next]_vars => Flow'
<1> SUFFICES ASSUME TypeOK, Stages, Flow, [Next]_vars
             PROVE  Flow'
  OBVIOUS
<1>t. /\ TypeOK' /\ Stages'
      /\ packets' = packets /\ VideoFrames' = VideoFrames
      /\ ReadSoFar \in Seq(Time) /\ VideoFrames \in Seq(Time) /\ IsPrefix(ReadSoFar, VideoFrames)
      /\ received \in Seq(Time) /\ held \in Seq(Time) /\ << >> \in Seq(Time)
  <2>1. packets' = packets
    BY DEF Next, RequestStop, Step, Fails, OpenInput, FindStream, ProbePacket, OpenCodec,
           Call, ReceiveFrame, ReceiveEnd, ReceiveNone, ReadPacket, ReadEnd, Drain, SendPacket,
           Select, SelectFrame, GiveFrame, Quiet, vars
  <2>2. VideoFrames' = VideoFrames
    BY <2>1 DEF VideoFrames
  <2> QED BY <2>1, <2>2, TypeStep, ReadSoFarType, EmptySeq DEF TypeOK
<1>i. /\ InHand \in Seq(Time) /\ Unsent \in Seq(Time)
      /\ received \o InHand \in Seq(Time)
      /\ (received \o InHand) \o held \in Seq(Time)
  <2>1. InHand \in Seq(Time)
    <3>1. pc = "select" => frame \in Time
      BY DEF TypeOK, Stages
    <3> QED BY <1>t, <3>1 DEF InHand
  <2>2. Unsent \in Seq(Time)
    <3>1. pending \/ pc = "send" => packets[at] \in Time
      BY FileSeq DEF TypeOK, Stages, Packet
    <3> QED BY <1>t, <3>1 DEF Unsent
  <2>3. received \o InHand \in Seq(Time)
    BY <1>t, <2>1, ConcatProperties
  <2> QED BY <1>t, <2>1, <2>2, <2>3, ConcatProperties
<1> DEFINE Flowing == pc \notin {"open", "discover", "gone"} /\ ~failed
<1>f. Flowing => ReadSoFar = ((received \o InHand) \o held) \o Unsent
  BY DEF Flow
<1>1. pc' = "discover" =>
        ReadSoFar' = IF at' > 0 /\ packets'[at'] # Other THEN <<packets'[at']>> ELSE << >>
  <2>1. CASE OpenInput
    <3>1. at' = 0 /\ ReadSoFar' = OfStream[SubSeq(packets, 1, 0)]
      BY <1>t, <2>1 DEF OpenInput, Stages, ReadSoFar
    <3>2. SubSeq(packets, 1, 0) = << >>
      BY SubSeqEmpty
    <3>3. OfStream[<< >>] = << >> /\ ~(0 > 0)
      BY OfStreamFold
    <3> QED BY <3>1, <3>2, <3>3
  <2>2. CASE ProbePacket
    <3>1. /\ at < Len(packets) /\ at' = at + 1 /\ at \in Nat
          /\ pc = "discover" /\ \A n \in 1..at : packets[n] = Other
      BY <2>2 DEF ProbePacket, StreamHidden, TypeOK
    <3>2. ReadSoFar = << >>
      BY <3>1 DEF Flow
    <3>3. packets[at + 1] # Other => <<packets[at + 1]>> \in Seq(Time)
      BY <1>t, <3>1, ReadingOn DEF Packet
    <3>4. ReadSoFar' = IF packets[at + 1] = Other THEN << >> ELSE <<packets[at + 1]>>
      BY <1>t, <3>1, <3>2, <3>3, ReadingOn, ConcatEmptySeq
    <3> QED BY <1>t, <3>1, <3>4
  <2>3. CASE pc' = "discover" /\ ~OpenInput /\ ~ProbePacket
    <3>1. pc = "discover" /\ at' = at
      BY <2>3 DEF Next, RequestStop, Step, Fails, Throw, FindStream, OpenCodec,
           Call, ReceiveFrame, ReceiveEnd, ReceiveNone, ReadPacket, ReadEnd, Drain, SendPacket,
           Select, SelectFrame, GiveFrame, Quiet, vars, Constructing
    <3> QED BY <1>t, <3>1 DEF Flow, ReadSoFar
  <2> QED BY <2>1, <2>2, <2>3
<1>2. Flowing' => ReadSoFar' = ((received' \o InHand') \o held') \o Unsent'
  <2> SUFFICES ASSUME Flowing'
               PROVE  ReadSoFar' = ((received' \o InHand') \o held') \o Unsent'
    OBVIOUS
  <2>f. Reading => Flowing /\ ReadSoFar = ((received \o InHand) \o held) \o Unsent
    BY <1>f DEF Stages, Reading
  <2>1. CASE FindStream
    <3>1. /\ pc = "discover" /\ pc' = "codec" /\ at' = at
          /\ pending' = (at > 0 /\ packets[at] # Other)
          /\ received' = << >> /\ held' = << >>
      BY <2>1 DEF FindStream, Stages, Constructing
    <3>2. ReadSoFar' = Unsent'
      BY <1>t, <3>1 DEF Flow, Unsent, ReadSoFar
    <3>3. InHand' = << >>
      BY <3>1 DEF InHand
    <3>4. Unsent' \in Seq(Time)
      BY <1>t, <3>1, <3>2 DEF ReadSoFar
    <3> QED BY <1>t, <3>1, <3>2, <3>3, <3>4, ConcatEmptySeq
  <2>2. CASE ReceiveFrame
    <3>1. /\ pc = "receive" /\ pc' = "select" /\ at' = at /\ pending' = pending
          /\ frame' = Head(held) /\ held' = Tail(held) /\ received' = received
          /\ held # << >>
      BY <1>t, <2>2, EmptySeq, VideoAssumption DEF ReceiveFrame, Ready, TypeOK
    <3>2. /\ Head(held) \in Time /\ Tail(held) \in Seq(Time)
          /\ <<Head(held)>> \in Seq(Time) /\ held = <<Head(held)>> \o Tail(held)
      BY <1>t, <3>1, HeadThenTail
    <3>3. InHand = << >> /\ InHand' = <<Head(held)>> /\ Unsent' = Unsent /\ ReadSoFar' = ReadSoFar
      BY <1>t, <3>1 DEF InHand, Unsent, ReadSoFar
    <3>4. (received \o << >>) \o held = (received \o <<Head(held)>>) \o Tail(held)
      BY <1>t, <3>1, TakeHead DEF TypeOK
    <3> QED BY <2>f, <3>1, <3>3, <3>4 DEF Reading
  <2>3. CASE ReadPacket
    <3>1. /\ pc = "read" /\ at < Len(packets) /\ at' = at + 1 /\ ~pending /\ ~pending'
          /\ pc' = IF packets[at + 1] = Other THEN "read" ELSE "send"
          /\ received' = received /\ held' = held
      BY <2>3 DEF ReadPacket, Stages
    <3>2. InHand' = InHand /\ Unsent = << >>
      BY <3>1 DEF InHand, Unsent
    <3>3. Unsent' = IF packets[at + 1] = Other THEN << >> ELSE <<packets[at + 1]>>
      BY <1>t, <3>1 DEF Unsent
    <3>4. ReadSoFar' = ReadSoFar \o Unsent'
      BY <1>t, <3>1, <3>3, ReadingOn
    <3>5. ((received \o InHand) \o held) \o << >> = (received \o InHand) \o held
      BY <1>i, ConcatEmptySeq
    <3> QED BY <2>f, <3>1, <3>2, <3>4, <3>5 DEF Reading
  <2>4. CASE SendPacket
    <3>1. /\ pc = "send" /\ pc' = "receive" /\ at' = at /\ ~pending' /\ packets[at] \in Time
          /\ received' = received /\ held' = Append(held, packets[at])
      BY <2>4, FileSeq DEF SendPacket, Stages, TypeOK, Packet
    <3>2. InHand' = InHand /\ Unsent = <<packets[at]>> /\ Unsent' = << >> /\ ReadSoFar' = ReadSoFar
      BY <1>t, <3>1 DEF InHand, Unsent, ReadSoFar
    <3>3. held' = held \o Unsent
      BY <1>t, <3>1, <3>2, AppendIsConcat
    <3>4. ((received \o InHand) \o held') \o << >> = ((received \o InHand) \o held) \o Unsent
      <4>1. ((received \o InHand) \o held) \o Unsent = (received \o InHand) \o held'
        <5>1. ((received \o InHand) \o held) \o Unsent = (received \o InHand) \o (held \o Unsent)
          <6> DEFINE seen == received \o InHand
          <6>1. seen \in Seq(Time) /\ held \in Seq(Time) /\ Unsent \in Seq(Time)
            BY <1>t, <1>i
          <6> HIDE DEF seen
          <6>2. (seen \o held) \o Unsent = seen \o (held \o Unsent)
            BY <6>1, TimesAssociative, Zenon
          <6> QED BY <6>2 DEF seen
        <5> QED BY <3>3, <5>1
      <4>2. (received \o InHand) \o held' \in Seq(Time)
        BY <1>t, <1>i, ConcatProperties DEF TypeOK
      <4> QED BY <4>1, <4>2, ConcatEmptySeq
    <3> QED BY <2>f, <3>1, <3>2, <3>4 DEF Reading
  <2>5. CASE Select
    <3>1. /\ pc = "select" /\ pc' \in {"pixels", "receive"} /\ at' = at /\ pending' = pending
          /\ held' = held /\ received' = Append(received, frame) /\ frame \in Time
      BY <2>5 DEF Select, SelectFrame, Stages, TypeOK
    <3>2. InHand' = << >> /\ InHand = <<frame>> /\ Unsent' = Unsent /\ ReadSoFar' = ReadSoFar
      BY <1>t, <3>1 DEF InHand, Unsent, ReadSoFar
    <3>3. received' \o << >> = received \o <<frame>>
      BY <1>t, <1>i, <3>1, <3>2, AppendIsConcat, ConcatEmptySeq
    <3> QED BY <2>f, <3>1, <3>2, <3>3 DEF Reading
  <2>6. CASE UNCHANGED <<received, held, at>> /\ UNCHANGED <<InHand, Unsent>> /\ Flowing
    BY <1>t, <1>f, <2>6 DEF ReadSoFar
  <2>7. CASE ReceiveNone
    BY <2>6, <2>7, <1>t DEF ReceiveNone, InHand, Unsent, Stages
  <2>8. ASSUME \/ RequestStop \/ OpenCodec \/ Call \/ ReceiveEnd \/ ReadEnd \/ Drain \/ GiveFrame
               \/ UNCHANGED vars
        PROVE  UNCHANGED <<received, held, at>> /\ UNCHANGED <<InHand, Unsent>> /\ Flowing
    <3>1. CASE RequestStop \/ UNCHANGED vars
      BY <3>1 DEF RequestStop, vars, InHand, Unsent
    <3>2. CASE OpenCodec
      BY <1>t, <3>2 DEF OpenCodec, InHand, Unsent
    <3>3. CASE Call
      BY <1>t, <3>3 DEF Call, InHand, Unsent
    <3>4. CASE ReceiveEnd \/ ReadEnd \/ Drain \/ GiveFrame
      <4>1. /\ UNCHANGED <<received, held, at, pending, packets, failed>>
            /\ pc # "select" /\ pc' # "select"
            /\ pc # "send" /\ pc' # "send" /\ Reading
        BY <1>t, <3>4 DEF ReceiveEnd, ReadEnd, Drain, GiveFrame, Reading
      <4> QED BY <2>f, <4>1 DEF InHand, Unsent
    <3> QED BY <2>8, <3>1, <3>2, <3>3, <3>4
  <2>9. CASE Fails \/ OpenInput \/ ProbePacket
    BY <2>9 DEF Fails, Throw, OpenInput, ProbePacket
  <2> QED BY <2>1, <2>2, <2>3, <2>4, <2>5, <2>6, <2>7, <2>8, <2>9 DEF Next, Step, Quiet
<1>3. IsPrefix(received', VideoFrames')
  <2>1. CASE received' = received
    BY <1>t, <2>1 DEF Flow
  <2>2. CASE Select
    <3>1. /\ pc = "select" /\ received' = Append(received, frame) /\ frame \in Time
          /\ Flowing /\ InHand = <<frame>>
      BY <2>2 DEF Select, SelectFrame, Stages, TypeOK, InHand, Reading
    <3>2. received' = received \o InHand
      BY <1>t, <3>1, AppendIsConcat
    <3>3. /\ IsPrefix(received \o InHand, (received \o InHand) \o held)
          /\ IsPrefix((received \o InHand) \o held, ReadSoFar)
      BY <1>f, <1>t, <1>i, <3>1, PrefixConcat
    <3>4. IsPrefix(received \o InHand, ReadSoFar)
      BY <1>t, <1>i, <3>3, PrefixTransitive
    <3>5. IsPrefix(received \o InHand, VideoFrames)
      BY <1>t, <1>i, <3>4, PrefixTransitive
    <3> QED BY <1>t, <3>2, <3>5
  <2>3. received' = received \/ Select
    BY DEF Next, RequestStop, Step, Fails, OpenInput, FindStream, ProbePacket, OpenCodec,
           Call, ReceiveFrame, ReceiveEnd, ReceiveNone, ReadPacket, ReadEnd, Drain, SendPacket,
           GiveFrame, Quiet, vars
  <2> QED BY <2>1, <2>2, <2>3
<1>4. ended' => received' = VideoFrames'
  <2>1. CASE ended
    <3>1. received' = received
      BY <2>1 DEF Next, RequestStop, Step, Fails, OpenInput, FindStream, ProbePacket, OpenCodec,
           Call, ReceiveFrame, ReceiveEnd, ReceiveNone, ReadPacket, ReadEnd, Drain, SendPacket,
           Select, SelectFrame, GiveFrame, Quiet, vars, Stages, Reading
    <3> QED BY <1>t, <2>1, <3>1 DEF Flow
  <2>2. CASE ReceiveEnd
    <3>1. /\ pc = "receive" /\ ~pending /\ at = Len(packets) /\ held = << >> /\ Flowing
          /\ received' = received
      BY <2>2 DEF ReceiveEnd, Stages, Reading
    <3>2. InHand = << >> /\ Unsent = << >>
      BY <3>1 DEF InHand, Unsent
    <3>3. ReadSoFar = received
      BY <1>f, <1>t, <3>1, <3>2, ConcatEmptySeq
    <3>4. ReadSoFar = VideoFrames
      <4>1. packets \in Seq(Packet)
        BY FileSeq DEF TypeOK
      <4>2. SubSeq(packets, 1, at) = packets
        BY <3>1, <4>1, SubSeqFull
      <4> QED BY <4>2 DEF ReadSoFar, VideoFrames
    <3> QED BY <1>t, <3>1, <3>3, <3>4
  <2>3. ended' => ended \/ ReceiveEnd
    BY DEF Next, RequestStop, Step, Fails, Throw, OpenInput, FindStream, ProbePacket, OpenCodec,
           Call, ReceiveFrame, ReceiveNone, ReadPacket, ReadEnd, Drain, SendPacket,
           Select, SelectFrame, GiveFrame, Quiet, vars
  <2> QED BY <2>1, <2>2, <2>3
<1> QED BY <1>1, <1>2, <1>3, <1>4 DEF Flow

\* Steps that neither see nor give a frame.
LEMMA OtherSteps ==
  [Next]_vars /\ ~Select /\ ~GiveFrame =>
    /\ UNCHANGED <<received, previous, given, selected, interval>>
    /\ pc' = "pixels" => pc = "pixels" /\ frame' = frame
    /\ failed => failed'
    /\ pc = "pixels" => pc' = "pixels" \/ failed'
<1> SUFFICES ASSUME [Next]_vars, ~Select, ~GiveFrame
             PROVE  /\ UNCHANGED <<received, previous, given, selected, interval>>
                    /\ pc' = "pixels" => pc = "pixels" /\ frame' = frame
                    /\ failed => failed'
                    /\ pc = "pixels" => pc' = "pixels" \/ failed'
  OBVIOUS
<1>1. CASE RequestStop \/ Quiet \/ UNCHANGED vars
  BY <1>1 DEF RequestStop, Quiet, vars
<1>2. CASE Fails
  BY <1>2 DEF Fails, Throw, Constructing
<1>3. CASE OpenInput \/ FindStream \/ ProbePacket \/ OpenCodec
  BY <1>3 DEF OpenInput, FindStream, ProbePacket, OpenCodec
<1>4. CASE Call \/ ReceiveEnd
  BY <1>4 DEF Call, ReceiveEnd
<1>5. CASE ReceiveFrame \/ Drain \/ SendPacket
  BY <1>5 DEF ReceiveFrame, Drain, SendPacket
<1>6. CASE ReceiveNone
  BY <1>6 DEF ReceiveNone
<1>7. CASE ReadPacket
  BY <1>7 DEF ReadPacket
<1>8. CASE ReadEnd
  BY <1>8 DEF ReadEnd
<1> QED BY <1>1, <1>2, <1>3, <1>4, <1>5, <1>6, <1>7, <1>8 DEF Next, Step

\* Steps that see or give one.
LEMMA SelectTypes ==
  ASSUME TypeOK, Stages, Marks, Select \/ GiveFrame
  PROVE  /\ frame \in Time /\ received \in Seq(Time) /\ given \in Seq(Time)
         /\ interval \in Interval /\ interval' = interval
         /\ frame \in Int /\ frame # NoTime
         /\ previous # NoTime => previous \in Time /\ previous \in Int
         /\ selected # NoTime => selected \in Time /\ selected \in Int
         /\ Select => /\ pc = "select" /\ previous' = frame /\ (previous # NoTime => previous <= frame)
                      /\ received' = Append(received, frame)
                      /\ UNCHANGED <<given, selected>>
         /\ GiveFrame => pc = "pixels" /\ UNCHANGED <<received, previous>>
<1>1. /\ received \in Seq(Time) /\ given \in Seq(Time) /\ interval \in Interval
      /\ interval' = interval /\ Time \subseteq Int /\ NoTime \notin Time
  BY VideoAssumption DEF TypeOK, Select, SelectFrame, GiveFrame
<1>2. frame \in Time /\ frame # NoTime
  BY DEF TypeOK, Stages, Select, SelectFrame, GiveFrame
<1>3. /\ previous # NoTime => previous \in Time
      /\ selected # NoTime => selected \in Time
  BY DEF TypeOK
<1>4. ASSUME Select
      PROVE  /\ pc = "select" /\ previous' = frame /\ (previous # NoTime => frame >= previous)
             /\ received' = Append(received, frame)
             /\ UNCHANGED <<given, selected>>
  BY <1>4 DEF Select, SelectFrame
<1>5. GiveFrame => pc = "pixels" /\ UNCHANGED <<received, previous>>
  BY DEF GiveFrame
<1>6. ASSUME Select, previous # NoTime PROVE previous <= frame
  <2>1. frame >= previous /\ frame \in Int /\ previous \in Int
    BY <1>1, <1>2, <1>3, <1>4, <1>6
  <2> QED BY <2>1
<1> QED BY <1>1, <1>2, <1>3, <1>4, <1>5, <1>6

\* The last of a sequence that something was appended to.
LEMMA LastAppend ==
  ASSUME NEW S, NEW s \in Seq(S), NEW x \in S
  PROVE  Append(s, x) # << >> /\ Last(Append(s, x)) = x
  BY AppendFrontLast

\* The marks follow the frames, and selection never overtakes what is seen.
LEMMA MarksStep == TypeOK /\ Stages /\ Marks /\ [Next]_vars => Marks'
<1> SUFFICES ASSUME TypeOK, Stages, Marks, [Next]_vars
             PROVE  Marks'
  OBVIOUS
<1>1. CASE Select
  <2>1. received' # << >> /\ Last(received') = frame
    <3>1. frame \in Time /\ received \in Seq(Time) /\ received' = Append(received, frame)
      BY <1>1, SelectTypes
    <3> QED BY <3>1, LastAppend, Zenon
  <2>2. pc' = "pixels" => frame' = frame
    BY <1>1 DEF Select, SelectFrame
  <2>3. selected # NoTime => selected <= frame
    BY <1>1, SelectTypes DEF Marks
  <2> QED BY <1>1, <2>1, <2>2, <2>3, SelectTypes DEF Marks
<1>2. CASE GiveFrame
  <2>1. given' # << >> /\ Last(given') = frame
    BY <1>2, SelectTypes, LastAppend DEF GiveFrame
  <2>2. selected' = frame /\ frame = previous /\ pc' = "idle"
    BY <1>2, SelectTypes DEF GiveFrame, Marks
  <2> QED BY <1>2, <2>1, <2>2, SelectTypes DEF Marks
<1>3. CASE ~Select /\ ~GiveFrame
  BY <1>3, OtherSteps DEF Marks
<1> QED BY <1>1, <1>2, <1>3

\* A frame is seen only if it is not before the last one seen.
LEMMA BackwardStep == TypeOK /\ Stages /\ Marks /\ NeverBackward /\ [Next]_vars => NeverBackward'
<1> SUFFICES ASSUME TypeOK, Stages, Marks, NeverBackward, [Next]_vars
             PROVE  NeverBackward'
  OBVIOUS
<1>1. CASE Select
  <2>1. /\ Len(received) \in Nat /\ Len(received') = Len(received) + 1
        /\ \A i \in 1..Len(received) : received'[i] = received[i]
        /\ received'[Len(received) + 1] = frame
    BY <1>1, SelectTypes, AppendProperties, LenProperties
  <2>2. ASSUME NEW n \in 1..Len(received') - 1
        PROVE  received'[n] <= received'[n + 1]
    <3>1. CASE n = Len(received)
      <4>1. previous = received[n] /\ previous # NoTime
        BY <2>1, <3>1, EmptySeq DEF Marks, Last
      <4> QED BY <1>1, <2>1, <2>2, <3>1, <4>1, SelectTypes
    <3>2. CASE n \in 1..Len(received) - 1
      BY <2>1, <3>2 DEF NeverBackward
    <3> QED BY <2>1, <3>1, <3>2
  <2> QED BY <2>2 DEF NeverBackward
<1>2. CASE received' = received
  BY <1>2 DEF NeverBackward
<1> QED BY <1>1, <1>2, OtherSteps, SelectTypes

\* Timestamps of opposite sign: the gap that wraps is the gap.
LEMMA GapExact ==
  ASSUME TypeOK, Stages, Marks, Select
  PROVE  selected # NoTime => Gap(frame) = frame - selected
<1> SUFFICES ASSUME selected # NoTime PROVE Gap(frame) = frame - selected
  OBVIOUS
<1>1. /\ frame \in Time /\ selected \in Time /\ frame \in Int /\ selected \in Int
      /\ selected <= frame
  BY SelectTypes DEF Marks
<1>2. Modulus \in Nat \ {0} /\ frame <= Modulus \div 2 - 1 /\ selected >= 1 - Modulus \div 2
  BY <1>1, VideoAssumption
<1>3. ASSUME NEW m \in Nat \ {0}, frame <= m \div 2 - 1, selected >= 1 - m \div 2
      PROVE  (frame - selected) % m = frame - selected
  BY <1>1, <1>3
<1> QED BY <1>2, <1>3 DEF Gap

\* One frame more is sampled as the decoder does it.
LEMMA SamplingStep == TypeOK /\ Stages /\ Marks /\ Sampling /\ [Next]_vars => Sampling'
<1> SUFFICES ASSUME TypeOK, Stages, Marks, Sampling, [Next]_vars
             PROVE  Sampling'
  OBVIOUS
<1>1. CASE Select
  <2>1. Sampled(received, interval) = given
    BY <1>1, SelectTypes DEF Sampling, Stages, Reading
  <2>2. Sampled(received', interval) =
          IF given = << >> \/ frame - Last(given) >= interval
            THEN Append(given, frame) ELSE given
    <3>1. \A s \in Seq(Time), t \in Time :
            Sampled(Append(s, t), interval) =
              IF Sampled(s, interval) = << >> \/ t - Last(Sampled(s, interval)) >= interval
                THEN Append(Sampled(s, interval), t) ELSE Sampled(s, interval)
      BY SampledFold
    <3>2. received \in Seq(Time) /\ frame \in Time /\ received' = Append(received, frame)
      BY <1>1, SelectTypes
    <3> QED BY <2>1, <3>1, <3>2
  <2>3. (given = << >> \/ frame - Last(given) >= interval)
          <=> (selected = NoTime \/ Gap(frame) >= interval)
    BY <1>1, GapExact DEF Marks
  <2>4. pc' = IF selected = NoTime \/ Gap(frame) >= interval THEN "pixels" ELSE "receive"
    BY <1>1 DEF Select, SelectFrame
  <2>5. pc' = "pixels" => frame' = frame
    BY <1>1 DEF Select, SelectFrame
  <2> QED BY <1>1, <2>2, <2>3, <2>4, <2>5, SelectTypes DEF Sampling
<1>2. CASE GiveFrame
  <2>1. Sampled(received, interval) = Append(given, frame)
    BY <1>2 DEF GiveFrame, Sampling, Stages, Reading
  <2> QED BY <1>2, <2>1, SelectTypes DEF GiveFrame, Sampling
<1>3. CASE ~Select /\ ~GiveFrame
  BY <1>3, OtherSteps DEF Sampling
<1> QED BY <1>1, <1>2, <1>3

-----------------------------------------------------------------------------
(***************************************************************************)
(* The theorems about the decoder.                                         *)
(***************************************************************************)

\* A decoder that has not been opened has read and given nothing.
LEMMA InitInv == Init => IInv
<1> SUFFICES ASSUME Init PROVE IInv
  OBVIOUS
<1>1. << >> \in Seq(Time) /\ Len(<< >>) = 0
  BY EmptySeq
<1>2. TypeOK
  <2>1. /\ packets \in File /\ header \in BOOLEAN /\ interval \in Interval /\ delay \in Nat
        /\ Len(packets) \in Nat /\ MaxCalls \in Nat /\ delay \in Delay
    BY FileSeq, VideoAssumption DEF Init
  <2>2. /\ at \in 0..Len(packets) /\ Len(held) <= delay + 1 /\ calls \in 0..MaxCalls
        /\ held \in Seq(Time) /\ received \in Seq(Time) /\ given \in Seq(Time)
    BY <1>1, <2>1 DEF Init
  <2> QED BY <2>1, <2>2 DEF Init, TypeOK
<1>3. Stages
  BY DEF Init, Stages, Constructing, Reading
<1>4. Flow
  <2>1. VideoFrames \in Seq(Time)
    BY <1>2, ReadSoFarType
  <2>2. IsPrefix(<< >>, VideoFrames)
    <3>1. Len(VideoFrames) \in Nat /\ \A i \in 1..Len(<< >>) : << >>[i] = VideoFrames[i]
      BY <1>1, <2>1, LenProperties
    <3>2. Len(<< >>) <= Len(VideoFrames)
      BY <1>1, <3>1
    <3> QED BY <1>1, <2>1, <3>1, <3>2, PrefixPointwise
  <2> QED BY <2>2 DEF Init, Flow
<1>5. Marks /\ NeverBackward
  BY <1>1 DEF Init, Marks, NeverBackward
<1>6. Sampling
  BY SampledFold DEF Init, Sampling
<1> QED BY <1>2, <1>3, <1>4, <1>5, <1>6 DEF IInv

\* Every step preserves all parts together.
LEMMA StepInv == IInv /\ [Next]_vars => IInv'
  BY TypeStep, FlowStep, MarksStep, BackwardStep, SamplingStep DEF IInv

\* The invariant: where every frame of the packets read so far is, and that the
\* frames given are the sample of those seen.
THEOREM Inductive == Spec => []IInv
  BY InitInv, StepInv, PTL DEF Spec

\* Types, and that the codec never holds more frames than it may.
THEOREM TypeCorrect == Spec => []TypeOK
<1>1. IInv => TypeOK
  BY DEF IInv
<1> QED BY <1>1, Inductive, PTL

\* next: backward timestamps fail; the frames seen never go back in time.
THEOREM OrderKept == Spec => []NeverBackward
<1>1. IInv => NeverBackward
  BY DEF IInv
<1> QED BY <1>1, Inductive, PTL

\* next: the caller is given exactly the sample of the stream.
THEOREM SampleGiven == Spec => []SampleExact
<1>1. IInv => SampleExact
  <2> SUFFICES ASSUME IInv PROVE SampleExact
    OBVIOUS
  <2>1. ended => ~failed /\ pc # "pixels"
    BY DEF IInv, Stages, Reading
  <2> QED BY <2>1 DEF IInv, Flow, Sampling, SampleExact
<1> QED BY <1>1, Inductive, PTL

\* next: the end and a failure are final, and the codec is left alone.
THEOREM EndStays == Spec => EndFinal
<1> DEFINE Stays == ended \/ failed => /\ UNCHANGED <<streamVars, codecVars, given, flagVars>>
                                       /\ outcome' \in {outcome, IF failed THEN "logic" ELSE "end"}
<1>1. IInv /\ [Next]_vars => [Stays]_vars
  BY DEF IInv, Stages, Constructing, Reading, Next, RequestStop, Step, Fails, Throw,
         OpenInput, FindStream, ProbePacket, OpenCodec,
         Call, ReceiveFrame, ReceiveEnd, ReceiveNone, ReadPacket, ReadEnd, Drain, SendPacket,
         Select, SelectFrame, GiveFrame, Quiet, vars
<1> QED BY <1>1, Inductive, PTL DEF Spec, EndFinal

-----------------------------------------------------------------------------
(***************************************************************************)
(* The operators of FingerprintVideo.                                      *)
(***************************************************************************)

\* The indices among the first m.
First(S, m) == {i \in S : i <= m}

\* A set of indices that are all positive: those below the next one.
LEMMA FirstNext ==
  ASSUME NEW S, \A i \in S : i \in Nat /\ i > 0, NEW m \in Nat
  PROVE  /\ First(S, 0) = {}
         /\ m + 1 \in S => First(S, m + 1) = First(S, m) \cup {m + 1}
         /\ m + 1 \notin S => First(S, m + 1) = First(S, m)
         /\ First(S, m) = {i \in S : i < m + 1}
         /\ \A i \in First(S, m) : i \in 1..m
<1>1. First(S, 0) = {}
  BY DEF First
<1>2. \A i : i \in First(S, m + 1) <=> i \in First(S, m) \/ (i = m + 1 /\ m + 1 \in S)
  BY DEF First
<1>3. First(S, m) = {i \in S : i < m + 1}
  BY DEF First
<1>4. \A i \in First(S, m) : i \in 1..m
  BY DEF First
<1> QED BY <1>1, <1>2, <1>3, <1>4

\* The last of the indices.
LEMMA LastIndex ==
  ASSUME NEW m \in Nat, NEW S \in SUBSET (1..m), S # {}
  PROVE  Max(S) \in S /\ \A i \in S : i <= Max(S)
<1> DEFINE T == {m - i : i \in S}
<1>0. \A i \in S : m - i \in Nat /\ i \in Nat
  OBVIOUS
<1>1. T \in SUBSET Nat /\ T # {}
  BY <1>0
<1>2. PICK t \in T : \A u \in T : t <= u
  <2> HIDE DEF T
  <2> QED BY <1>1, Least
<1>3. PICK i \in S : t = m - i
  OBVIOUS
<1>4. ASSUME NEW j \in S PROVE j <= i
  <2>1. m - i <= m - j
    BY <1>2, <1>3
  <2> QED BY <1>0, <2>1
<1>5. \E x \in S : \A y \in S : x >= y
  BY <1>0, <1>4
<1>6. Max(S) \in S /\ \A y \in S : Max(S) >= y
  BY <1>5, Zenon DEF Max
<1> QED BY <1>0, <1>6

\* The next index, if it is one of them, is the last.
LEMMA MaxNext ==
  ASSUME NEW m \in Nat, NEW S \in SUBSET (1..m)
  PROVE  Max(S \cup {m + 1}) = m + 1
<1>1. S \cup {m + 1} \in SUBSET (1..m + 1) /\ S \cup {m + 1} # {} /\ m + 1 \in Nat
  OBVIOUS
<1> DEFINE U == S \cup {m + 1}
<1> HIDE DEF U
<1>2. Max(U) \in U /\ \A i \in U : i <= Max(U)
  BY <1>1, LastIndex DEF U
<1>3. Max(U) \in 1..m + 1 /\ m + 1 <= Max(U)
  BY <1>1, <1>2 DEF U
<1> QED BY <1>3 DEF U

\* kept is had from the indices by passing over each that is not far from the
\* last one kept before it.
Thins(kept, indices, far) ==
  /\ kept \in SUBSET indices
  /\ \A n \in indices :
       LET earlier == {m \in kept : m < n}
       IN n \in kept <=> earlier = {} \/ <<Max(earlier), n>> \in far

\* Indices can be thinned out.
LEMMA ThinsDefined ==
  ASSUME NEW N \in Nat, NEW indices \in SUBSET (1..N), NEW far
  PROVE  \E kept : Thins(kept, indices, far)
<1> DEFINE T == {m \in 0..N : \E kept : Thins(kept, First(indices, m), far)}
<1>0. \A i \in indices : i \in Nat /\ i > 0 /\ i <= N
  OBVIOUS
<1>i. First(indices, N) = indices
  BY <1>0 DEF First
<1>1. 0 \in T
  <2>1. First(indices, 0) = {}
    BY <1>0, FirstNext
  <2>2. Thins({}, {}, far)
    BY DEF Thins
  <2> QED BY <2>1, <2>2
<1>2. ASSUME NEW m \in 0..N - 1, m \in T PROVE m + 1 \in T
  <2>1. PICK kept : Thins(kept, First(indices, m), far)
    BY <1>2
  <2>2. /\ m + 1 \in indices => First(indices, m + 1) = First(indices, m) \cup {m + 1}
        /\ m + 1 \notin indices => First(indices, m + 1) = First(indices, m)
        /\ \A i \in First(indices, m) : i \in 1..m
        /\ m \in Nat
    <3>1. m \in Nat
      OBVIOUS
    <3> QED BY <1>0, <3>1, FirstNext
  <2>3. kept \in SUBSET First(indices, m)
    BY <2>1 DEF Thins
  <2> DEFINE more == m + 1 \in indices /\ (kept = {} \/ <<Max(kept), m + 1>> \in far)
             next == IF more THEN kept \cup {m + 1} ELSE kept
  <2>4. /\ next \in SUBSET First(indices, m + 1)
        /\ \A n \in 1..m : {i \in next : i < n} = {i \in kept : i < n} /\ (n \in next <=> n \in kept)
        /\ {i \in next : i < m + 1} = kept
        /\ m + 1 \in next <=> more
    BY <2>2, <2>3
  <2> HIDE DEF next
  <2>5. ASSUME NEW n \in First(indices, m + 1)
        PROVE  n \in next <=> {i \in next : i < n} = {} \/ <<Max({i \in next : i < n}), n>> \in far
    <3>1. CASE n = m + 1
      <4>1. n \in indices
        BY <2>5 DEF First
      <4> QED BY <2>4, <3>1, <4>1
    <3>2. CASE n # m + 1
      <4>1. n \in First(indices, m) /\ n \in 1..m
        BY <2>2, <2>5, <3>2
      <4>2. n \in kept <=> {i \in kept : i < n} = {} \/ <<Max({i \in kept : i < n}), n>> \in far
        BY <2>1, <4>1 DEF Thins
      <4> QED BY <2>4, <4>1, <4>2
    <3> QED BY <3>1, <3>2
  <2>6. Thins(next, First(indices, m + 1), far)
    BY <2>4, <2>5 DEF Thins
  <2> QED BY <2>6
<1>3. N \in T
  <2> HIDE DEF T
  <2>1. T \in SUBSET (0..N)
    BY DEF T
  <2> QED BY <1>1, <1>2, <2>1, Induct
<1> QED BY <1>i, <1>3

\* The frames that are sampled and retained, one decided after the other.
LEMMA ThinnedFrames ==
  ASSUME TypeOK
  PROVE  /\ DOMAIN VideoFrames = 1..Len(VideoFrames) /\ Len(VideoFrames) \in Nat
         /\ SampledFrames \in SUBSET (1..Len(VideoFrames))
         /\ RetainedFrames \in SUBSET SampledFrames
         /\ \A n \in 1..Len(VideoFrames) :
              LET earlier == {m \in SampledFrames : m < n}
              IN n \in SampledFrames <=>
                   earlier = {} \/ VideoFrames[n] - VideoFrames[Max(earlier)] >= interval
         /\ \A n \in SampledFrames :
              LET earlier == {m \in RetainedFrames : m < n}
              IN n \in RetainedFrames <=>
                   earlier = {} \/ (prune # Everything =>
                                      Distance(content[Max(earlier)], content[n]) > prune)
<1>1. DOMAIN VideoFrames = 1..Len(VideoFrames) /\ Len(VideoFrames) \in Nat
  BY ReadSoFarType, LenProperties
<1> DEFINE N == Len(VideoFrames)
           far == {q \in (1..N) \X (1..N) : VideoFrames[q[2]] - VideoFrames[q[1]] >= interval}
           wide == {q \in (1..N) \X (1..N) :
                      prune # Everything => Distance(content[q[1]], content[q[2]]) > prune}
           Sample(kept) ==
             \A n \in 1..N :
               LET earlier == {m \in kept : m < n}
               IN n \in kept <=> earlier = {} \/ VideoFrames[n] - VideoFrames[Max(earlier)] >= interval
           Pruned(kept) ==
             \A n \in SampledFrames :
               LET earlier == {m \in kept : m < n}
               IN n \in kept <=> earlier = {} \/ (prune # Everything =>
                                      Distance(content[Max(earlier)], content[n]) > prune)
<1> HIDE DEF N
<1>2. N \in Nat /\ DOMAIN VideoFrames = 1..N
  BY <1>1 DEF N
<1>3. ASSUME NEW kept \in SUBSET (1..N), NEW n \in 1..N, {m \in kept : m < n} # {}
      PROVE  Max({m \in kept : m < n}) \in 1..N
  BY <1>2, <1>3, LastIndex
<1>4. \E kept \in SUBSET (1..N) : Sample(kept)
  <2>1. PICK kept : Thins(kept, 1..N, far)
    BY <1>2, ThinsDefined
  <2>2. kept \in SUBSET (1..N)
    BY <2>1 DEF Thins
  <2>3. Sample(kept)
    <3> SUFFICES ASSUME NEW n \in 1..N
                 PROVE  n \in kept <=> \/ {m \in kept : m < n} = {}
                                       \/ VideoFrames[n] - VideoFrames[Max({m \in kept : m < n})] >= interval
      OBVIOUS
    <3>1. n \in kept <=> {m \in kept : m < n} = {} \/ <<Max({m \in kept : m < n}), n>> \in far
      BY <2>1 DEF Thins
    <3> QED BY <1>3, <2>2, <3>1
  <2> QED BY <2>2, <2>3
<1>5. SampledFrames \in SUBSET (1..N) /\ Sample(SampledFrames)
  <2>1. SampledFrames = CHOOSE kept \in SUBSET (1..N) : Sample(kept)
    BY <1>2 DEF SampledFrames, Thinned
  <2> HIDE DEF Sample
  <2> QED BY <1>4, <2>1, Zenon
<1>6. \E kept \in SUBSET SampledFrames : Pruned(kept)
  <2>1. PICK kept : Thins(kept, SampledFrames, wide)
    BY <1>2, <1>5, ThinsDefined
  <2>2. kept \in SUBSET SampledFrames
    BY <2>1 DEF Thins
  <2>3. Pruned(kept)
    <3> SUFFICES ASSUME NEW n \in SampledFrames
                 PROVE  n \in kept <=>
                          \/ {m \in kept : m < n} = {}
                          \/ prune # Everything =>
                               Distance(content[Max({m \in kept : m < n})], content[n]) > prune
      OBVIOUS
    <3>1. n \in kept <=> {m \in kept : m < n} = {} \/ <<Max({m \in kept : m < n}), n>> \in wide
      BY <2>1 DEF Thins
    <3> QED BY <1>3, <1>5, <2>2, <3>1
  <2> QED BY <2>2, <2>3
<1>7. RetainedFrames \in SUBSET SampledFrames /\ Pruned(RetainedFrames)
  <2>1. RetainedFrames = CHOOSE kept \in SUBSET SampledFrames : Pruned(kept)
    BY DEF RetainedFrames, Thinned
  <2> HIDE DEF Pruned
  <2> QED BY <1>6, <2>1, Zenon
<1> QED BY <1>1, <1>5, <1>7 DEF N

\* What a call of fingerprint_video is given.
Arguments ==
  /\ content \in [DOMAIN VideoFrames -> Hash]
  /\ prune \in MaxDistance \cup {Everything}
  /\ budget \in Budget

\* The frames of signatures.
FrameSet == [hash : Hash, time : Time]

\* Every frame of the file makes one.
LEMMA FrameTyped ==
  ASSUME TypeOK, Arguments, NEW n \in 1..Len(VideoFrames)
  PROVE  Frame(n) \in FrameSet
<1>1. VideoFrames \in Seq(Time) /\ DOMAIN VideoFrames = 1..Len(VideoFrames)
  BY ReadSoFarType
<1>2. VideoFrames[n] \in Time
  BY <1>1, ElementOfSeq
<1> QED BY <1>1, <1>2 DEF Frame, FrameSet, Arguments

\* The recursion of FirstFrames, frame by frame.
LEMMA FirstFramesNext ==
  ASSUME TypeOK, NEW S
  PROVE  /\ FirstFrames(S, 0) = << >>
         /\ \A m \in 1..Len(VideoFrames) :
              FirstFrames(S, m) = IF m \in S THEN Append(FirstFrames(S, m - 1), Frame(m))
                                  ELSE FirstFrames(S, m - 1)
<1> DEFINE N == Len(VideoFrames)
           Longer(m, frames) == IF m \in S THEN Append(frames, Frame(m)) ELSE frames
           Good(f, n) == f = [m \in 0..n |-> IF m = 0 THEN << >> ELSE Longer(m, f[m - 1])]
           T == {n \in 0..N : \E f : Good(f, n)}
           among[m \in 0..N] ==
             IF m = 0 THEN << >>
             ELSE IF m \in S THEN Append(among[m - 1], Frame(m)) ELSE among[m - 1]
<1>1. N \in Nat
  BY ThinnedFrames
<1>2. 0 \in T
  <2> DEFINE f == [m \in 0..0 |-> << >>]
  <2>1. Good(f, 0)
    OBVIOUS
  <2> HIDE DEF f, Good
  <2> QED BY <1>1, <2>1
<1>3. ASSUME NEW n \in 0..N - 1, n \in T PROVE n + 1 \in T
  <2>1. PICK f : Good(f, n)
    BY <1>3
  <2> HIDE DEF Longer
  <2> DEFINE g == [m \in 0..n + 1 |-> IF m = 0 THEN << >> ELSE Longer(m, f[m - 1])]
  <2>2. \A m \in 0..n + 1 : g[m] = IF m = 0 THEN << >> ELSE Longer(m, f[m - 1])
    OBVIOUS
  <2>3. \A m \in 0..n : g[m] = f[m]
    <3>1. \A m \in 0..n : m \in 0..n + 1 /\ f[m] = IF m = 0 THEN << >> ELSE Longer(m, f[m - 1])
      BY <2>1
    <3> QED BY <2>2, <3>1
  <2>4. \A m \in 0..n + 1 : m # 0 => g[m - 1] = f[m - 1]
    <3>1. \A m \in 0..n + 1 : m # 0 => m - 1 \in 0..n
      BY <1>1
    <3> HIDE DEF g
    <3> QED BY <2>3, <3>1
  <2>5. \A m \in 0..n + 1 : g[m] = IF m = 0 THEN << >> ELSE Longer(m, g[m - 1])
    BY <2>2, <2>4
  <2>6. Good(g, n + 1)
    BY <2>5
  <2> HIDE DEF g, Good
  <2> QED BY <1>1, <2>6
<1>4. N \in T
  <2> HIDE DEF T
  <2>1. T \in SUBSET (0..N)
    BY DEF T
  <2> HIDE DEF N
  <2>2. \A m \in 0..N : m \in T
    BY <1>1, <1>2, <1>3, <2>1, Induct
  <2> QED BY <1>1, <2>2
<1>5. PICK f : Good(f, N)
  BY <1>4
<1>6. among = [m \in 0..N |->
                IF m = 0 THEN << >>
                ELSE IF m \in S THEN Append(among[m - 1], Frame(m)) ELSE among[m - 1]]
  <2> HIDE DEF N
  <2> QED BY <1>5, Zenon DEF among
<1>7. \A m : FirstFrames(S, m) = among[m]
  BY Zenon DEF FirstFrames
<1> HIDE DEF among
<1>8. \A m \in 0..N : among[m] = IF m = 0 THEN << >>
                ELSE IF m \in S THEN Append(among[m - 1], Frame(m)) ELSE among[m - 1]
  BY <1>6
<1>9. 0 \in 0..N /\ \A m \in 1..N : m \in 0..N /\ m # 0
  BY <1>1
<1>10. FirstFrames(S, 0) = << >>
  BY <1>7, <1>8, <1>9
<1>11. \A m \in 1..N : FirstFrames(S, m) = IF m \in S THEN Append(FirstFrames(S, m - 1), Frame(m))
                                           ELSE FirstFrames(S, m - 1)
  BY <1>7, <1>8, <1>9
<1> QED BY <1>10, <1>11

\* The frames first in a file are as many as their indices, the last of them
\* that of the last index.
LEMMA FirstFramesShape ==
  ASSUME TypeOK, Arguments, NEW S, \A i \in S : i \in 1..Len(VideoFrames),
         NEW n \in 0..Len(VideoFrames)
  PROVE  /\ FirstFrames(S, n) \in Seq(FrameSet)
         /\ IsFiniteSet(First(S, n)) /\ Len(FirstFrames(S, n)) = Cardinality(First(S, n))
         /\ First(S, n) = {} <=> FirstFrames(S, n) = << >>
         /\ First(S, n) # {} => Last(FirstFrames(S, n)) = Frame(Max(First(S, n)))
<1> DEFINE N == Len(VideoFrames)
           Shape(m) == /\ FirstFrames(S, m) \in Seq(FrameSet)
                       /\ IsFiniteSet(First(S, m))
                       /\ Len(FirstFrames(S, m)) = Cardinality(First(S, m))
                       /\ First(S, m) = {} <=> FirstFrames(S, m) = << >>
                       /\ First(S, m) # {} => Last(FirstFrames(S, m)) = Frame(Max(First(S, m)))
           T == {m \in 0..N : Shape(m)}
<1>1. N \in Nat
  BY ThinnedFrames
<1>2. \A i \in S : i \in Nat /\ i > 0 /\ i <= N
  BY <1>1
<1>3. 0 \in T
  <2>1. First(S, 0) = {} /\ FirstFrames(S, 0) = << >>
    BY <1>2, FirstNext, FirstFramesNext
  <2>2. << >> \in Seq(FrameSet) /\ Len(<< >>) = 0 /\ IsFiniteSet({}) /\ Cardinality({}) = 0
    BY EmptySeq, FS_EmptySet
  <2>3. Shape(0)
    BY <2>1, <2>2
  <2> HIDE DEF Shape
  <2> QED BY <1>1, <2>3
<1>4. ASSUME NEW m \in 0..N - 1, m \in T PROVE m + 1 \in T
  <2>1. m \in Nat /\ m + 1 \in 1..N /\ m + 1 - 1 = m /\ m + 1 \in 0..N
    BY <1>1
  <2>2. Shape(m)
    BY <1>4
  <2>3. FirstFrames(S, m + 1) = IF m + 1 \in S THEN Append(FirstFrames(S, m), Frame(m + 1))
                                ELSE FirstFrames(S, m)
    <3>1. PICK k \in 1..N : k = m + 1 /\ k - 1 = m
      BY <2>1
    <3>2. FirstFrames(S, k) = IF k \in S THEN Append(FirstFrames(S, k - 1), Frame(k))
                              ELSE FirstFrames(S, k - 1)
      BY FirstFramesNext
    <3> QED BY <3>1, <3>2
  <2>4. CASE m + 1 \notin S
    <3>1. First(S, m + 1) = First(S, m)
      BY <1>2, <2>1, <2>4, FirstNext
    <3> QED BY <2>1, <2>2, <2>3, <2>4, <3>1
  <2>5. CASE m + 1 \in S
    <3>1. First(S, m + 1) = First(S, m) \cup {m + 1} /\ \A i \in First(S, m) : i \in 1..m
      BY <1>2, <2>1, <2>5, FirstNext
    <3>2. m + 1 \notin First(S, m)
      BY <2>1, <3>1
    <3>3. IsFiniteSet(First(S, m + 1)) /\ Cardinality(First(S, m + 1)) = Cardinality(First(S, m)) + 1
      BY <2>2, <3>1, <3>2, FS_AddElement
    <3>4. Frame(m + 1) \in FrameSet
      BY <2>1, FrameTyped
    <3>5. /\ FirstFrames(S, m + 1) = Append(FirstFrames(S, m), Frame(m + 1))
          /\ FirstFrames(S, m + 1) \in Seq(FrameSet) /\ FirstFrames(S, m + 1) # << >>
          /\ Len(FirstFrames(S, m + 1)) = Len(FirstFrames(S, m)) + 1
          /\ Last(FirstFrames(S, m + 1)) = Frame(m + 1)
      <4>1. FirstFrames(S, m + 1) = Append(FirstFrames(S, m), Frame(m + 1))
        BY <2>3, <2>5
      <4>2. FirstFrames(S, m) \in Seq(FrameSet)
        BY <2>2
      <4>3. ASSUME NEW some \in Seq(FrameSet), NEW f \in FrameSet
            PROVE  /\ Append(some, f) \in Seq(FrameSet) /\ Append(some, f) # << >>
                   /\ Len(Append(some, f)) = Len(some) + 1
                   /\ Last(Append(some, f)) = f
        BY AppendProperties, LastAppend
      <4> QED BY <3>4, <4>1, <4>2, <4>3
    <3>6. Max(First(S, m + 1)) = m + 1 /\ First(S, m + 1) # {}
      <4>1. First(S, m) \in SUBSET (1..m)
        BY <3>1
      <4> QED BY <2>1, <3>1, <4>1, MaxNext
    <3>7. Shape(m + 1)
      BY <2>2, <3>3, <3>5, <3>6
    <3> QED BY <2>1, <3>7
  <2> QED BY <2>4, <2>5
<1>5. \A m \in 0..N : m \in T
  <2> HIDE DEF T
  <2>1. T \in SUBSET (0..N)
    BY DEF T
  <2> QED BY <1>1, <1>3, <1>4, <2>1, Induct
<1>6. Shape(n)
  BY <1>5
<1> QED BY <1>6

\* The recursion of Prune, frame by frame.
LEMMA PruneFold ==
  /\ Prune(<< >>) = << >>
  /\ \A s \in Seq(FrameSet) : Prune(s) \in Seq(FrameSet)
  /\ \A s \in Seq(FrameSet), f \in FrameSet :
       Prune(Append(s, f)) = IF Retain(Prune(s), f.hash) THEN Append(Prune(s), f) ELSE Prune(s)
<1> DEFINE More(frames, f) == IF Retain(frames, f.hash) THEN Append(frames, f) ELSE frames
           put == [q \in Seq(FrameSet) \X FrameSet |-> More(q[1], q[2])]
           kept[some \in Seq(FrameSet)] ==
             IF some = << >> THEN << >>
             ELSE LET before == kept[Front(some)]
                  IN IF Retain(before, Last(some).hash) THEN Append(before, Last(some)) ELSE before
<1>1. << >> \in Seq(FrameSet) /\ put \in [Seq(FrameSet) \X FrameSet -> Seq(FrameSet)]
  <2>1. \A s \in Seq(FrameSet), f \in FrameSet : More(s, f) \in Seq(FrameSet)
    BY AppendProperties
  <2> HIDE DEF More
  <2> QED BY <2>1, EmptySeq
<1>2. \A s \in Seq(FrameSet), f \in FrameSet : put[<<s, f>>] = More(s, f)
  <2> HIDE DEF More
  <2> QED OBVIOUS
<1> HIDE DEF put
<1>3. PICK f \in [Seq(FrameSet) -> Seq(FrameSet)] : Folds(f, << >>, put, Seq(FrameSet))
  BY <1>1, FoldDefined
<1>4. \A s \in Seq(FrameSet) \ {<< >>} : Front(s) \in Seq(FrameSet) /\ Last(s) \in FrameSet
  BY FrontLast
<1>5. f = [some \in Seq(FrameSet) |->
             IF some = << >> THEN << >>
             ELSE LET before == f[Front(some)]
                  IN IF Retain(before, Last(some).hash) THEN Append(before, Last(some)) ELSE before]
  <2>1. ASSUME NEW s \in Seq(FrameSet), s # << >>
        PROVE  f[s] = More(f[Front(s)], Last(s))
    <3> HIDE DEF More
    <3>1. f[s] = put[<<f[Front(s)], Last(s)>>] /\ f[Front(s)] \in Seq(FrameSet)
      BY <1>3, <1>4, <2>1 DEF Folds
    <3> QED BY <1>2, <1>4, <2>1, <3>1
  <2>2. f[<< >>] = << >>
    BY <1>1, <1>3 DEF Folds
  <2> QED BY <1>3, <2>1, <2>2
<1>6. kept = [some \in Seq(FrameSet) |->
                IF some = << >> THEN << >>
                ELSE LET before == kept[Front(some)]
                     IN IF Retain(before, Last(some).hash) THEN Append(before, Last(some)) ELSE before]
  BY <1>5, Zenon DEF kept
<1>s. \A s : Prune(s) = kept[s]
  BY Zenon DEF Prune, FrameSet
<1> HIDE DEF kept
<1>7. kept[<< >>] = << >>
  BY <1>1, <1>6
<1>8. ASSUME NEW s \in Seq(FrameSet), NEW x \in FrameSet
      PROVE  kept[Append(s, x)] = More(kept[s], x)
  <2>1. /\ Append(s, x) \in Seq(FrameSet) /\ Append(s, x) # << >>
        /\ Front(Append(s, x)) = s /\ Last(Append(s, x)) = x
    BY AppendFrontLast
  <2>2. \A r \in Seq(FrameSet) : r # << >> => kept[r] = More(kept[Front(r)], Last(r))
    BY <1>6
  <2> HIDE DEF More
  <2>3. kept[Append(s, x)] = More(kept[Front(Append(s, x))], Last(Append(s, x)))
    BY <2>1, <2>2
  <2> QED BY <2>1, <2>3
<1>9. \A s \in Seq(FrameSet) : kept[s] \in Seq(FrameSet)
  <2> DEFINE T == {s \in Seq(FrameSet) : kept[s] \in Seq(FrameSet)}
  <2>1. ASSUME NEW s \in T, NEW x \in FrameSet PROVE Append(s, x) \in T
    <3>1. Append(s, x) \in Seq(FrameSet) /\ Append(kept[s], x) \in Seq(FrameSet)
      BY AppendProperties
    <3> QED BY <1>8, <3>1
  <2>2. T \in SUBSET Seq(FrameSet) /\ << >> \in T
    BY <1>1, <1>7
  <2> HIDE DEF T
  <2>3. T = Seq(FrameSet)
    BY <2>1, <2>2, SequencesByAppend
  <2> QED BY <2>3 DEF T
<1>10. Prune(<< >>) = << >> /\ \A s \in Seq(FrameSet) : Prune(s) \in Seq(FrameSet)
  BY <1>s, <1>7, <1>9
<1>11. ASSUME NEW s \in Seq(FrameSet), NEW x \in FrameSet
       PROVE  Prune(Append(s, x)) = More(Prune(s), x)
  <2>1. Prune(Append(s, x)) = kept[Append(s, x)] /\ Prune(s) = kept[s]
    BY <1>s
  <2> HIDE DEF More
  <2> QED BY <1>8, <2>1
<1> QED BY <1>10, <1>11

-----------------------------------------------------------------------------
(***************************************************************************)
(* The invariant of fingerprint_video.                                     *)
(***************************************************************************)

\* What the outcome of the last call tells of the decoder.
Outcomes ==
  /\ Constructing \/ Reading => outcome = "none"
  /\ outcome = "open" => pc = "idle" /\ ~failed /\ ~ended /\ received = << >>
  /\ outcome = "frame" => /\ pc = "idle" /\ ~failed /\ ~ended
                          /\ received # << >> /\ selected = previous
  /\ outcome = "end" => ended
  /\ outcome = "canceled" => stop

\* The timestamp that was selected last is that of the last sampled frame, of
\* those that have been given; the frame in hand is the next.
Selection ==
  LET seen   == Len(received)
      chosen == First(SampledFrames, IF pc = "pixels" THEN seen - 1 ELSE seen)
  IN /\ ~failed => selected = IF chosen = {} THEN NoTime ELSE VideoFrames[Max(chosen)]
     /\ pc = "pixels" \/ outcome = "frame" => seen \in SampledFrames

\* The signature has the retained frames of those decided on so far.
Decided == Len(received) - IF pc = "pixels" \/ outcome = "frame" THEN 1 ELSE 0

Retention ==
  /\ step # "done" /\ ~failed => signature = FirstFrames(RetainedFrames, Decided)
  /\ step \in {"begin", "decode", "retain", "done"}
  /\ step = "begin" => pc = "open"
  /\ step = "retain" => outcome = "frame"
  /\ step # "done" => result = "none" /\ Len(signature) <= budget

VideoInv == IInv /\ Arguments /\ Outcomes /\ Selection /\ Retention /\ SignatureExact

\* Every step of fingerprint_video is one of the decoder or leaves it alone.
LEMMA DecoderSteps == [NextVideo]_allVars => [Next]_vars /\ UNCHANGED optionVars
<1> USE DEF optionVars, callVars, allVars
<1>1. CASE RequestStop /\ UNCHANGED callVars
  BY <1>1 DEF Next
<1>2. CASE Begin \/ Propagate \/ HashFrame \/ OutOfMemory \/ RetainStopped \/ Return
  BY <1>2 DEF Begin, Propagate, HashFrame, OutOfMemory, RetainStopped, Return
<1>3. CASE Decode
  BY <1>3 DEF Decode, Next
<1>4. CASE NextFrame
  BY <1>4 DEF NextFrame, Next
<1>5. CASE RetainFrame
  BY <1>5 DEF RetainFrame, Next
<1>6. CASE Done \/ UNCHANGED allVars
  BY <1>6 DEF Done
<1> QED BY <1>1, <1>2, <1>3, <1>4, <1>5, <1>6 DEF NextVideo, Work

\* No step changes the file, or what of it is sampled and retained.
LEMMA FileStays ==
  ASSUME [Next]_vars, UNCHANGED optionVars
  PROVE  /\ UNCHANGED <<packets, interval, content, prune, budget>>
         /\ VideoFrames' = VideoFrames
         /\ SampledFrames' = SampledFrames /\ RetainedFrames' = RetainedFrames
         /\ \A S, m : FirstFrames(S, m)' = FirstFrames(S, m)
<1>1. UNCHANGED <<packets, interval, content, prune, budget>>
  <2>1. UNCHANGED <<content, prune, budget>>
    BY DEF optionVars
  <2>2. UNCHANGED <<packets, interval>>
    BY DEF Next, RequestStop, Step, Fails, OpenInput, FindStream, ProbePacket, OpenCodec,
           Call, ReceiveFrame, ReceiveEnd, ReceiveNone, ReadPacket, ReadEnd, Drain, SendPacket,
           Select, SelectFrame, GiveFrame, Quiet, vars
  <2> QED BY <2>1, <2>2
<1>2. VideoFrames' = VideoFrames
  BY <1>1 DEF VideoFrames
<1>3. SampledFrames' = SampledFrames
  BY <1>1, <1>2 DEF SampledFrames, Thinned
<1>4. RetainedFrames' = RetainedFrames
  BY <1>1, <1>3 DEF RetainedFrames, Thinned
<1>5. \A S, m : FirstFrames(S, m)' = FirstFrames(S, m)
  BY <1>1, <1>2 DEF FirstFrames, Frame
<1> QED BY <1>1, <1>2, <1>3, <1>4, <1>5

\* The outcome is that of the last call, and stays until the next.
LEMMA OutcomesStep == IInv /\ Outcomes /\ [Next]_vars => Outcomes'
<1> SUFFICES ASSUME IInv, Outcomes, [Next]_vars PROVE Outcomes'
  OBVIOUS
<1> USE DEF Outcomes, Constructing, Reading
<1>i. TypeOK /\ Stages /\ Marks
  BY DEF IInv
<1>1. CASE RequestStop \/ Quiet \/ UNCHANGED vars
  BY <1>1 DEF RequestStop, Quiet, vars
<1>2. CASE Fails
  <2>1. /\ outcome' \in {"canceled", "error", "memory"} /\ (outcome' = "canceled" => stop)
        /\ pc' \in {"gone", "idle"} /\ stop' = stop
    BY <1>2 DEF Fails, Throw
  <2> QED BY <2>1
<1>3. CASE OpenInput \/ FindStream \/ ProbePacket
  BY <1>3 DEF OpenInput, FindStream, ProbePacket
<1>4. CASE OpenCodec
  BY <1>4, <1>i DEF OpenCodec, Stages
<1>5. CASE Call
  BY <1>5 DEF Call
<1>6. CASE ReceiveFrame \/ Drain \/ SendPacket
  BY <1>6 DEF ReceiveFrame, Drain, SendPacket
<1>7. CASE ReceiveEnd
  BY <1>7 DEF ReceiveEnd
<1>8. CASE ReceiveNone \/ ReadPacket
  BY <1>8 DEF ReceiveNone, ReadPacket
<1>9. CASE ReadEnd
  BY <1>9 DEF ReadEnd
<1>10. CASE Select
  BY <1>10 DEF Select, SelectFrame
<1>11. CASE GiveFrame
  <2>1. /\ pc = "pixels" /\ pc' = "idle" /\ outcome' = "frame" /\ selected' = frame
        /\ UNCHANGED <<received, previous, failed, ended>>
    BY <1>11 DEF GiveFrame
  <2>2. frame = previous /\ ~failed /\ ~ended /\ frame # NoTime
    BY <1>i, <2>1 DEF Marks, Stages
  <2>3. received # << >>
    BY <1>i, <2>2 DEF Marks
  <2> QED BY <2>1, <2>2, <2>3
<1> QED BY <1>1, <1>2, <1>3, <1>4, <1>5, <1>6, <1>7, <1>8, <1>9, <1>10, <1>11 DEF Next, Step

\* The frame that the decoder selects next, and whether it is one of the sampled.
LEMMA SelectNext ==
  ASSUME IInv, Arguments, Selection, Select
  PROVE  LET n == Len(received)
         IN /\ n \in Nat /\ n + 1 \in 1..Len(VideoFrames) /\ Len(received') = n + 1
            /\ received'= Append(received, frame) /\ frame = VideoFrames[n + 1]
            /\ n + 1 \in SampledFrames <=> selected = NoTime \/ Gap(frame) >= interval
            /\ pc' = IF n + 1 \in SampledFrames THEN "pixels" ELSE "receive"
<1> DEFINE n == Len(received)
<1>i. TypeOK /\ Stages /\ Marks /\ Flow /\ pc = "select" /\ ~failed
  BY DEF IInv, Select, SelectFrame, Stages, Reading
<1>1. /\ received \in Seq(Time) /\ frame \in Time /\ received' = Append(received, frame)
      /\ n \in Nat /\ Len(received') = n + 1 /\ received' \in Seq(Time) /\ received'[n + 1] = frame
  BY <1>i, SelectTypes, AppendProperties, LenProperties
<1>2. [Next]_vars /\ packets' = packets
  BY DEF Next, Step, Select, SelectFrame
<1>3. IsPrefix(received', VideoFrames)
  <2>1. Flow'
    BY <1>i, <1>2, FlowStep
  <2> QED BY <1>2, <2>1 DEF Flow, VideoFrames
<1>4. VideoFrames \in Seq(Time) /\ Len(VideoFrames) \in Nat
  BY <1>i, ReadSoFarType, LenProperties
<1>5. n + 1 \in 1..Len(VideoFrames) /\ frame = VideoFrames[n + 1]
  <2>1. /\ Len(received') <= Len(VideoFrames)
        /\ \A i \in 1..Len(received') : received'[i] = VideoFrames[i]
    <3>1. received' \in Seq(Time) /\ VideoFrames \in Seq(Time)
      BY <1>1, <1>4
    <3> QED BY <1>3, <3>1, PrefixPointwise
  <2> QED BY <1>1, <1>4, <2>1
<1>6. n + 1 \in SampledFrames <=> selected = NoTime \/ Gap(frame) >= interval
  <2> DEFINE chosen == First(SampledFrames, n)
  <2>1. selected = IF chosen = {} THEN NoTime ELSE VideoFrames[Max(chosen)]
    BY <1>i DEF Selection
  <2>2. \A i \in SampledFrames : i \in Nat /\ i > 0 /\ i <= Len(VideoFrames)
    BY <1>i, <1>4, ThinnedFrames
  <2>3. chosen = {m \in SampledFrames : m < n + 1} /\ \A m \in chosen : m \in 1..n
    BY <1>1, <2>2, FirstNext
  <2>4. n + 1 \in SampledFrames <=>
          chosen = {} \/ VideoFrames[n + 1] - VideoFrames[Max(chosen)] >= interval
    <3> HIDE DEF chosen
    <3>1. PICK k \in 1..Len(VideoFrames) : k = n + 1
      BY <1>5
    <3>2. k \in SampledFrames <=>
            \/ {m \in SampledFrames : m < k} = {}
            \/ VideoFrames[k] - VideoFrames[Max({m \in SampledFrames : m < k})] >= interval
      BY <1>i, ThinnedFrames
    <3> QED BY <2>3, <3>1, <3>2
  <2>5. chosen # {} => Max(chosen) \in 1..Len(VideoFrames) /\ VideoFrames[Max(chosen)] \in Time
    <3> SUFFICES ASSUME chosen # {}
                 PROVE  Max(chosen) \in 1..Len(VideoFrames) /\ VideoFrames[Max(chosen)] \in Time
      OBVIOUS
    <3>1. chosen \in SUBSET (1..n)
      BY <2>3
    <3>2. Max(chosen) \in chosen
      <4> HIDE DEF chosen
      <4> QED BY <1>1, <3>1, LastIndex
    <3>3. Max(chosen) \in 1..n
      BY <2>3, <3>2
    <3>4. Max(chosen) \in 1..Len(VideoFrames)
      <4> HIDE DEF chosen
      <4> QED BY <1>1, <1>4, <1>5, <3>3
    <3> QED BY <1>4, <3>4, ElementOfSeq
  <2> HIDE DEF chosen
  <2>6. NoTime \notin Time
    BY VideoAssumption
  <2>7. CASE chosen = {}
    BY <2>1, <2>4, <2>7
  <2>8. CASE chosen # {}
    <3>1. selected = VideoFrames[Max(chosen)] /\ selected # NoTime
      BY <2>1, <2>5, <2>6, <2>8
    <3>2. Gap(frame) = frame - selected
      BY <1>i, <3>1, GapExact
    <3> QED BY <1>5, <2>4, <2>8, <3>1, <3>2
  <2> QED BY <2>7, <2>8
<1>7. pc' = IF selected = NoTime \/ Gap(frame) >= interval THEN "pixels" ELSE "receive"
  BY DEF Select, SelectFrame
<1> QED BY <1>1, <1>5, <1>6, <1>7

\* Selection goes by the timestamp of the sampled frame before.
LEMMA SelectionStep ==
  IInv /\ Arguments /\ Outcomes /\ Selection /\ [Next]_vars /\ UNCHANGED optionVars => Selection'
<1> SUFFICES ASSUME IInv, Arguments, Outcomes, Selection, [Next]_vars, UNCHANGED optionVars
             PROVE  Selection'
  OBVIOUS
<1>i. TypeOK /\ Stages /\ Marks /\ Len(received) \in Nat
  BY LenProperties DEF IInv, TypeOK
<1>s. \A i \in SampledFrames : i \in Nat /\ i > 0 /\ i <= Len(VideoFrames)
  BY <1>i, ThinnedFrames
<1>f. VideoFrames' = VideoFrames /\ SampledFrames' = SampledFrames
  BY FileStays
<1>1. CASE Select
  <2> DEFINE n == Len(received)
  <2>1. /\ Len(received') = n + 1 /\ n \in Nat
        /\ pc' = IF n + 1 \in SampledFrames THEN "pixels" ELSE "receive"
    BY <1>1, SelectNext
  <2>2. /\ UNCHANGED <<selected, failed, outcome>> /\ pc = "select" /\ ~failed /\ outcome = "none"
    BY <1>1, <1>i DEF Select, SelectFrame, Stages, Outcomes, Reading
  <2>3. LET chosen == First(SampledFrames, n)
        IN selected = IF chosen = {} THEN NoTime ELSE VideoFrames[Max(chosen)]
    BY <2>2 DEF Selection
  <2>4. n + 1 \notin SampledFrames => First(SampledFrames, n + 1) = First(SampledFrames, n)
    BY <1>s, <2>1, FirstNext
  <2>5. n + 1 - 1 = n
    BY <2>1
  <2> HIDE DEF n
  <2>6. CASE n + 1 \in SampledFrames
    BY <1>f, <2>1, <2>2, <2>3, <2>5, <2>6 DEF Selection
  <2>7. CASE n + 1 \notin SampledFrames
    BY <1>f, <2>1, <2>2, <2>3, <2>4, <2>7 DEF Selection
  <2> QED BY <2>6, <2>7
<1>2. CASE GiveFrame
  <2> DEFINE n == Len(received)
  <2>1. /\ pc = "pixels" /\ pc' = "idle" /\ outcome' = "frame" /\ selected' = frame
        /\ UNCHANGED <<received, failed>>
    BY <1>2 DEF GiveFrame
  <2>2. frame = Last(received) /\ received # << >> /\ n \in SampledFrames
    BY <1>i, <2>1 DEF Marks, Stages, Selection
  <2>3. frame = VideoFrames[n]
    <3>1. n \in 1..n /\ received[n] = frame
      BY <1>i, <2>2, EmptySeq DEF Last, TypeOK
    <3>2. \A i \in 1..n : received[i] = VideoFrames[i]
      <4>1. received \in Seq(Time) /\ VideoFrames \in Seq(Time) /\ IsPrefix(received, VideoFrames)
        BY <1>i, ReadSoFarType DEF IInv, Flow, TypeOK
      <4> QED BY <4>1, PrefixPointwise
    <3> QED BY <3>1, <3>2
  <2>4. First(SampledFrames, n) # {} /\ Max(First(SampledFrames, n)) = n
    <3>1. n > 0 /\ n - 1 \in Nat /\ n - 1 + 1 = n
      BY <1>i, <1>s, <2>2
    <3>2. /\ First(SampledFrames, n) = First(SampledFrames, n - 1) \cup {n}
          /\ \A i \in First(SampledFrames, n - 1) : i \in 1..n - 1
      <4>1. PICK m \in Nat : m = n - 1 /\ m + 1 = n
        BY <3>1
      <4>a. m + 1 \in SampledFrames
        BY <2>2, <4>1
      <4>b. \A i \in SampledFrames : i \in Nat /\ i > 0
        BY <1>s
      <4>2. /\ First(SampledFrames, m + 1) = First(SampledFrames, m) \cup {m + 1}
            /\ \A i \in First(SampledFrames, m) : i \in 1..m
        BY <4>a, <4>b, FirstNext
      <4> QED BY <4>1, <4>2
    <3>3. First(SampledFrames, n - 1) \in SUBSET (1..n - 1)
      BY <3>2
    <3>4. Max(First(SampledFrames, n - 1) \cup {n - 1 + 1}) = n - 1 + 1
      BY <3>1, <3>3, MaxNext
    <3> QED BY <3>1, <3>2, <3>4
  <2> HIDE DEF n
  <2>5. Len(received') = n
    BY <2>1 DEF n
  <2> QED BY <1>f, <2>1, <2>2, <2>3, <2>4, <2>5 DEF Selection
<1>3. CASE ~Select /\ ~GiveFrame
  <2>1. /\ UNCHANGED <<received, selected>>
        /\ pc' = "pixels" => pc = "pixels"
        /\ failed => failed'
        /\ pc = "pixels" => pc' = "pixels" \/ failed'
    BY <1>3, OtherSteps
  <2>2. outcome' = "frame" => outcome = "frame"
    BY <1>3 DEF Next, RequestStop, Step, Fails, Throw, OpenInput, FindStream, ProbePacket, OpenCodec,
           Call, ReceiveFrame, ReceiveEnd, ReceiveNone, ReadPacket, ReadEnd, Drain, SendPacket,
           Quiet, vars
  <2>3. Len(received') = Len(received)
    BY <2>1
  <2>4. CASE ~failed'
    <3>1. ~failed /\ (pc' = "pixels" <=> pc = "pixels")
      BY <2>1, <2>4
    <3> QED BY <1>f, <2>1, <2>2, <2>3, <3>1 DEF Selection
  <2>5. CASE failed'
    BY <1>f, <2>1, <2>2, <2>3, <2>5 DEF Selection
  <2> QED BY <2>4, <2>5
<1> QED BY <1>1, <1>2, <1>3

\* The steps of the decoder that decide on no frame.
LEMMA Undecided ==
  ASSUME IInv, Outcomes, Step \/ (Call /\ outcome = "open"), ~Select, ~failed'
  PROVE  ~failed /\ Decided' = Decided
<1> USE DEF Constructing, Reading
<1>1. CASE GiveFrame
  <2>1. pc = "pixels" /\ pc' = "idle" /\ outcome' = "frame" /\ UNCHANGED <<received, failed>>
    BY <1>1 DEF GiveFrame
  <2> QED BY <2>1 DEF Decided
<1>2. CASE ~GiveFrame
  <2>1. /\ received' = received /\ (pc' = "pixels" <=> pc = "pixels") /\ ~failed
    BY <1>2, OtherSteps DEF Next
  <2>2. outcome # "frame"
    <3>1. CASE Call /\ outcome = "open"
      BY <3>1
    <3>2. CASE Step
      <4>1. pc # "idle"
        BY <3>2 DEF Step, Fails, OpenInput, FindStream, ProbePacket, OpenCodec, ReceiveFrame,
               ReceiveEnd, ReceiveNone, ReadPacket, ReadEnd, Drain, SendPacket, Select,
               SelectFrame, GiveFrame
      <4> QED BY <4>1 DEF Outcomes
    <3> QED BY <3>1, <3>2
  <2>3. outcome' # "frame"
    BY <1>2, <2>2 DEF Step, Fails, Throw, OpenInput, FindStream, ProbePacket, OpenCodec,
           Call, ReceiveFrame, ReceiveEnd, ReceiveNone, ReadPacket, ReadEnd, Drain, SendPacket,
           Select, SelectFrame
  <2> QED BY <2>1, <2>2, <2>3 DEF Decided
<1> QED BY <1>1, <1>2

\* A frame that is not sampled or is pruned adds nothing, another its own.
LEMMA FramesNext ==
  ASSUME TypeOK, Arguments, NEW n \in 1..Len(VideoFrames)
  PROVE  /\ n \notin RetainedFrames =>
              FirstFrames(RetainedFrames, n) = FirstFrames(RetainedFrames, n - 1)
         /\ n \in RetainedFrames =>
              FirstFrames(RetainedFrames, n) = Append(FirstFrames(RetainedFrames, n - 1), Frame(n))
  BY FirstFramesNext

\* retain tells the frames that are retained.
LEMMA RetainExact ==
  ASSUME TypeOK, Arguments, NEW n \in SampledFrames
  PROVE  n \in RetainedFrames <=> Retain(FirstFrames(RetainedFrames, n - 1), content[n])
<1> DEFINE N == Len(VideoFrames)
           frames == FirstFrames(RetainedFrames, n - 1)
           before == First(RetainedFrames, n - 1)
<1>1. N \in Nat /\ n \in 1..N /\ \A i \in RetainedFrames : i \in 1..N
  BY ThinnedFrames
<1>2. n - 1 \in 0..N /\ n - 1 \in Nat /\ n - 1 + 1 = n
  BY <1>1
<1>3. /\ before = {} <=> frames = << >>
      /\ before # {} => Last(frames) = Frame(Max(before))
  <2>1. PICK m \in 0..N : m = n - 1
    BY <1>2
  <2>2. /\ First(RetainedFrames, m) = {} <=> FirstFrames(RetainedFrames, m) = << >>
        /\ First(RetainedFrames, m) # {} =>
             Last(FirstFrames(RetainedFrames, m)) = Frame(Max(First(RetainedFrames, m)))
    BY <1>1, <2>1, FirstFramesShape
  <2> QED BY <2>1, <2>2
<1>4. before = {m \in RetainedFrames : m < n}
  BY <1>1 DEF First
<1> HIDE DEF frames, before
<1>5. n \in RetainedFrames <=>
        before = {} \/ (prune # Everything => Distance(content[Max(before)], content[n]) > prune)
  BY <1>4, ThinnedFrames
<1>6. before # {} => Last(frames).hash = content[Max(before)]
  BY <1>3 DEF Frame
<1>7. Retain(frames, content[n]) <=>
        (prune # Everything /\ frames # << >> => Distance(Last(frames).hash, content[n]) > prune)
  BY DEF Retain
<1>8. CASE before = {}
  <2>1. n \in RetainedFrames
    BY <1>5, <1>8
  <2>2. Retain(frames, content[n])
    BY <1>3, <1>7, <1>8
  <2> QED BY <2>1, <2>2 DEF frames
<1>9. CASE before # {}
  <2> DEFINE wide == prune # Everything => Distance(content[Max(before)], content[n]) > prune
  <2>1. n \in RetainedFrames <=> wide
    BY <1>5, <1>9
  <2>2. Retain(frames, content[n]) <=> wide
    BY <1>3, <1>6, <1>7, <1>9
  <2> HIDE DEF wide
  <2> QED BY <2>1, <2>2, Zenon DEF frames
<1> QED BY <1>8, <1>9

\* The frame in hand is the next to be decided on.
LEMMA FrameInHand ==
  ASSUME IInv, Arguments, Outcomes, Selection, Retention, step = "retain"
  PROVE  LET n == Len(received)
         IN /\ n \in 1..Len(VideoFrames) /\ n \in SampledFrames /\ Decided = n - 1
            /\ signature = FirstFrames(RetainedFrames, n - 1) /\ ~failed
<1>1. outcome = "frame" /\ pc = "idle" /\ ~failed
  BY DEF Retention, Outcomes
<1>2. Len(received) \in SampledFrames
  BY <1>1 DEF Selection
<1>3. Len(received) \in 1..Len(VideoFrames)
  BY <1>2, ThinnedFrames DEF IInv
<1>4. Decided = Len(received) - 1
  BY <1>1 DEF Decided
<1>5. signature = FirstFrames(RetainedFrames, Decided)
  BY <1>1 DEF Retention
<1> QED BY <1>1, <1>2, <1>3, <1>4, <1>5

\* The signature keeps up with the frames decided on.
LEMMA RetentionStep ==
  IInv /\ Arguments /\ Outcomes /\ Selection /\ Retention /\ [NextVideo]_allVars => Retention'
<1> SUFFICES ASSUME IInv, Arguments, Outcomes, Selection, Retention, [NextVideo]_allVars
             PROVE  Retention'
  OBVIOUS
<1>i. TypeOK /\ Stages /\ Len(received) \in Nat
  BY LenProperties DEF IInv, TypeOK
<1>f. /\ budget' = budget /\ content' = content /\ prune' = prune
      /\ VideoFrames' = VideoFrames /\ RetainedFrames' = RetainedFrames
  BY DecoderSteps, FileStays
<1>d. FirstFrames(RetainedFrames, Decided)' = FirstFrames(RetainedFrames, Decided')
  BY <1>f DEF FirstFrames, Frame
<1> HIDE DEF Decided
<1>1. CASE RequestStop /\ UNCHANGED callVars
  <2>1. /\ UNCHANGED <<step, result, signature, pc, outcome, failed, received>>
    BY <1>1 DEF RequestStop, callVars
  <2>2. Decided' = Decided
    BY <2>1 DEF Decided
  <2> QED BY <1>f, <1>d, <2>1, <2>2 DEF Retention
<1>2. CASE Begin \/ Propagate \/ HashFrame \/ OutOfMemory \/ RetainStopped \/ Return
  <2>1. UNCHANGED <<signature, pc, outcome, failed, received>>
    BY <1>2 DEF Begin, Propagate, HashFrame, OutOfMemory, RetainStopped, Return, vars
  <2>2. Decided' = Decided
    BY <2>1 DEF Decided
  <2>3. /\ step' \in {"decode", "retain", "done"} /\ (step' # "done" => result' = result /\ step # "done")
        /\ step' = "retain" => outcome = "frame"
    BY <1>2 DEF Begin, Propagate, HashFrame, OutOfMemory, RetainStopped, Return, End
  <2> QED BY <1>f, <1>d, <2>1, <2>2, <2>3 DEF Retention
<1>3. CASE Decode \/ NextFrame
  <2>1. step = "decode" /\ UNCHANGED <<signature, step, result>> /\ (Step \/ (Call /\ outcome = "open"))
    BY <1>3 DEF Decode, NextFrame, callVars
  <2>2. ~failed' => signature' = FirstFrames(RetainedFrames, Decided')
    <3> SUFFICES ASSUME ~failed' PROVE signature' = FirstFrames(RetainedFrames, Decided')
      OBVIOUS
    <3>1. CASE ~Select
      <4>1. ~failed /\ Decided' = Decided
        BY <2>1, <3>1, Undecided
      <4> QED BY <2>1, <4>1 DEF Retention
    <3>2. CASE Select
      <4> DEFINE n == Len(received)
      <4>1. /\ n \in Nat /\ n + 1 \in 1..Len(VideoFrames) /\ Len(received') = n + 1
            /\ pc' = IF n + 1 \in SampledFrames THEN "pixels" ELSE "receive"
        BY <3>2, SelectNext
      <4>2. pc = "select" /\ outcome' = outcome /\ outcome = "none" /\ ~failed
        BY <3>2, <1>i DEF Select, SelectFrame, Outcomes, Reading, Stages
      <4>3. Decided = n
        BY <4>1, <4>2 DEF Decided
      <4>4. signature = FirstFrames(RetainedFrames, n)
        BY <2>1, <4>2, <4>3 DEF Retention
      <4>5. CASE n + 1 \in SampledFrames
        <5>1. Decided' = n
          BY <4>1, <4>2, <4>5 DEF Decided
        <5> QED BY <2>1, <4>4, <5>1
      <4>6. CASE n + 1 \notin SampledFrames
        <5>1. Decided' = n + 1
          BY <4>1, <4>2, <4>6 DEF Decided
        <5>2. PICK k \in 1..Len(VideoFrames) : k = n + 1 /\ k - 1 = n
          BY <4>1
        <5>3. k \notin RetainedFrames
          BY <1>i, <4>6, <5>2, ThinnedFrames
        <5>4. FirstFrames(RetainedFrames, k) = FirstFrames(RetainedFrames, k - 1)
          BY <1>i, <5>3, FramesNext
        <5> QED BY <2>1, <4>4, <5>1, <5>2, <5>4
      <4> QED BY <4>5, <4>6
    <3> QED BY <3>1, <3>2
  <2> QED BY <1>f, <1>d, <2>1, <2>2 DEF Retention
<1>4. CASE RetainFrame
  <2> DEFINE n == Len(received)
  <2>1. /\ n \in 1..Len(VideoFrames) /\ n \in SampledFrames
        /\ signature = FirstFrames(RetainedFrames, n - 1) /\ ~failed
    BY <1>4, FrameInHand DEF RetainFrame
  <2>2. n \in RetainedFrames <=> Retain(signature, Frame(n).hash)
    <3>1. Frame(n).hash = content[n]
      BY DEF Frame
    <3> QED BY <1>i, <2>1, <3>1, RetainExact
  <2>3. ASSUME Call
        PROVE  pc' = "receive" /\ outcome' = "none" /\ UNCHANGED <<received, failed>> /\ Decided' = n
    <3>1. ~failed /\ ~ended
      BY <1>4 DEF RetainFrame, Retention, Outcomes
    <3>2. pc' = "receive" /\ outcome' = "none" /\ UNCHANGED <<received, failed>>
      BY <2>3, <3>1 DEF Call
    <3> QED BY <1>i, <3>2 DEF Decided
  <2>4. CASE ~Retain(signature, Frame(n).hash)
    <3>1. step' = "decode" /\ Call /\ UNCHANGED <<signature, result>> /\ step = "retain"
      BY <1>4, <2>4 DEF RetainFrame
    <3>2. FirstFrames(RetainedFrames, n) = FirstFrames(RetainedFrames, n - 1)
      BY <1>i, <2>1, <2>2, <2>4, FramesNext
    <3> QED BY <1>f, <1>d, <2>1, <2>3, <3>1, <3>2 DEF Retention
  <2>5. CASE Retain(signature, Frame(n).hash) /\ Len(signature) = budget
    <3>1. step' = "done"
      BY <1>4, <2>5 DEF RetainFrame, End
    <3> QED BY <3>1 DEF Retention
  <2>6. CASE Retain(signature, Frame(n).hash) /\ Len(signature) # budget
    <3>1. /\ signature' = Append(signature, Frame(n))
          /\ step' = "decode" /\ Call /\ UNCHANGED result /\ step = "retain"
      BY <1>4, <2>6 DEF RetainFrame
    <3>2. FirstFrames(RetainedFrames, n) = Append(FirstFrames(RetainedFrames, n - 1), Frame(n))
      BY <1>i, <2>1, <2>2, <2>6, FramesNext
    <3>3. signature \in Seq(FrameSet) /\ Frame(n) \in FrameSet
      <4>1. PICK m \in 0..Len(VideoFrames) : m = n - 1
        BY <2>1
      <4>2. FirstFrames(RetainedFrames, m) \in Seq(FrameSet)
        <5>1. \A k \in RetainedFrames : k \in 1..Len(VideoFrames)
          BY <1>i, ThinnedFrames
        <5> QED BY <1>i, <5>1, FirstFramesShape
      <4> QED BY <1>i, <2>1, <4>1, <4>2, FrameTyped
    <3>4. Len(signature') = Len(signature) + 1 /\ Len(signature) \in Nat
      BY <3>1, <3>3, AppendProperties, LenProperties
    <3>5. budget \in Nat /\ Len(signature) <= budget
      BY <3>1, FingerprintAssumption DEF Arguments, Retention
    <3>6. Len(signature') <= budget
      BY <2>6, <3>4, <3>5
    <3> QED BY <1>f, <1>d, <2>1, <2>3, <3>1, <3>2, <3>6 DEF Retention
  <2> QED BY <2>4, <2>5, <2>6
<1>5. CASE Done \/ UNCHANGED allVars
  <2>1. UNCHANGED <<step, result, signature, pc, outcome, failed, received>>
    BY <1>5 DEF Done, allVars, callVars, vars
  <2>2. Decided' = Decided
    BY <2>1 DEF Decided
  <2> QED BY <1>f, <1>d, <2>1, <2>2 DEF Retention
<1> QED BY <1>1, <1>2, <1>3, <1>4, <1>5 DEF NextVideo, Work

\* A signature is returned once every frame has been decided on.
LEMMA SignatureStep ==
  /\ IInv /\ Arguments /\ Outcomes /\ Selection /\ Retention /\ SignatureExact
  /\ [NextVideo]_allVars
  => SignatureExact'
<1> SUFFICES ASSUME IInv, Arguments, Outcomes, Selection, Retention, SignatureExact,
                    [NextVideo]_allVars
             PROVE  SignatureExact'
  OBVIOUS
<1>i. TypeOK /\ Stages
  BY DEF IInv
<1>f. /\ budget' = budget /\ content' = content
      /\ VideoFrames' = VideoFrames /\ RetainedFrames' = RetainedFrames
  BY DecoderSteps, FileStays
<1>d. FramesOf(RetainedFrames)' = FramesOf(RetainedFrames)
  BY <1>f DEF FramesOf, FirstFrames, Frame
<1>1. CASE result' = result /\ signature' = signature
  <2>1. stop => stop'
    BY DecoderSteps DEF Next, RequestStop, Step, Fails, OpenInput, FindStream, ProbePacket,
           OpenCodec, Call, ReceiveFrame, ReceiveEnd, ReceiveNone, ReadPacket, ReadEnd, Drain,
           SendPacket, Select, SelectFrame, GiveFrame, Quiet, vars
  <2> QED BY <1>f, <1>d, <1>1, <2>1 DEF SignatureExact
<1>2. CASE result' = "none"
  BY <1>2 DEF SignatureExact
<1>3. CASE Propagate
  <2>1. result' \in {"canceled", "memory", "error"} /\ (result' = "canceled" => stop) /\ stop' = stop
    BY <1>3 DEF Propagate, End, Error, Outcomes, vars
  <2> QED BY <2>1 DEF SignatureExact
<1>4. CASE Begin \/ HashFrame \/ RetainStopped
  <2>1. stop' = stop /\ (result' = result \/ (result' = "canceled" /\ stop)) /\ signature' = signature
    BY <1>4 DEF Begin, HashFrame, RetainStopped, End, vars
  <2> QED BY <1>1, <2>1 DEF SignatureExact
<1>5. CASE OutOfMemory
  BY <1>5 DEF OutOfMemory, End, SignatureExact
<1>6. CASE Return
  <2>1. /\ step = "decode" /\ outcome = "end" /\ UNCHANGED <<stop, signature>>
        /\ result' = IF stop THEN "canceled" ELSE "signature"
    BY <1>6 DEF Return, End, vars
  <2>2. ended /\ ~failed /\ pc # "pixels"
    BY <1>i, <2>1 DEF Outcomes, Stages, Reading
  <2>3. received = VideoFrames
    BY <2>2 DEF IInv, Flow
  <2>4. Decided = Len(VideoFrames)
    <3>1. Len(VideoFrames) \in Nat
      BY <1>i, ThinnedFrames
    <3> QED BY <2>1, <2>2, <2>3, <3>1 DEF Decided
  <2>5. signature = FramesOf(RetainedFrames) /\ Len(signature) <= budget
    BY <2>1, <2>2, <2>4 DEF Retention, FramesOf
  <2> QED BY <1>f, <1>d, <2>1, <2>5 DEF SignatureExact
<1>7. CASE RetainFrame /\ result' # result
  <2> DEFINE n == Len(received)
             before == First(RetainedFrames, n - 1)
  <2>1. /\ n \in 1..Len(VideoFrames) /\ n \in SampledFrames
        /\ signature = FirstFrames(RetainedFrames, n - 1)
    BY <1>7, FrameInHand DEF RetainFrame
  <2>2. Retain(signature, Frame(n).hash) /\ Len(signature) = budget /\ result' = "length"
    BY <1>7 DEF RetainFrame, End
  <2>3. n \in RetainedFrames
    <3>1. Frame(n).hash = content[n]
      BY DEF Frame
    <3> QED BY <1>i, <2>1, <2>2, <3>1, RetainExact
  <2>4. Len(VideoFrames) \in Nat /\ \A i \in RetainedFrames : i \in 1..Len(VideoFrames)
    BY <1>i, ThinnedFrames
  <2>5. IsFiniteSet(before) /\ Cardinality(before) = budget
    <3>1. PICK m \in 0..Len(VideoFrames) : m = n - 1
      BY <2>1, <2>4
    <3>2. /\ IsFiniteSet(First(RetainedFrames, m))
          /\ Len(FirstFrames(RetainedFrames, m)) = Cardinality(First(RetainedFrames, m))
      BY <1>i, <2>4, FirstFramesShape
    <3> QED BY <2>1, <2>2, <3>1, <3>2
  <2>6. n \notin before /\ before \cup {n} \in SUBSET RetainedFrames
    BY <2>1, <2>3, <2>4 DEF First
  <2>7. IsFiniteSet(RetainedFrames)
    <3>1. IsFiniteSet(1..Len(VideoFrames))
      BY <2>4, FS_Interval
    <3> QED BY <2>4, <3>1, FS_Subset
  <2> HIDE DEF before
  <2>8. Cardinality(before \cup {n}) = budget + 1 /\ Cardinality(before \cup {n}) <= Cardinality(RetainedFrames)
    BY <2>5, <2>6, <2>7, FS_AddElement, FS_Subset
  <2>9. budget \in Nat /\ Cardinality(RetainedFrames) \in Nat
    BY <2>7, FingerprintAssumption, FS_CardinalityType DEF Arguments
  <2>10. Cardinality(RetainedFrames) > budget
    BY <2>8, <2>9
  <2> QED BY <1>f, <2>2, <2>10 DEF SignatureExact
<1>8. CASE RetainFrame /\ result' = result
  BY <1>2, <1>8 DEF RetainFrame, Retention
<1>9. CASE Decode \/ NextFrame \/ (RequestStop /\ UNCHANGED callVars)
  BY <1>1, <1>9 DEF Decode, NextFrame, callVars
<1>10. CASE Done \/ UNCHANGED allVars
  BY <1>1, <1>10 DEF Done, allVars, callVars
<1> QED BY <1>3, <1>4, <1>5, <1>6, <1>7, <1>8, <1>9, <1>10 DEF NextVideo, Work

\* Pruning the sampled frames keeps the retained ones, of any number of frames
\* that the file begins with.
LEMMA PruneKeeps ==
  ASSUME TypeOK, Arguments
  PROVE  Prune(FramesOf(SampledFrames)) = FramesOf(RetainedFrames)
<1> DEFINE N == Len(VideoFrames)
           T == {m \in 0..N : Prune(FirstFrames(SampledFrames, m)) = FirstFrames(RetainedFrames, m)}
<1>1. /\ N \in Nat /\ \A i \in SampledFrames : i \in 1..N
      /\ \A i \in RetainedFrames : i \in SampledFrames
  BY ThinnedFrames
<1>2. 0 \in T
  BY <1>1, FirstFramesNext, PruneFold
<1>3. ASSUME NEW m \in 0..N - 1, m \in T PROVE m + 1 \in T
  <2>1. PICK n \in 1..N : n = m + 1 /\ n - 1 = m /\ m \in 0..N
    BY <1>1
  <2> DEFINE sampled == FirstFrames(SampledFrames, m)
             retained == FirstFrames(RetainedFrames, m)
  <2>2. Prune(sampled) = retained
    BY <1>3
  <2>3. sampled \in Seq(FrameSet) /\ Frame(n) \in FrameSet /\ Frame(n).hash = content[n]
    BY <1>1, <2>1, FirstFramesShape, FrameTyped DEF Frame
  <2>4. /\ FirstFrames(SampledFrames, n) = IF n \in SampledFrames THEN Append(sampled, Frame(n)) ELSE sampled
        /\ FirstFrames(RetainedFrames, n) = IF n \in RetainedFrames THEN Append(retained, Frame(n)) ELSE retained
    <3>1. ASSUME NEW S
          PROVE  FirstFrames(S, n) = IF n \in S THEN Append(FirstFrames(S, n - 1), Frame(n))
                                     ELSE FirstFrames(S, n - 1)
      BY FirstFramesNext
    <3> QED BY <2>1, <3>1
  <2>5. CASE n \notin SampledFrames
    BY <1>1, <2>1, <2>2, <2>4, <2>5
  <2>6. CASE n \in SampledFrames
    <3>1. n \in RetainedFrames <=> Retain(retained, Frame(n).hash)
      BY <2>1, <2>3, <2>6, RetainExact
    <3>2. Prune(Append(sampled, Frame(n))) =
            IF Retain(Prune(sampled), Frame(n).hash) THEN Append(Prune(sampled), Frame(n)) ELSE Prune(sampled)
      BY <2>3, PruneFold
    <3> HIDE DEF sampled, retained
    <3>3. Prune(FirstFrames(SampledFrames, n)) = FirstFrames(RetainedFrames, n)
      BY <2>2, <2>4, <2>6, <3>1, <3>2
    <3> QED BY <2>1, <3>3
  <2> QED BY <2>5, <2>6
<1>4. \A m \in 0..N : m \in T
  <2> HIDE DEF T
  <2>1. T \in SUBSET (0..N)
    BY DEF T
  <2> HIDE DEF N
  <2> QED BY <1>1, <1>2, <1>3, <2>1, Induct
<1>5. N \in T
  <2> HIDE DEF T
  <2> QED BY <1>1, <1>4
<1> QED BY <1>5 DEF FramesOf

-----------------------------------------------------------------------------
(***************************************************************************)
(* The theorems about fingerprint_video.                                   *)
(***************************************************************************)

\* fingerprint_video runs the decoder as the decoder's own specification lets
\* it be run.
THEOREM DecoderWithin == SpecVideo => Init /\ [][Next]_vars
<1>1. InitVideo => Init
  BY DEF InitVideo
<1>2. [NextVideo]_allVars => [Next]_vars
  BY DecoderSteps
<1> QED BY <1>1, <1>2, PTL DEF SpecVideo

\* The invariant of the decoder and of the call that uses it.
THEOREM VideoInductive == SpecVideo => []VideoInv
<1>1. InitVideo => VideoInv
  <2> SUFFICES ASSUME InitVideo PROVE VideoInv
    OBVIOUS
  <2>1. Init /\ Len(<< >>) = 0 /\ received = << >> /\ pc = "open" /\ selected = NoTime /\ ~failed
        /\ outcome = "none" /\ step = "begin" /\ result = "none" /\ signature = << >>
    BY EmptySeq DEF InitVideo, Init
  <2>2. IInv
    BY <2>1, InitInv
  <2>3. Arguments
    BY DEF InitVideo, Arguments
  <2>4. Outcomes
    BY <2>1 DEF Outcomes, Constructing, Reading
  <2>s. \A i \in SampledFrames : i \in Nat /\ i > 0
    BY <2>2, ThinnedFrames DEF IInv
  <2>5. Selection
    BY <2>1, <2>s, FirstNext DEF Selection
  <2>6. Retention
    <3>1. Decided = 0
      BY <2>1 DEF Decided
    <3>2. FirstFrames(RetainedFrames, 0) = << >>
      BY <2>2, FirstFramesNext DEF IInv
    <3>3. 0 <= budget
      BY <2>3, FingerprintAssumption DEF Arguments
    <3> QED BY <2>1, <3>1, <3>2, <3>3 DEF Retention
  <2>7. SignatureExact
    BY <2>1 DEF SignatureExact
  <2> QED BY <2>2, <2>3, <2>4, <2>5, <2>6, <2>7 DEF VideoInv
<1>2. VideoInv /\ [NextVideo]_allVars => VideoInv'
  <2> SUFFICES ASSUME VideoInv, [NextVideo]_allVars PROVE VideoInv'
    OBVIOUS
  <2>1. [Next]_vars /\ UNCHANGED optionVars
    BY DecoderSteps
  <2>2. Arguments'
    <3>1. VideoFrames' = VideoFrames /\ UNCHANGED <<content, prune, budget>>
      BY <2>1, FileStays
    <3> QED BY <3>1 DEF VideoInv, Arguments
  <2>3. IInv'
    BY <2>1, StepInv DEF VideoInv
  <2> QED BY <2>1, <2>2, <2>3, OutcomesStep, SelectionStep, RetentionStep, SignatureStep DEF VideoInv
<1> QED BY <1>1, <1>2, PTL DEF SpecVideo

\* fingerprint_video: the signature, the budget and cancellation.
THEOREM SignatureReturned == SpecVideo => []SignatureExact
<1>1. VideoInv => SignatureExact
  BY DEF VideoInv
<1> QED BY <1>1, VideoInductive, PTL

\* prune_vpdq and pruning on the way keep the same frames.
THEOREM PruningAgrees == SpecVideo => []PruneAgrees
<1>1. VideoInv => PruneAgrees
  <2> SUFFICES ASSUME VideoInv, result = "signature"
               PROVE  Prune(FramesOf(SampledFrames)) = signature
    BY DEF PruneAgrees
  <2>1. signature = FramesOf(RetainedFrames)
    BY DEF VideoInv, SignatureExact
  <2>2. TypeOK /\ Arguments
    BY DEF VideoInv, IInv
  <2> QED BY <2>1, <2>2, PruneKeeps
<1> QED BY <1>1, VideoInductive, PTL
=============================================================================
