------------------------- MODULE ImageDecodeProofs -------------------------
(***************************************************************************)
(* Theorems about ImageDecode, for any number of threads, images and       *)
(* calls.                                                                  *)
(*                                                                         *)
(* What a call says of its image rests on the retry: the thread that holds *)
(* decoder_mutex exclusively is alone in libvips (Locks), so nothing       *)
(* disturbs it and no message of another decode is in the buffer it reads  *)
(* (CleanBuffer).  Passed says what a decode that has come so far has      *)
(* found of its image.                                                     *)
(***************************************************************************)
EXTENDS ImageDecode, TLAPS

State   == Native \cup {"idle", "initialize", "shared", "retry", "luma"}
Outcome == {"none", "image", "error", "canceled", "memory", "uninitialized"}

TypeOK ==
  /\ trouble \in [Image -> Trouble]
  /\ stop \in BOOLEAN
  /\ initialized \in BOOLEAN
  /\ readers \in SUBSET Thread
  /\ writer \in Thread \cup {Nobody}
  /\ buffer \in SUBSET Image
  /\ isolated \in [Thread -> BOOLEAN]
  /\ seen \in [Thread -> BOOLEAN]
  /\ pc \in [Thread -> State]
  /\ image \in [Thread -> Image]
  /\ outcome \in [Thread -> Outcome]
  /\ message \in [Thread -> SUBSET Image]
  /\ calls \in [Thread -> 0..MaxCalls]

\* Who is inside libvips holds decoder_mutex, and how: the exclusive owner is
\* alone.
Locks ==
  /\ \A t \in Thread :
       /\ writer = t <=> pc[t] \in Native /\ isolated[t]
       /\ t \in readers <=> pc[t] \in Native /\ ~isolated[t]
       /\ isolated[t] => pc[t] \in Native
  /\ writer # Nobody => readers = {}

CleanBuffer == \A t \in Thread : isolated[t] => buffer = {}

\* What the decode of a thread has passed, and what it has noted.
PassedBy(t) ==
  /\ pc[t] \in {"prepare", "evaluate"} => ~seen[t]
  /\ pc[t] \in {"evaluate", "check", "luma"} =>
       trouble[image[t]] \notin {"refused", "unloadable"}
  /\ pc[t] \in {"check", "luma"} => trouble[image[t]] # "damaged"
  /\ pc[t] = "check" => (seen[t] <=> trouble[image[t]] = "warns")
  /\ pc[t] = "luma" => trouble[image[t]] # "warns"
  /\ pc[t] # "idle" => outcome[t] = "none"

Passed == \A t \in Thread : PassedBy(t)

IInv == TypeOK /\ Locks /\ CleanBuffer /\ Passed /\ OwnDiagnostics /\ OwnVerdict

-----------------------------------------------------------------------------
(***************************************************************************)
(* Type correctness.                                                       *)
(***************************************************************************)
USE DEF Native, lockVars, vipsVars, answerVars

\* The variables that the lock, the flags and the answers are in.
ThreadTypes == /\ readers \in SUBSET Thread
               /\ writer \in Thread \cup {Nobody}
               /\ isolated \in [Thread -> BOOLEAN]
               /\ seen \in [Thread -> BOOLEAN]
               /\ pc \in [Thread -> State]
               /\ outcome \in [Thread -> Outcome]
               /\ message \in [Thread -> SUBSET Image]

LEMMA ThrowType ==
  ASSUME TypeOK, NEW t \in Thread, NEW about \in SUBSET Image, Throw(t, about)
  PROVE  ThreadTypes'
<1> USE DEF TypeOK, ThreadTypes, State, Outcome, Throw
<1>1. CASE isolated[t]
  <2>1. readers' \in SUBSET Thread /\ writer' \in Thread \cup {Nobody} /\ seen' = seen
    BY <1>1 DEF Answer
  <2>2. pc' \in [Thread -> State] /\ isolated' \in [Thread -> BOOLEAN]
    BY <1>1 DEF Answer, Goto
  <2>3. outcome' \in [Thread -> Outcome] /\ message' \in [Thread -> SUBSET Image]
    BY <1>1 DEF Answer
  <2> QED BY <2>1, <2>2, <2>3
<1>2. CASE ~isolated[t]
  BY <1>2 DEF Goto
<1> QED BY <1>1, <1>2

LEMMA TypeStep == TypeOK /\ [Next]_vars => TypeOK'
<1> SUFFICES ASSUME TypeOK, [Next]_vars PROVE TypeOK'
  OBVIOUS
<1> USE ImageAssumption DEF TypeOK, State, Outcome, Answer, Goto, Enter, Throw, FailNative
<1>1. CASE RequestStop
  BY <1>1 DEF RequestStop
<1>2. ASSUME NEW t \in Thread, NEW i \in Image, Call(t, i) PROVE TypeOK'
  <2>1. calls' \in [Thread -> 0..MaxCalls]
    BY <1>2 DEF Call
  <2>2. /\ pc' \in [Thread -> State] /\ image' \in [Thread -> Image]
        /\ outcome' \in [Thread -> Outcome] /\ message' \in [Thread -> SUBSET Image]
    BY <1>2 DEF Call
  <2> QED BY <1>2, <2>1, <2>2 DEF Call
<1>3. ASSUME NEW t \in Thread, Step(t) PROVE TypeOK'
  <2>1. CASE Initialize(t)
    BY <2>1 DEF Initialize
  <2>2. CASE LockShared(t)
    BY <2>2 DEF LockShared
  <2>3. CASE LockExclusive(t)
    BY <2>3 DEF LockExclusive
  <2>4. CASE Prepare(t)
    <3> HIDE DEF Throw
    <3>1. ASSUME NEW about \in SUBSET Image, Throw(t, about), buffer' \in SUBSET Image
          PROVE  TypeOK'
      BY <2>4, <3>1, ThrowType DEF Prepare, ThreadTypes
    <3>2. CASE FailNative(t)
      <4>1. buffer' \in SUBSET Image
        BY <3>2
      <4> QED BY <3>1, <3>2, <4>1
    <3>3. CASE Throw(t, {}) /\ UNCHANGED buffer
      BY <3>1, <3>3
    <3>4. CASE ~FailNative(t) /\ ~Throw(t, {})
      BY <2>4, <3>4 DEF Prepare
    <3> QED BY <2>4, <3>2, <3>3, <3>4 DEF Prepare
  <2>5. CASE Evaluate(t)
    <3> HIDE DEF Throw
    <3>1. ASSUME NEW about \in SUBSET Image, Throw(t, about), buffer' \in SUBSET Image
          PROVE  TypeOK'
      BY <2>5, <3>1, ThrowType DEF Evaluate, ThreadTypes
    <3>2. CASE FailNative(t)
      <4>1. buffer' \in SUBSET Image
        BY <3>2
      <4> QED BY <3>1, <3>2, <4>1
    <3>3. CASE Throw(t, {}) /\ UNCHANGED buffer
      BY <3>1, <3>3
    <3>4. CASE ~FailNative(t) /\ ~Throw(t, {})
      BY <2>5, <3>4 DEF Evaluate
    <3> QED BY <2>5, <3>2, <3>3, <3>4 DEF Evaluate
  <2>6. CASE CheckWarnings(t)
    BY <2>6 DEF CheckWarnings
  <2>7. CASE ReadLuma(t)
    BY <2>7 DEF ReadLuma
  <2>8. CASE Cancelled(t)
    BY <2>8 DEF Cancelled
  <2>9. CASE OutOfMemory(t)
    BY <2>9 DEF OutOfMemory
  <2> QED BY <1>3, <2>1, <2>2, <2>3, <2>4, <2>5, <2>6, <2>7, <2>8, <2>9 DEF Step
<1>4. CASE UNCHANGED vars
  BY <1>4 DEF vars
<1> QED BY <1>1, <1>2, <1>3, <1>4 DEF Next, Quiet

-----------------------------------------------------------------------------
(***************************************************************************)
(* The lock and the buffer.                                                *)
(***************************************************************************)

\* The thread that decodes by the exclusive lock is alone in libvips.
LEMMA Alone ==
  ASSUME TypeOK, Locks, NEW t \in Thread, NEW u \in Thread, isolated[t], u # t
  PROVE  pc[u] \notin Native
  BY ImageAssumption DEF TypeOK, Locks

\* A step of a thread concerns no other.
LEMMA StepFrame ==
  ASSUME TypeOK, NEW t \in Thread, Step(t) \/ \E i \in Image : Call(t, i),
         NEW u \in Thread, u # t
  PROVE  /\ pc'[u] = pc[u] /\ isolated'[u] = isolated[u] /\ seen'[u] = seen[u]
         /\ image'[u] = image[u] /\ outcome'[u] = outcome[u] /\ message'[u] = message[u]
         /\ u \in readers' <=> u \in readers
         /\ trouble' = trouble
  BY DEF Step, Call, Initialize, LockShared, LockExclusive, Prepare, Evaluate, CheckWarnings, ReadLuma, Cancelled, OutOfMemory, Answer, Goto, Enter, Throw, FailNative, TypeOK

LEMMA LocksStep == TypeOK /\ Locks /\ [Next]_vars => Locks'
<1> SUFFICES ASSUME TypeOK, Locks, [Next]_vars PROVE Locks'
  OBVIOUS
<1>1. CASE RequestStop \/ UNCHANGED vars
  BY <1>1 DEF RequestStop, vars, Locks
<1>2. ASSUME NEW t \in Thread, Step(t) \/ \E i \in Image : Call(t, i)
      PROVE  Locks'
  <2>1. /\ writer' \in {writer, t, Nobody}
        /\ writer' = Nobody => writer \in {Nobody, t}
        /\ writer' = t => writer \in {Nobody, t}
    BY <1>2 DEF Step, Call, Initialize, LockShared, LockExclusive, Prepare, Evaluate, CheckWarnings, ReadLuma, Cancelled, OutOfMemory, Answer, Enter, Throw, FailNative
  <2>2. ASSUME NEW u \in Thread, u # t
        PROVE  /\ writer' = u <=> pc'[u] \in Native /\ isolated'[u]
               /\ u \in readers' <=> pc'[u] \in Native /\ ~isolated'[u]
               /\ isolated'[u] => pc'[u] \in Native
    <3>1. writer' = u <=> writer = u
      BY <2>1, <2>2, ImageAssumption
    <3> QED BY <1>2, <2>2, <3>1, StepFrame DEF Locks
  <2>3. /\ writer' = t <=> pc'[t] \in Native /\ isolated'[t]
        /\ t \in readers' <=> pc'[t] \in Native /\ ~isolated'[t]
        /\ isolated'[t] => pc'[t] \in Native
        /\ writer' # Nobody => readers' = {}
    <3>1. TypeOK'
      BY <1>2, TypeStep DEF Next
    <3> USE ImageAssumption DEF Locks, TypeOK, State, Answer, Goto, Enter, Throw, FailNative
    <3>2. CASE \E i \in Image : Call(t, i)
      BY <3>2 DEF Call
    <3>3. CASE Initialize(t)
      BY <3>3 DEF Initialize
    <3>4. CASE LockShared(t)
      BY <3>4 DEF LockShared
    <3>5. CASE LockExclusive(t)
      BY <3>5 DEF LockExclusive
    <3>6. CASE Prepare(t)
      BY <3>6 DEF Prepare
    <3>7. CASE Evaluate(t)
      BY <3>7 DEF Evaluate
    <3>8. CASE CheckWarnings(t)
      BY <3>8 DEF CheckWarnings
    <3>9. CASE ReadLuma(t)
      BY <3>9 DEF ReadLuma
    <3>10. CASE Cancelled(t)
      BY <3>10 DEF Cancelled
    <3>11. CASE OutOfMemory(t)
      BY <3>11 DEF OutOfMemory
    <3> QED BY <1>2, <3>2, <3>3, <3>4, <3>5, <3>6, <3>7, <3>8, <3>9, <3>10, <3>11 DEF Step
  <2> QED BY <2>2, <2>3 DEF Locks
<1> QED BY <1>1, <1>2 DEF Next, Quiet

LEMMA CleanBufferStep ==
  TypeOK /\ Locks /\ CleanBuffer /\ [Next]_vars => CleanBuffer'
<1> SUFFICES ASSUME TypeOK, Locks, CleanBuffer, [Next]_vars PROVE CleanBuffer'
  OBVIOUS
<1>1. CASE RequestStop \/ UNCHANGED vars
  BY <1>1 DEF RequestStop, vars, CleanBuffer
<1>2. ASSUME NEW t \in Thread, Step(t) \/ \E i \in Image : Call(t, i)
      PROVE  CleanBuffer'
  <2>1. \/ UNCHANGED buffer
        \/ LockExclusive(t) /\ buffer' = {}
        \/ pc[t] \in Native /\ ~isolated'[t]
    <3>1. CASE FailNative(t) /\ pc[t] \in Native
      BY <3>1 DEF FailNative, Throw, Answer, TypeOK
    <3>2. CASE Cancelled(t)
      BY <3>2 DEF Cancelled, Answer, TypeOK
    <3>3. CASE LockExclusive(t)
      BY <3>3 DEF LockExclusive
    <3>4. CASE ~FailNative(t) /\ ~Cancelled(t) /\ ~LockExclusive(t)
      BY <1>2, <3>4 DEF Step, Call, Initialize, LockShared, Prepare, Evaluate, CheckWarnings, ReadLuma, OutOfMemory
    <3>5. FailNative(t) => pc[t] \in Native \/ UNCHANGED buffer \/ LockExclusive(t)
      BY <1>2 DEF Step, Call, Initialize, LockShared, Prepare, Evaluate, CheckWarnings, ReadLuma, OutOfMemory, Cancelled
    <3> QED BY <3>1, <3>2, <3>3, <3>4, <3>5
  <2>2. isolated'[t] => isolated[t] \/ (LockExclusive(t) /\ buffer' = {})
    <3>1. CASE LockExclusive(t)
      BY <3>1 DEF LockExclusive, Answer, TypeOK
    <3>2. CASE ~LockExclusive(t)
      <4>1. \/ UNCHANGED isolated
            \/ isolated' = [isolated EXCEPT ![t] = FALSE]
        BY <1>2, <3>2 DEF Step, Call, Initialize, LockShared, Prepare, Evaluate, CheckWarnings, ReadLuma, Cancelled, OutOfMemory, Answer, Enter, Throw, FailNative
      <4>2. isolated \in [Thread -> BOOLEAN]
        BY DEF TypeOK
      <4>3. isolated' = isolated \/ ~isolated'[t]
        BY <4>1, <4>2
      <4> QED BY <4>3, Zenon
    <3> QED BY <3>1, <3>2
  <2>3. \A u \in Thread : u # t => isolated'[u] = isolated[u]
    BY <1>2, StepFrame
  <2> QED BY <2>1, <2>2, <2>3, Alone DEF CleanBuffer
<1> QED BY <1>1, <1>2 DEF Next, Quiet

-----------------------------------------------------------------------------
(***************************************************************************)
(* What the calls answer.                                                  *)
(***************************************************************************)
LEMMA ThrowEffect ==
  ASSUME TypeOK, NEW t \in Thread, NEW about, Throw(t, about), outcome[t] = "none"
  PROVE  \/ /\ isolated[t] /\ pc'[t] = "idle"
            /\ outcome'[t] = "error" /\ message'[t] = about
         \/ /\ ~isolated[t] /\ pc'[t] = "retry"
            /\ outcome'[t] = "none"
  BY DEF Throw, Answer, Goto, TypeOK

\* A decode alone in libvips fails for what its own image is, and says so.
LEMMA FailNativeEffect ==
  ASSUME IInv, NEW t \in Thread, FailNative(t), pc[t] \in Native,
         \/ trouble[image[t]] \in {"unloadable", "damaged"}
         \/ Disturbed(t)
  PROVE  \/ /\ pc'[t] = "idle" /\ outcome'[t] = "error"
            /\ message'[t] = {image[t]}
            /\ trouble[image[t]] \in {"unloadable", "damaged"}
         \/ pc'[t] = "retry" /\ outcome'[t] = "none"
<1>1. outcome[t] = "none"
  BY DEF IInv, Passed, PassedBy, Native
<1>2. CASE isolated[t]
  <2>1. ~Disturbed(t)
    BY <1>2, Alone DEF Disturbed, IInv
  <2>2. buffer' = {image[t]}
    BY <1>2 DEF FailNative, IInv, CleanBuffer
  <2> QED BY <1>1, <1>2, <2>1, <2>2, ThrowEffect DEF FailNative, IInv
<1>3. CASE ~isolated[t]
  BY <1>1, <1>3, ThrowEffect DEF FailNative, IInv
<1> QED BY <1>2, <1>3

LEMMA VerdictStep ==
  IInv /\ [Next]_vars => Passed' /\ OwnDiagnostics' /\ OwnVerdict'
<1> SUFFICES ASSUME IInv, [Next]_vars PROVE Passed' /\ OwnDiagnostics' /\ OwnVerdict'
  OBVIOUS
<1> DEFINE Diagnosed(u) ==
             outcome[u] = "error" =>
               message[u] = IF trouble[image[u]] \in {"unloadable", "damaged"}
                              THEN {image[u]} ELSE {}
           Judged(u) ==
             /\ outcome[u] = "image" => trouble[image[u]] \in {"none", "pool"}
             /\ outcome[u] = "error" => trouble[image[u]] \notin {"none", "pool"}
<1>1. CASE RequestStop \/ UNCHANGED vars
  BY <1>1 DEF RequestStop, vars, IInv, Passed, PassedBy, OwnDiagnostics, OwnVerdict
<1>2. ASSUME NEW t \in Thread, Step(t) \/ \E i \in Image : Call(t, i)
      PROVE  Passed' /\ OwnDiagnostics' /\ OwnVerdict'
  <2>1. ASSUME NEW u \in Thread, u # t
        PROVE  PassedBy(u)' /\ Diagnosed(u)' /\ Judged(u)'
    BY <1>2, <2>1, StepFrame DEF IInv, Passed, PassedBy, OwnDiagnostics, OwnVerdict
  <2>2. PassedBy(t)' /\ Diagnosed(t)' /\ Judged(t)'
    <3>1. /\ PassedBy(t)
          /\ trouble[image[t]] \in Troubles
      BY ImageAssumption DEF IInv, TypeOK, Passed
    <3>2. CASE \E i \in Image : Call(t, i)
      BY <3>2 DEF Call, Answer, Goto, IInv, TypeOK, PassedBy
    <3>3. CASE Initialize(t)
      BY <3>1, <3>3 DEF Initialize, Answer, Goto, IInv, TypeOK, PassedBy
    <3>4. CASE LockShared(t)
      BY <3>1, <3>4 DEF LockShared, Enter, Answer, Goto, IInv, TypeOK, PassedBy
    <3>5. CASE LockExclusive(t)
      BY <3>1, <3>5 DEF LockExclusive, Enter, Answer, Goto, IInv, TypeOK, PassedBy
    <3>6. CASE Prepare(t)
      <4>1. outcome[t] = "none" /\ ~seen[t] /\ UNCHANGED <<trouble, image>>
        BY <3>1, <3>6 DEF Prepare, PassedBy
      <4>2. CASE Goto(t, "evaluate") /\ UNCHANGED answerVars /\ UNCHANGED seen
                 /\ ~RefusedByHeader(image[t]) /\ trouble[image[t]] # "unloadable"
        BY <4>1, <4>2 DEF Goto, RefusedByHeader, IInv, TypeOK, PassedBy
      <4>3. CASE FailNative(t) /\ (trouble[image[t]] = "unloadable" \/ Disturbed(t))
        BY <3>6, <4>1, <4>3, FailNativeEffect DEF Prepare, PassedBy
      <4>4. CASE Throw(t, {}) /\ (RefusedByHeader(image[t]) \/ WarnedInHeader(image[t]))
        BY <4>1, <4>4, ThrowEffect DEF RefusedByHeader, WarnedInHeader, IInv, PassedBy
      <4> QED BY <3>6, <4>2, <4>3, <4>4 DEF Prepare
    <3>7. CASE Evaluate(t)
      <4>1. outcome[t] = "none" /\ ~seen[t] /\ UNCHANGED <<trouble, image>>
            /\ trouble[image[t]] \notin {"refused", "unloadable"}
        BY <3>1, <3>7 DEF Evaluate, PassedBy
      <4>2. CASE /\ trouble[image[t]] # "damaged"
                 /\ seen' = [seen EXCEPT ![t] = @ \/ trouble[image[t]] = "warns"]
                 /\ Goto(t, "check") /\ UNCHANGED answerVars
        BY <4>1, <4>2 DEF Goto, IInv, TypeOK, PassedBy
      <4>3. CASE FailNative(t) /\ (trouble[image[t]] = "damaged" \/ Disturbed(t))
        BY <3>7, <4>1, <4>3, FailNativeEffect DEF Evaluate, PassedBy
      <4> QED BY <3>7, <4>2, <4>3 DEF Evaluate
    <3>8. CASE CheckWarnings(t)
      <4>1. outcome[t] = "none" /\ UNCHANGED <<trouble, image>>
            /\ (seen[t] <=> trouble[image[t]] = "warns")
        BY <3>1, <3>8 DEF CheckWarnings, PassedBy
      <4>2. CASE seen[t]
        BY <3>8, <4>1, <4>2, ThrowEffect DEF CheckWarnings, IInv, PassedBy
      <4>3. CASE ~seen[t]
        BY <3>1, <3>8, <4>1, <4>3 DEF CheckWarnings, Goto, IInv, TypeOK, PassedBy
      <4> QED BY <4>2, <4>3
    <3>9. CASE ReadLuma(t)
      BY <3>1, <3>9 DEF ReadLuma, Answer, Goto, IInv, TypeOK, PassedBy, Troubles
    <3>10. CASE Cancelled(t)
      BY <3>1, <3>10 DEF Cancelled, Answer, Goto, IInv, TypeOK, PassedBy
    <3>11. CASE OutOfMemory(t)
      BY <3>1, <3>11 DEF OutOfMemory, Answer, Goto, IInv, TypeOK, PassedBy
    <3> QED BY <1>2, <3>2, <3>3, <3>4, <3>5, <3>6, <3>7, <3>8, <3>9, <3>10, <3>11 DEF Step
  <2> QED BY <2>1, <2>2 DEF Passed, OwnDiagnostics, OwnVerdict
<1> QED BY <1>1, <1>2 DEF Next, Quiet

-----------------------------------------------------------------------------
(***************************************************************************)
(* The theorems.                                                           *)
(***************************************************************************)
THEOREM Inductive == Spec => []IInv
<1>1. Init => IInv
  <2> SUFFICES ASSUME Init PROVE IInv
    OBVIOUS
  <2>1. TypeOK
    <3>1. calls \in [Thread -> 0..MaxCalls]
      BY ImageAssumption DEF Init
    <3>2. /\ pc \in [Thread -> State] /\ outcome \in [Thread -> Outcome]
          /\ message \in [Thread -> SUBSET Image]
      BY DEF Init, State, Outcome
    <3>3. isolated \in [Thread -> BOOLEAN] /\ seen \in [Thread -> BOOLEAN]
      BY DEF Init
    <3> QED BY <3>1, <3>2, <3>3 DEF Init, TypeOK
  <2>2. Locks
    BY ImageAssumption DEF Init, Locks
  <2>3. CleanBuffer /\ Passed
    BY DEF Init, CleanBuffer, Passed, PassedBy
  <2>4. OwnDiagnostics /\ OwnVerdict
    BY DEF Init, OwnDiagnostics, OwnVerdict
  <2> QED BY <2>1, <2>2, <2>3, <2>4 DEF IInv
<1>2. IInv /\ [Next]_vars => IInv'
  BY TypeStep, LocksStep, CleanBufferStep, VerdictStep DEF IInv
<1> QED BY <1>1, <1>2, PTL DEF Spec

\* The messages of an error are those about the image of the call, however
\* many other decodes fail at the same time.
THEOREM DiagnosticsOwn == Spec => []OwnDiagnostics
<1>1. IInv => OwnDiagnostics
  BY DEF IInv
<1> QED BY <1>1, Inductive, PTL

\* An image is decoded or rejected for what it is.
THEOREM VerdictOwn == Spec => []OwnVerdict
<1>1. IInv => OwnVerdict
  BY DEF IInv
<1> QED BY <1>1, Inductive, PTL

\* While a thread retries a decode no other thread is inside libvips.
RetryAlone ==
  \A t, u \in Thread : isolated[t] /\ u # t => pc[u] \notin Native

THEOREM RetryExclusive == Spec => []RetryAlone
<1>1. IInv => RetryAlone
  BY Alone DEF IInv, RetryAlone
<1> QED BY <1>1, Inductive, PTL
=============================================================================
