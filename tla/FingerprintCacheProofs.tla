----------------------- MODULE FingerprintCacheProofs -----------------------
(***************************************************************************)
(* Proofs about FingerprintCache, for any number of threads, keys, staging *)
(* names, calls and faults.                                                *)
(***************************************************************************)
EXTENDS FingerprintCache, TLAPS

\* A store has a name as long as it has a directory, and no call at another
\* position has one.
Working == {"create", "keys", "bytes", "lockStore", "publish", "clean"}

Staging ==
  \A c \in Client :
    /\ name[c] # NoName <=> pc[c] \in Working
    /\ name[c] # NoName => stage[name[c]] # Absent

\* A file that is open has been found.
Reading ==
  \A c \in Client : pc[c] \in {"read", "verify"} => input[c] \in FileContent

\* On Windows whoever looks at the entries or replaces one holds the lock.
Locking ==
  windows => \A c \in Client : pc[c] \in {"status", "open", "read", "publish"} => mutex = c

IInv == TypeOK /\ Staging /\ StagingExclusive /\ Reading /\ Locking /\ OnlyCrashLeaks

-----------------------------------------------------------------------------
USE DEF At, Goto, Give, FaultHappens, Unlocked, callVars, workVars, countVars

\* The idle call's arguments are arguments.
LEMMA Defaults == AKey \in Key /\ AValue \in Value
BY CacheAssumption DEF AKey, AValue

\* What the model of a file is.
LEMMA RecordType ==
  ASSUME NEW k \in Key, NEW v \in Value, NEW n \in 0..2
  PROVE  Record(k, v, n) \in FileContent
BY DEF Record, FileContent

LEMMA Initially == Init => IInv
<1> SUFFICES ASSUME Init PROVE IInv
  OBVIOUS
<1> USE CacheAssumption, Defaults DEF Init
<1>1. TypeOK
  BY DEF TypeOK
<1>2. Staging
  BY DEF Staging, Working
<1>3. StagingExclusive
  BY DEF StagingExclusive
<1>4. Reading /\ Locking
  BY DEF Reading, Locking
<1>5. OnlyCrashLeaks
  BY DEF OnlyCrashLeaks
<1> QED BY <1>1, <1>2, <1>3, <1>4, <1>5 DEF IInv

\* Type correctness of the steps; the writes need to know whose file they write.
LEMMA TypeStep == IInv /\ [Next]_vars => TypeOK'
<1> SUFFICES ASSUME IInv, [Next]_vars PROVE TypeOK'
  OBVIOUS
<1> USE CacheAssumption, Defaults DEF IInv, TypeOK, LoadSteps, StoreSteps
<1>1. CASE UNCHANGED vars
  BY <1>1 DEF vars
<1>2. ASSUME NEW c \in Client, NEW o \in {"load", "store"}, NEW k \in Key, NEW v \in Value,
             Invoke(c, o, k, v)
      PROVE  TypeOK'
  BY <1>2 DEF Invoke
<1>3. ASSUME NEW c \in Client, Run(c) PROVE TypeOK'
  <2>1. CASE Lock(c)
    BY <2>1 DEF Lock
  <2>2. CASE Status(c)
    BY <2>2 DEF Status
  <2>3. CASE OpenInput(c)
    BY <2>3 DEF OpenInput
  <2>4. CASE ReadInput(c)
    BY <2>4 DEF ReadInput
  <2>5. CASE Verify(c)
    <3>1. input[c] \in FileContent
      BY <2>5 DEF Verify, Reading
    <3>2. input[c].value \in Value
      BY <3>1 DEF FileContent
    <3> QED BY <2>5, <3>2 DEF Verify
  <2>6. CASE Leave(c)
    BY <2>6 DEF Leave, Ends
  <2>7. CASE MakeDirectory(c)
    BY <2>7 DEF MakeDirectory
  <2>8. CASE StoreFails(c)
    BY <2>8 DEF StoreFails
  <2>9. CASE CreateOutput(c)
    <3>1. Record(key[c], value[c], 0) \in FileContent
      BY RecordType
    <3> QED BY <2>9, <3>1 DEF CreateOutput
  <2>10. CASE WriteKeys(c)
    <3>1. name[c] \in Name /\ stage[name[c]] = Record(key[c], value[c], 0)
      BY <2>10 DEF WriteKeys, Staging, Working, StagingExclusive
    <3>2. [stage[name[c]] EXCEPT !.parts = 1] \in FileContent
      BY <3>1 DEF Record, FileContent
    <3> QED BY <2>10, <3>1, <3>2 DEF WriteKeys
  <2>11. CASE WriteBytes(c)
    <3>1. name[c] \in Name /\ stage[name[c]] = Record(key[c], value[c], 1)
      BY <2>11 DEF WriteBytes, Staging, Working, StagingExclusive
    <3>2. [stage[name[c]] EXCEPT !.parts = 2] \in FileContent
      BY <3>1 DEF Record, FileContent
    <3> QED BY <2>11, <3>1, <3>2 DEF WriteBytes
  <2>12. CASE Publish(c)
    <3>1. name[c] \in Name /\ stage[name[c]] = Record(key[c], value[c], 2)
      BY <2>12 DEF Publish, Staging, Working, StagingExclusive
    <3>2. stage[name[c]] \in FileContent
      BY <3>1, RecordType
    <3> QED BY <2>12, <3>1, <3>2 DEF Publish
  <2>13. CASE Clean(c)
    <3>1. name[c] \in Name
      BY <2>13 DEF Clean, Staging, Working
    <3> QED BY <2>13, <3>1 DEF Clean, Ends
  <2> QED BY <1>3, <2>1, <2>2, <2>3, <2>4, <2>5, <2>6, <2>7, <2>8, <2>9,
             <2>10, <2>11, <2>12, <2>13 DEF Run
<1>4. CASE Crash
  BY <1>4 DEF Crash
<1>5. ASSUME NEW k \in Key, Disturb(k) PROVE TypeOK'
  <2>1. \A j \in Key, n \in 0..2 : Record(j, AValue, n) \in FileContent
    BY RecordType
  <2> QED BY <1>5, <2>1 DEF Disturb
<1>6. CASE Quiet
  BY <1>1, <1>6 DEF Quiet
<1> QED BY <1>1, <1>2, <1>3, <1>4, <1>5, <1>6 DEF Next

-----------------------------------------------------------------------------
\* A name is taken only when no directory has it, so never one that works.
LEMMA StagingStep == IInv /\ [Next]_vars => Staging' /\ StagingExclusive'
<1> SUFFICES ASSUME IInv, [Next]_vars PROVE Staging' /\ StagingExclusive'
  OBVIOUS
<1> USE CacheAssumption DEF IInv, TypeOK, Staging, StagingExclusive, Working
<1>1. CASE UNCHANGED vars
  BY <1>1 DEF vars
<1>2. ASSUME NEW c \in Client, NEW o \in {"load", "store"}, NEW k \in Key, NEW v \in Value,
             Invoke(c, o, k, v)
      PROVE  Staging' /\ StagingExclusive'
  BY <1>2 DEF Invoke
<1>3. ASSUME NEW c \in Client, Run(c) PROVE Staging' /\ StagingExclusive'
  <2>1. CASE Lock(c)
    BY <2>1 DEF Lock
  <2>2. CASE Status(c) \/ OpenInput(c) \/ ReadInput(c) \/ Verify(c)
    BY <2>2 DEF Status, OpenInput, ReadInput, Verify
  <2>3. CASE Leave(c)
    BY <2>3 DEF Leave, Ends
  <2>4. CASE MakeDirectory(c)
    <3>1. CASE UNCHANGED name
      BY <2>4, <3>1 DEF MakeDirectory
    <3>2. CASE ~UNCHANGED name
      <4>1. PICK n \in Name : /\ stage[n] = Absent
                              /\ stage' = [stage EXCEPT ![n] = Empty]
                              /\ name' = [name EXCEPT ![c] = n]
                              /\ pc' = [pc EXCEPT ![c] = "create"]
                              /\ UNCHANGED <<key, value>>
        BY <2>4, <3>2 DEF MakeDirectory
      <4>2. \A d \in Client : name[d] # n
        BY <4>1
      <4> QED BY <4>1, <4>2
    <3> QED BY <3>1, <3>2
  <2>5. CASE StoreFails(c)
    BY <2>5 DEF StoreFails
  <2>6. CASE CreateOutput(c)
    <3>1. Record(key[c], value[c], 0) # Absent
      BY RecordType
    <3> QED BY <2>6, <3>1 DEF CreateOutput
  <2>7. CASE WriteKeys(c)
    <3>0. stage[name[c]] = Record(key[c], value[c], 0)
      BY <2>7 DEF WriteKeys
    <3>1. [stage[name[c]] EXCEPT !.parts = 1] = Record(key[c], value[c], 1)
      BY <3>0 DEF Record
    <3>2. Record(key[c], value[c], 1) # Absent
      BY RecordType
    <3> QED BY <2>7, <3>1, <3>2 DEF WriteKeys
  <2>8. CASE WriteBytes(c)
    <3>0. stage[name[c]] = Record(key[c], value[c], 1)
      BY <2>8 DEF WriteBytes
    <3>1. [stage[name[c]] EXCEPT !.parts = 2] = Record(key[c], value[c], 2)
      BY <3>0 DEF Record
    <3>2. Record(key[c], value[c], 2) # Absent
      BY RecordType
    <3> QED BY <2>8, <3>1, <3>2 DEF WriteBytes
  <2>9. CASE Publish(c)
    BY <2>9 DEF Publish
  <2>10. CASE Clean(c)
    BY <2>10 DEF Clean, Ends
  <2> QED BY <1>3, <2>1, <2>2, <2>3, <2>4, <2>5, <2>6, <2>7, <2>8, <2>9, <2>10 DEF Run
<1>4. CASE Crash
  BY <1>4 DEF Crash
<1>5. ASSUME NEW k \in Key, Disturb(k) PROVE Staging' /\ StagingExclusive'
  BY <1>5 DEF Disturb
<1>6. CASE Quiet
  BY <1>1, <1>6 DEF Quiet
<1> QED BY <1>1, <1>2, <1>3, <1>4, <1>5, <1>6, Defaults DEF Next

LEMMA ReadingStep == IInv /\ [Next]_vars => Reading'
<1> SUFFICES ASSUME IInv, [Next]_vars PROVE Reading'
  OBVIOUS
<1> USE CacheAssumption DEF IInv, TypeOK, Reading
<1>1. CASE UNCHANGED vars
  BY <1>1 DEF vars
<1>2. ASSUME NEW c \in Client, NEW o \in {"load", "store"}, NEW k \in Key, NEW v \in Value,
             Invoke(c, o, k, v)
      PROVE  Reading'
  BY <1>2 DEF Invoke
<1>3. ASSUME NEW c \in Client, Run(c) PROVE Reading'
  <2>1. CASE Lock(c) \/ Status(c)
    BY <2>1 DEF Lock, Status
  <2>2. CASE OpenInput(c) \/ ReadInput(c) \/ Verify(c)
    BY <2>2 DEF OpenInput, ReadInput, Verify
  <2>3. CASE Leave(c) \/ Clean(c)
    BY <2>3 DEF Leave, Clean, Ends
  <2>4. CASE MakeDirectory(c)
    BY <2>4 DEF MakeDirectory
  <2>5. CASE StoreFails(c) \/ CreateOutput(c) \/ WriteKeys(c) \/ WriteBytes(c) \/ Publish(c)
    BY <2>5 DEF StoreFails, CreateOutput, WriteKeys, WriteBytes, Publish
  <2> QED BY <1>3, <2>1, <2>2, <2>3, <2>4, <2>5 DEF Run
<1>4. CASE Crash
  BY <1>4 DEF Crash
<1>5. ASSUME NEW k \in Key, Disturb(k) PROVE Reading'
  BY <1>5 DEF Disturb
<1>6. CASE Quiet
  BY <1>1, <1>6 DEF Quiet
<1> QED BY <1>1, <1>2, <1>3, <1>4, <1>5, <1>6, Defaults DEF Next

\* Only the owner releases the lock, and looks at no entry afterwards.
LEMMA LockingStep == IInv /\ [Next]_vars => Locking'
<1> SUFFICES ASSUME IInv, [Next]_vars PROVE Locking'
  OBVIOUS
<1> USE CacheAssumption DEF IInv, TypeOK, Locking
<1>1. CASE UNCHANGED vars
  BY <1>1 DEF vars
<1>2. ASSUME NEW c \in Client, NEW o \in {"load", "store"}, NEW k \in Key, NEW v \in Value,
             Invoke(c, o, k, v)
      PROVE  Locking'
  BY <1>2 DEF Invoke
<1>3. ASSUME NEW c \in Client, Run(c) PROVE Locking'
  <2>1. CASE Lock(c) \/ Status(c)
    BY <2>1 DEF Lock, Status
  <2>2. CASE OpenInput(c) \/ ReadInput(c) \/ Verify(c)
    BY <2>2 DEF OpenInput, ReadInput, Verify
  <2>3. CASE Leave(c) \/ Clean(c)
    BY <2>3 DEF Leave, Clean, Ends
  <2>4. CASE MakeDirectory(c)
    BY <2>4 DEF MakeDirectory
  <2>5. CASE StoreFails(c) \/ CreateOutput(c) \/ WriteKeys(c) \/ WriteBytes(c) \/ Publish(c)
    BY <2>5 DEF StoreFails, CreateOutput, WriteKeys, WriteBytes, Publish
  <2> QED BY <1>3, <2>1, <2>2, <2>3, <2>4, <2>5 DEF Run
<1>4. CASE Crash
  BY <1>4 DEF Crash
<1>5. ASSUME NEW k \in Key, Disturb(k) PROVE Locking'
  BY <1>5 DEF Disturb
<1>6. CASE Quiet
  BY <1>1, <1>6 DEF Quiet
<1> QED BY <1>1, <1>2, <1>3, <1>4, <1>5, <1>6, Defaults DEF Next

LEMMA LeaksStep == IInv /\ [Next]_vars => OnlyCrashLeaks'
<1> SUFFICES ASSUME IInv, [Next]_vars PROVE OnlyCrashLeaks'
  OBVIOUS
<1> USE CacheAssumption DEF IInv, TypeOK, OnlyCrashLeaks
<1>1. CASE UNCHANGED vars
  BY <1>1 DEF vars
<1>2. ASSUME NEW c \in Client, NEW o \in {"load", "store"}, NEW k \in Key, NEW v \in Value,
             Invoke(c, o, k, v)
      PROVE  OnlyCrashLeaks'
  BY <1>2 DEF Invoke
<1>3. ASSUME NEW c \in Client, Run(c) PROVE OnlyCrashLeaks'
  <2>1. CASE Lock(c) \/ Status(c) \/ OpenInput(c) \/ ReadInput(c) \/ Verify(c) \/ StoreFails(c)
    BY <2>1 DEF Lock, Status, OpenInput, ReadInput, Verify, StoreFails
  <2>2. CASE Leave(c)
    BY <2>2 DEF Leave, Ends, Staging, Working
  <2>3. CASE MakeDirectory(c)
    BY <2>3 DEF MakeDirectory, Staging, Working
  <2>4. CASE CreateOutput(c) \/ WriteKeys(c) \/ WriteBytes(c) \/ Publish(c)
    BY <2>4 DEF CreateOutput, WriteKeys, WriteBytes, Publish, Staging, Working
  <2>5. CASE Clean(c)
    BY <2>5 DEF Clean, Ends, Staging, Working
  <2> QED BY <1>3, <2>1, <2>2, <2>3, <2>4, <2>5 DEF Run
<1>4. CASE Crash
  BY <1>4 DEF Crash
<1>5. ASSUME NEW k \in Key, Disturb(k) PROVE OnlyCrashLeaks'
  BY <1>5 DEF Disturb
<1>6. CASE Quiet
  BY <1>1, <1>6 DEF Quiet
<1> QED BY <1>1, <1>2, <1>3, <1>4, <1>5, <1>6, Defaults DEF Next

THEOREM Inductive == Spec => []IInv
<1>1. IInv /\ [Next]_vars => IInv'
  BY TypeStep, StagingStep, ReadingStep, LockingStep, LeaksStep DEF IInv
<1> QED BY Initially, <1>1, PTL DEF Spec

-----------------------------------------------------------------------------
\* Every variable keeps its range.
THEOREM TypeCorrect == Spec => []TypeOK
<1>1. IInv => TypeOK
  BY DEF IInv
<1> QED BY Inductive, <1>1, PTL

\* What a store renames over an entry is what it has written itself.
THEOREM ExclusiveStaging == Spec => []StagingExclusive
<1>1. IInv => StagingExclusive
  BY DEF IInv
<1> QED BY Inductive, <1>1, PTL

\* No rename meets an open reader, however many threads load and store.
THEOREM RenameMeetsNoReader == Spec => []NoSharingViolation
<1>1. IInv => NoSharingViolation
  BY DEF IInv, Locking, NoSharingViolation, SharingViolation
<1> QED BY Inductive, <1>1, PTL

\* Stores leave no staging directory behind but by a crash or a failed removal.
THEOREM StoresCleanUp == Spec => []OnlyCrashLeaks
<1>1. IInv => OnlyCrashLeaks
  BY DEF IInv
<1> QED BY Inductive, <1>1, PTL

-----------------------------------------------------------------------------
(***************************************************************************)
(* The files are an atomic map.                                            *)
(***************************************************************************)
Calling ==
  \A c \in Client :
    /\ pc[c] \in LoadSteps \ {"leave"} => op[c] = "load"
    /\ pc[c] \in StoreSteps => op[c] = "store"
    /\ pc[c] = "idle" => result[c] = "none"

RInv == IInv /\ Calling

LEMMA CallingStep == RInv /\ [Next]_vars => Calling'
<1> SUFFICES ASSUME RInv, [Next]_vars PROVE Calling'
  OBVIOUS
<1> USE DEF RInv, IInv, TypeOK, Calling, LoadSteps, StoreSteps
<1>1. CASE UNCHANGED vars
  BY <1>1 DEF vars
<1>2. ASSUME NEW c \in Client, NEW o \in {"load", "store"}, NEW k \in Key, NEW v \in Value,
             Invoke(c, o, k, v)
      PROVE  Calling'
  BY <1>2 DEF Invoke
<1>3. ASSUME NEW c \in Client, Run(c) PROVE Calling'
  <2>1. CASE Lock(c) \/ Status(c)
    BY <2>1 DEF Lock, Status
  <2>2. CASE OpenInput(c) \/ ReadInput(c) \/ Verify(c)
    BY <2>2 DEF OpenInput, ReadInput, Verify
  <2>3. CASE Leave(c) \/ Clean(c)
    BY <2>3 DEF Leave, Clean, Ends
  <2>4. CASE MakeDirectory(c)
    BY <2>4 DEF MakeDirectory
  <2>5. CASE StoreFails(c) \/ CreateOutput(c) \/ WriteKeys(c) \/ WriteBytes(c) \/ Publish(c)
    BY <2>5 DEF StoreFails, CreateOutput, WriteKeys, WriteBytes, Publish
  <2> QED BY <1>3, <2>1, <2>2, <2>3, <2>4, <2>5 DEF Run
<1>4. CASE Crash
  BY <1>4 DEF Crash
<1>5. ASSUME NEW k \in Key, Disturb(k) PROVE Calling'
  BY <1>5 DEF Disturb
<1>6. CASE Quiet
  BY <1>1, <1>6 DEF Quiet
<1> QED BY <1>1, <1>2, <1>3, <1>4, <1>5, <1>6, Defaults DEF Next

\* What the mapping makes of the two variables.
LEMMA SameEntries == UNCHANGED entry => UNCHANGED EntryMap
BY DEF EntryMap, EntryOf, Sound

LEMMA SameCall ==
  ASSUME NEW c \in Client,
         <<pc[c], op[c], key[c], value[c], input[c], result[c]>>'
           = <<pc[c], op[c], key[c], value[c], input[c], result[c]>>
  PROVE  CallOf(c)' = CallOf(c)
BY DEF CallOf, PhaseOf, ResultOf, Sound

LEMMA OtherCalls ==
  ASSUME TypeOK, NEW c \in Client, Run(c) \/ \E o \in {"load", "store"}, k \in Key, v \in Value : Invoke(c, o, k, v)
  PROVE  \A d \in Client \ {c} : CallOf(d)' = CallOf(d)
<1> USE DEF TypeOK
<1> SUFFICES ASSUME NEW d \in Client, d # c
             PROVE  <<pc[d], op[d], key[d], value[d], input[d], result[d]>>'
                      = <<pc[d], op[d], key[d], value[d], input[d], result[d]>>
  BY SameCall
<1>1. CASE Run(c)
  BY <1>1 DEF Run, Lock, Status, OpenInput, ReadInput, Verify, Leave, MakeDirectory, StoreFails,
              CreateOutput, WriteKeys, WriteBytes, Publish, Clean, Ends
<1>2. CASE \E o \in {"load", "store"}, k \in Key, v \in Value : Invoke(c, o, k, v)
  BY <1>2 DEF Invoke
<1> QED BY <1>1, <1>2

LEMMA CallChanges ==
  ASSUME NEW c \in Client, NEW new,
         CallOf(c)' = new, \A d \in Client \ {c} : CallOf(d)' = CallOf(d)
  PROVE  CallMap' = [CallMap EXCEPT ![c] = new]
BY DEF CallMap

LEMMA CallStays ==
  ASSUME NEW c \in Client,
         CallOf(c)' = CallOf(c), \A d \in Client \ {c} : CallOf(d)' = CallOf(d)
  PROVE  UNCHANGED CallMap
BY DEF CallMap

\* A call takes effect, or fails.
LEMMA Takes ==
  ASSUME NEW c \in Client, NEW r,
         <<op[c], key[c], value[c]>>' = <<op[c], key[c], value[c]>>,
         PhaseOf(c)' = "taken", ResultOf(c)' = r,
         \A d \in Client \ {c} : CallOf(d)' = CallOf(d)
  PROVE  Atomic!Take(c, r)
<1> DEFINE taken == [op |-> op[c], key |-> key[c], value |-> value[c],
                     phase |-> "taken", result |-> r]
<1>1. CallOf(c)' = taken
  BY DEF CallOf
<1>2. CallMap' = [CallMap EXCEPT ![c] = taken]
  BY <1>1, CallChanges
<1>3. CallMap[c] = CallOf(c)
  BY DEF CallMap
<1>4. [op |-> CallMap[c].op, key |-> CallMap[c].key, value |-> CallMap[c].value,
       phase |-> "taken", result |-> r] = taken
  BY <1>3 DEF CallOf
<1> QED BY <1>2, <1>4 DEF Atomic!Take

LEMMA IdleCall ==
  ASSUME NEW c \in Client, pc[c] = "idle", op[c] = "load", key[c] = AKey, value[c] = AValue,
         result[c] = "none"
  PROVE  CallOf(c) = Atomic!Idle
BY DEF CallOf, PhaseOf, ResultOf, Atomic!Idle, AKey, AValue

LEMMA Fields ==
  ASSUME NEW c \in Client
  PROVE  /\ CallMap[c].phase = PhaseOf(c) /\ CallMap[c].op = op[c]
         /\ CallMap[c].key = key[c] /\ CallMap[c].value = value[c]
BY DEF CallMap, CallOf

\* The file of an entry, once opened, holds the answer of a load.
LEMMA FileAnswers ==
  ASSUME NEW k \in Key, entry[k] \in FileContent
  PROVE  Atomic!Answer(EntryMap[k]) =
           IF Sound(entry[k], k) THEN entry[k].value ELSE "fail"
<1>1. entry[k] # Missing /\ entry[k] # NotFile /\ entry[k].value \in Value
  BY CacheAssumption DEF FileContent
<1>2. EntryMap[k] = IF Sound(entry[k], k) THEN entry[k].value ELSE Damaged
  BY <1>1 DEF EntryMap, EntryOf
<1> QED BY <1>1, <1>2, CacheAssumption DEF Atomic!Answer

LEMMA LoadStep ==
  ASSUME RInv, NEW c \in Client, Status(c) \/ OpenInput(c) \/ ReadInput(c) \/ Verify(c)
  PROVE  Atomic!Load(c) \/ Atomic!Refuse(c) \/ UNCHANGED Atomic!vars
<1> USE DEF RInv, IInv, TypeOK, LoadSteps, StoreSteps
<1>1. UNCHANGED <<entry, op, key, value>>
  BY DEF Status, OpenInput, ReadInput, Verify
<1>2. UNCHANGED EntryMap
  BY <1>1, SameEntries
<1>3. \A d \in Client \ {c} : CallOf(d)' = CallOf(d)
  BY OtherCalls DEF Run
<1>4. op[c] = "load"
  BY DEF Calling, Status, OpenInput, ReadInput, Verify
<1>5. ASSUME pc'[c] = "leave", result'[c] = "fail", pc[c] \in {"status", "open", "read"}
      PROVE  Atomic!Refuse(c)
  <2>1. PhaseOf(c)' = "taken" /\ ResultOf(c)' = "fail"
    BY <1>5 DEF PhaseOf, ResultOf
  <2>2. Atomic!Take(c, "fail")
    BY <1>1, <1>3, <2>1, Takes
  <2>3. PhaseOf(c) \in {"called", "taken"}
    BY <1>5 DEF PhaseOf
  <2> QED BY <1>2, <1>4, <2>2, <2>3, Fields DEF Atomic!Refuse
<1>6. CASE Status(c)
  <2>1. CASE pc'[c] = "leave" /\ result'[c] = "fail"
    BY <1>5, <1>6, <2>1 DEF Status
  <2>2. CASE entry[key[c]] = Missing /\ pc'[c] = "leave" /\ result'[c] = "miss"
    <3>1. PhaseOf(c)' = "taken" /\ ResultOf(c)' = "miss" /\ PhaseOf(c) = "called"
      BY <1>6, <2>2 DEF PhaseOf, ResultOf, Status
    <3>2. Atomic!Answer(EntryMap[key[c]]) = "miss"
      BY <2>2, CacheAssumption DEF EntryMap, EntryOf, Atomic!Answer
    <3>3. Atomic!Take(c, "miss")
      BY <1>1, <1>3, <3>1, Takes
    <3> QED BY <1>2, <1>4, <3>1, <3>2, <3>3, Fields DEF Atomic!Load
  <2>3. CASE pc'[c] = "open" /\ UNCHANGED result
    <3>1. CallOf(c)' = CallOf(c)
      BY <1>1, <1>6, <2>3 DEF CallOf, PhaseOf, ResultOf, Status
    <3> QED BY <1>2, <1>3, <3>1, CallStays DEF Atomic!vars
  <2> QED BY <1>6, <2>1, <2>2, <2>3 DEF Status
<1>7. CASE OpenInput(c)
  <2>1. CASE pc'[c] = "leave" /\ result'[c] = "fail"
    BY <1>5, <1>7, <2>1 DEF OpenInput
  <2>2. CASE /\ entry[key[c]] \notin {Missing, NotFile}
             /\ pc'[c] = "read" /\ input'[c] = entry[key[c]]
    <3> DEFINE answer == IF Sound(entry[key[c]], key[c]) THEN entry[key[c]].value ELSE "fail"
    <3>1. PhaseOf(c)' = "taken" /\ PhaseOf(c) = "called"
      BY <1>7, <2>2 DEF PhaseOf, OpenInput
    <3>2. ResultOf(c)' = answer
      BY <1>1, <2>2 DEF ResultOf, Sound
    <3>3. Atomic!Answer(EntryMap[key[c]]) = answer
      BY <2>2, FileAnswers
    <3> HIDE DEF answer
    <3>4. Atomic!Take(c, answer)
      BY <1>1, <1>3, <3>1, <3>2, Takes
    <3> QED BY <1>2, <1>4, <3>1, <3>3, <3>4, Fields DEF Atomic!Load
  <2> QED BY <1>7, <2>1, <2>2 DEF OpenInput
<1>8. CASE ReadInput(c)
  <2>1. CASE pc'[c] = "leave" /\ result'[c] = "fail"
    BY <1>5, <1>8, <2>1 DEF ReadInput
  <2>2. CASE pc'[c] = "verify" /\ UNCHANGED <<input, result>>
    <3>1. CallOf(c)' = CallOf(c)
      BY <1>1, <1>8, <2>2 DEF CallOf, PhaseOf, ResultOf, ReadInput, Sound
    <3> QED BY <1>2, <1>3, <3>1, CallStays DEF Atomic!vars
  <2> QED BY <1>8, <2>1, <2>2 DEF ReadInput
<1>9. CASE Verify(c)
  <2>1. CallOf(c)' = CallOf(c)
    BY <1>1, <1>9 DEF CallOf, PhaseOf, ResultOf, Verify
  <2> QED BY <1>2, <1>3, <2>1, CallStays DEF Atomic!vars
<1> QED BY <1>6, <1>7, <1>8, <1>9

LEMMA StoreStep ==
  ASSUME RInv, NEW c \in Client,
         \/ MakeDirectory(c) \/ StoreFails(c) \/ CreateOutput(c) \/ WriteKeys(c)
         \/ WriteBytes(c) \/ Publish(c)
  PROVE  Atomic!Store(c) \/ Atomic!Refuse(c) \/ UNCHANGED Atomic!vars
<1> USE DEF RInv, IInv, TypeOK, LoadSteps, StoreSteps
<1>1. UNCHANGED <<op, key, value>>
  BY DEF MakeDirectory, StoreFails, CreateOutput, WriteKeys, WriteBytes, Publish
<1>2. \A d \in Client \ {c} : CallOf(d)' = CallOf(d)
  BY OtherCalls DEF Run
<1>3. op[c] = "store" /\ PhaseOf(c) = "called"
  BY DEF Calling, PhaseOf, MakeDirectory, StoreFails, CreateOutput, WriteKeys, WriteBytes, Publish
<1>4. ASSUME pc'[c] \in {"leave", "clean"}, result'[c] = "fail", UNCHANGED entry
      PROVE  Atomic!Refuse(c)
  <2>1. PhaseOf(c)' = "taken" /\ ResultOf(c)' = "fail"
    BY <1>4 DEF PhaseOf, ResultOf
  <2>2. Atomic!Take(c, "fail")
    BY <1>1, <1>2, <2>1, Takes
  <2> QED BY <1>3, <1>4, <2>2, SameEntries, Fields DEF Atomic!Refuse
<1>5. ASSUME pc[c] \in {"mkdir", "create", "keys", "bytes"},
             pc'[c] \in {"mkdir", "create", "keys", "bytes", "lockStore", "publish"},
             UNCHANGED <<entry, result>>
      PROVE  UNCHANGED Atomic!vars
  <2>1. CallOf(c)' = CallOf(c)
    BY <1>1, <1>5 DEF CallOf, PhaseOf, ResultOf
  <2> QED BY <1>2, <1>5, <2>1, SameEntries, CallStays DEF Atomic!vars
<1>6. CASE MakeDirectory(c)
  BY <1>4, <1>5, <1>6 DEF MakeDirectory
<1>7. CASE StoreFails(c)
  BY <1>4, <1>7 DEF StoreFails
<1>8. CASE CreateOutput(c) \/ WriteKeys(c) \/ WriteBytes(c)
  BY <1>5, <1>8 DEF CreateOutput, WriteKeys, WriteBytes
<1>9. CASE Publish(c)
  <2>1. stage[name[c]] = Record(key[c], value[c], 2)
    BY <1>9 DEF Publish, StagingExclusive
  <2>2. entry' = [entry EXCEPT ![key[c]] = Record(key[c], value[c], 2)]
    BY <1>9, <2>1 DEF Publish
  <2>3. Record(key[c], value[c], 2) \notin {Missing, NotFile}
    BY RecordType, CacheAssumption
  <2>4. EntryOf(key[c])' = value[c]
    BY <1>1, <2>2, <2>3 DEF EntryOf, Sound, Record
  <2>5. \A k \in Key \ {key[c]} : EntryOf(k)' = EntryOf(k)
    BY <2>2 DEF EntryOf, Sound
  <2>6. EntryMap' = [EntryMap EXCEPT ![key[c]] = value[c]]
    BY <1>1, <2>4, <2>5 DEF EntryMap
  <2>7. PhaseOf(c)' = "taken" /\ ResultOf(c)' = "ok"
    BY <1>9 DEF Publish, PhaseOf, ResultOf
  <2>8. Atomic!Take(c, "ok")
    BY <1>1, <1>2, <2>7, Takes
  <2> QED BY <1>3, <2>6, <2>8, Fields DEF Atomic!Store
<1> QED BY <1>6, <1>7, <1>8, <1>9

LEMMA ReturnStep ==
  ASSUME RInv, NEW c \in Client, Leave(c) \/ Clean(c)
  PROVE  Atomic!Return(c)
<1> USE DEF RInv, IInv, TypeOK
<1>1. PhaseOf(c) = "taken" /\ UNCHANGED entry
  BY DEF PhaseOf, Leave, Clean
<1>2. CallOf(c)' = Atomic!Idle
  <2>1. /\ pc'[c] = "idle" /\ op'[c] = "load" /\ key'[c] = AKey /\ value'[c] = AValue
        /\ result'[c] = "none"
    BY DEF Leave, Clean, Ends
  <2> QED BY <2>1 DEF CallOf, PhaseOf, ResultOf, Atomic!Idle, AKey, AValue
<1>3. CallMap' = [CallMap EXCEPT ![c] = Atomic!Idle]
  BY <1>2, OtherCalls, CallChanges DEF Run
<1> QED BY <1>1, <1>3, SameEntries, Fields DEF Atomic!Return

\* Only the entry that is disturbed changes, to none or to one that is not sound.
LEMMA DisturbStep ==
  ASSUME RInv, NEW k \in Key, Disturb(k)
  PROVE  Atomic!Disturb(k)
<1> USE DEF RInv, IInv, TypeOK
<1>1. PICK e \in {Missing, NotFile, Record(k, AValue, 1)}
                   \cup {Record(j, AValue, 2) : j \in Key \ {k}} :
        entry' = [entry EXCEPT ![k] = e]
  BY DEF Disturb
<1>2. \A j \in Key, n \in 0..2 : Record(j, AValue, n) \notin {Missing, NotFile}
  BY RecordType, Defaults, CacheAssumption
<1>3. EntryOf(k)' \in {Missing, Damaged}
  BY <1>1, <1>2 DEF EntryOf, Sound, Record
<1>4. \A j \in Key \ {k} : EntryOf(j)' = EntryOf(j)
  BY <1>1 DEF EntryOf, Sound
<1>5. EntryMap' = [EntryMap EXCEPT ![k] = EntryOf(k)']
  BY <1>4 DEF EntryMap
<1>6. \A c \in Client : CallOf(c)' = CallOf(c)
  BY SameCall DEF Disturb
<1>7. UNCHANGED CallMap
  BY <1>6 DEF CallMap
<1> QED BY <1>3, <1>5, <1>7 DEF Atomic!Disturb

LEMMA RefinementStep == RInv /\ [Next]_vars => [Atomic!Next]_(Atomic!vars)
<1> SUFFICES ASSUME RInv, [Next]_vars PROVE [Atomic!Next]_(Atomic!vars)
  OBVIOUS
<1> USE DEF RInv, IInv, TypeOK
<1>1. CASE UNCHANGED vars
  <2>1. \A c \in Client : CallOf(c)' = CallOf(c)
    BY <1>1, SameCall DEF vars
  <2> QED BY <1>1, <2>1, SameEntries DEF vars, CallMap, Atomic!vars
<1>2. ASSUME NEW c \in Client, NEW o \in {"load", "store"}, NEW k \in Key, NEW v \in Value,
             Invoke(c, o, k, v)
      PROVE  Atomic!Next
  <2>1. PhaseOf(c) = "idle" /\ UNCHANGED entry
    BY <1>2 DEF PhaseOf, Invoke
  <2>2. CallOf(c)' = [op |-> o, key |-> k, value |-> v, phase |-> "called", result |-> "none"]
    BY <1>2 DEF CallOf, PhaseOf, ResultOf, Invoke, Calling
  <2>3. CallMap' = [CallMap EXCEPT ![c] = [op |-> o, key |-> k, value |-> v,
                                           phase |-> "called", result |-> "none"]]
    BY <1>2, <2>2, OtherCalls, CallChanges
  <2>4. Atomic!Invoke(c, o, k, v)
    BY <2>1, <2>3, SameEntries, Fields DEF Atomic!Invoke
  <2> QED BY <2>4 DEF Atomic!Next
<1>3. ASSUME NEW c \in Client, Run(c) PROVE [Atomic!Next]_(Atomic!vars)
  <2>1. CASE Lock(c)
    <3>1. CallOf(c)' = CallOf(c)
      BY <2>1 DEF Lock, CallOf, PhaseOf, ResultOf
    <3>2. UNCHANGED CallMap
      BY <1>3, <3>1, OtherCalls, CallStays
    <3> QED BY <2>1, <3>2, SameEntries DEF Lock, Atomic!vars
  <2>2. CASE Status(c) \/ OpenInput(c) \/ ReadInput(c) \/ Verify(c)
    BY <2>2, LoadStep DEF Atomic!Next
  <2>3. CASE \/ MakeDirectory(c) \/ StoreFails(c) \/ CreateOutput(c) \/ WriteKeys(c)
             \/ WriteBytes(c) \/ Publish(c)
    BY <2>3, StoreStep DEF Atomic!Next
  <2>4. CASE Leave(c) \/ Clean(c)
    BY <2>4, ReturnStep DEF Atomic!Next
  <2> QED BY <1>3, <2>1, <2>2, <2>3, <2>4 DEF Run
<1>4. CASE Crash
  <2>1. \A c \in Client : /\ pc'[c] = "idle" /\ op'[c] = "load" /\ key'[c] = AKey
                          /\ value'[c] = AValue /\ result'[c] = "none"
    BY <1>4 DEF Crash
  <2>2. \A c \in Client : CallOf(c)' = Atomic!Idle
    BY <2>1 DEF CallOf, PhaseOf, ResultOf, Atomic!Idle, AKey, AValue
  <2>3. CallMap' = [c \in Client |-> Atomic!Idle]
    BY <2>2 DEF CallMap
  <2>4. UNCHANGED EntryMap
    BY <1>4, SameEntries DEF Crash
  <2> QED BY <2>3, <2>4 DEF Atomic!Crash, Atomic!Next
<1>5. ASSUME NEW k \in Key, Disturb(k) PROVE Atomic!Next
  BY <1>5, DisturbStep DEF Atomic!Next
<1>6. CASE Quiet
  BY <1>1, <1>6 DEF Quiet
<1> QED BY <1>1, <1>2, <1>3, <1>4, <1>5, <1>6, Defaults DEF Next

LEMMA RefinementInit == Init => RInv /\ Atomic!Init
<1> SUFFICES ASSUME Init PROVE RInv /\ Atomic!Init
  OBVIOUS
<1>1. RInv
  BY Initially DEF RInv, Calling, Init, LoadSteps, StoreSteps
<1>2. EntryMap = [k \in Key |-> Missing]
  <2>1. \A k \in Key : EntryOf(k) = Missing
    BY CacheAssumption DEF Init, EntryOf
  <2> QED BY <2>1 DEF EntryMap
<1>3. \A c \in Client : CallOf(c) = Atomic!Idle
  BY IdleCall DEF Init
<1> QED BY <1>1, <1>2, <1>3 DEF CallMap, Atomic!Init

\* Loads and stores act on one map at one instant, through crashes and damage,
\* for any number of threads, keys and calls.
THEOREM FilesAreAtomicMap == Spec => ImplementsAtomicCache
<1>1. IInv /\ [Next]_vars => IInv'
  BY TypeStep, StagingStep, ReadingStep, LockingStep, LeaksStep DEF IInv
<1>2. RInv /\ [Next]_vars => RInv'
  BY <1>1, CallingStep DEF RInv
<1> QED BY RefinementInit, RefinementStep, <1>2, PTL DEF Spec, ImplementsAtomicCache, Atomic!Spec
=============================================================================
