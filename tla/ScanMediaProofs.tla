--------------------------- MODULE ScanMediaProofs ---------------------------
(***************************************************************************)
(* Theorems about ScanMedia, for every number of threads and files.        *)
(*                                                                         *)
(* The safety invariants rest on IInv, the conjunction of                  *)
(*   Locking    who holds each mutex,                                      *)
(*   Phases     what the calling thread's position says of the threads,    *)
(*   Claims     every position below the counter is complete, torn or in   *)
(*              the hands of one thread,                                   *)
(*   Causes     why the pool is cancelled, and why an exception is in      *)
(*              flight or recorded.                                        *)
(* The progress counts need two more: Counting, which sets the count       *)
(* against the finished files that wait for the mutex, and Reporting,      *)
(* which sets the last report against the count.                           *)
(***************************************************************************)
EXTENDS ScanMedia, FiniteSets, FiniteSetTheorems, TLAPS

\* Before the pool exists.
BeforePool == {"validate", "normalize", "announce", "collect",
               "collectReport", "total", "totalReport", "prepare", "register",
               "reserve"}

PoolError == {"canceled", "observer", "memory"}

Locking ==
  \A w \in Worker :
    /\ fatalLock = w <=> pc[w] \in {"record", "raise"}
    /\ progressLock = w <=> pc[w] \in {"check", "deliver", "observe"}

Phases ==
  /\ main \in BeforePool => spawned = 0 /\ next = 0 /\ fatal = NoError
  /\ main \in {"join", "rethrow", "finish", "merge"} => spawned = Count
  /\ main \notin {"spawn", "join", "unwind"} => joined = spawned
  /\ main \notin {"unwind", "throw", "over"} => thrown = NoError
  /\ main = "unwind" => thrown = "thread"
  /\ main = "throw" => thrown # NoError
  /\ outcome = "pending" <=> main # "over"
  /\ \A w \in Worker : w > spawned <=> pc[w] = "unborn"
  /\ \A w \in Worker : w <= joined => pc[w] = "exit"

\* A thread that holds position p.
Holds(w, p) == pc[w] = "file" /\ pos[w] = p

HeldInRange ==
  \A w \in Worker : pc[w] = "file" =>
    /\ pos[w] \in Slot
    /\ pos[w] < next
    /\ pos[w] < discovered
    /\ entry[pos[w]] = "busy"

\* Only claimed positions are complete.
CompleteClaimed ==
  \A p \in Slot : entry[p] \in Complete => p < next /\ p < discovered

\* A claimed position is complete, torn or held.
Accounted ==
  \A p \in Slot : p < discovered /\ p < next =>
    \/ entry[p] \in Complete
    \/ entry[p] = "torn"
    \/ \E w \in Worker : Holds(w, p)

\* A torn record is the work of an exception, recorded or about to be.
TornCause ==
  \A p \in Slot : entry[p] = "torn" =>
    \/ fatal # NoError
    \/ \E w \in Worker : pc[w] \in {"catch", "record"}

ExitCause ==
  \A w \in Worker : pc[w] = "exit" => cancellation \/ next >= discovered

Claims == /\ HeldInRange
          /\ ExclusivePositions
          /\ Accounted
          /\ TornCause
          /\ ExitCause
          /\ CompleteClaimed

Causes ==
  /\ link \in {"firing", "fired"} => stop
  /\ cancellation => stop \/ fatal # NoError \/ thrown = "thread"
  /\ fatal \in PoolError \cup {NoError}
  /\ fatal = "canceled" => stop \/ thrown = "thread"
  /\ \A w \in Worker :
       /\ pc[w] \in {"catch", "record"} => err[w] \in PoolError
       /\ pc[w] \in {"catch", "record"} /\ err[w] = "canceled" => cancellation
       /\ pc[w] = "raise" => fatal # NoError
  /\ thrown = "canceled" => stop

Endings ==
  /\ thrown = "budget" => main \in {"throw", "over"} /\ discovered = MaxFiles /\ next = 0
  /\ main \in {"finish", "merge"} => fatal = NoError
  /\ main \in {"throw", "over"} /\ fatal # NoError => thrown \in {fatal, "thread"}
  /\ main = "over" => outcome \in {thrown, "result"}
  /\ main = "over" /\ outcome = "result" => fatal = NoError
  /\ main = "merge" \/ outcome = "result" =>
       \A p \in 0..discovered - 1 : entry[p] \in Complete

IInv == TypeOK /\ Locking /\ Phases /\ Claims /\ Causes /\ Endings

-----------------------------------------------------------------------------
(***************************************************************************)
(* Type correctness.                                                       *)
(***************************************************************************)
USE DEF Worker, NoWorker, Slot, NoSlot, Error, NoError, EntryState, Complete,
        MainState, WorkerState

LEMMA TypeInit == Init => TypeOK
<1> SUFFICES ASSUME Init PROVE TypeOK
  OBVIOUS
<1>1. Workers \in Nat /\ MaxFiles \in Nat /\ MaxIssues \in Nat
  BY ParameterAssumption
<1>2. /\ discovered \in 0..MaxFiles
      /\ spawned \in 0..Count
      /\ joined \in 0..spawned
      /\ enumIssues \in 0..MaxIssues
  BY <1>1 DEF Init, Count, Least
<1>3. /\ report \in [discovered : 0..MaxFiles, completed : Nat]
      /\ entry \in [Slot -> EntryState]
  BY <1>1 DEF Init
<1>4. /\ pc \in [Worker -> WorkerState]
      /\ pos \in [Worker -> Slot \cup {NoSlot}]
      /\ err \in [Worker -> Error \cup {NoError}]
      /\ arg \in [Worker -> Nat]
  BY <1>1 DEF Init
<1>5. /\ outcome \in {"pending", "result"} \cup Error
      /\ main \in MainState \ {"unwind", "throw"}
      /\ thrown \in Error \cup {NoError}
      /\ link \in {"none", "set", "firing", "fired"}
      /\ fatal \in Error \cup {NoError}
  BY DEF Init
<1>6. /\ fatalLock \in Worker \cup {NoWorker}
      /\ progressLock \in Worker \cup {NoWorker}
      /\ next \in Nat
      /\ completed \in Nat
  BY DEF Init
<1>7. stop \in BOOLEAN /\ progress \in BOOLEAN /\ cancellation \in BOOLEAN
  BY DEF Init
<1> QED BY <1>2, <1>3, <1>4, <1>5, <1>6, <1>7, Zenon DEF TypeOK

LEMMA TypeStep == TypeOK /\ [Next]_vars => TypeOK'
<1> SUFFICES ASSUME TypeOK, [Next]_vars PROVE TypeOK'
  OBVIOUS
<1> USE ParameterAssumption DEF TypeOK, Count, Least, callerVars, mainVars, poolVars, threadVars, Goto, Fail
<1>1. CASE RequestStop
  BY <1>1, SMT DEF RequestStop
<1>2. CASE ForwardStop
  BY <1>2, SMT DEF ForwardStop
<1>3. CASE Validate
  BY <1>3, SMT DEF Validate
<1>4. CASE NormalizeRoots
  BY <1>4, SMT DEF NormalizeRoots
<1>5. CASE Announce
  BY <1>5, SMT DEF Announce
<1>6. CASE ObserverReturns
  BY <1>6, SMT DEF ObserverReturns
<1>7. CASE CollectFails
  BY <1>7, SMT DEF CollectFails
<1>8. CASE CollectPath
  BY <1>8, SMT DEF CollectPath
<1>9. CASE CollectIssue
  BY <1>9, SMT DEF CollectIssue
<1>10. CASE CollectEnds
  BY <1>10, SMT DEF CollectEnds
<1>11. CASE PrepareFiles
  BY <1>11, SMT DEF PrepareFiles
<1>12. CASE RegisterCallback
  BY <1>12, SMT DEF RegisterCallback
<1>13. CASE ReserveThreads
  BY <1>13, SMT DEF ReserveThreads
<1>14. CASE SpawnWorker
  BY <1>14, SMT DEF SpawnWorker
<1>15. CASE SpawnFails
  BY <1>15, SMT DEF SpawnFails
<1>16. CASE SpawnEnds
  BY <1>16, SMT DEF SpawnEnds
<1>17. CASE JoinWorker
  BY <1>17, SMT DEF JoinWorker
<1>18. CASE JoinEnds
  BY <1>18, SMT DEF JoinEnds
<1>19. CASE Rethrow
  BY <1>19, SMT DEF Rethrow
<1>20. CASE FinalCheck
  BY <1>20, SMT DEF FinalCheck
<1>21. CASE AllocationFails
  BY <1>21, SMT DEF AllocationFails
<1>22. CASE Return
  BY <1>22, SMT DEF Return
<1>w. ASSUME NEW w \in Worker, Step(w) PROVE TypeOK'
  <2>1. CASE CheckToken(w)
    BY <2>1, SMT DEF CheckToken
  <2>2. CASE Claim(w)
    <3> USE <2>2 DEF Claim
    <3>1. CASE next >= discovered
      BY <3>1
    <3>2. CASE ~(next >= discovered)
      <4>1. next \in Slot /\ next' \in Nat
        BY <3>2
      <4>2. pos' \in [Worker -> Slot \cup {NoSlot}]
        BY <3>2, <4>1, Zenon
      <4>3. entry' \in [Slot -> EntryState]
        BY <3>2
      <4>4. pc' \in [Worker -> WorkerState]
        BY <3>2
      <4> QED BY <4>1, <4>2, <4>3, <4>4
    <3> QED BY <3>1, <3>2
  <2>3. CASE FileEnds(w)
    <3>1. entry' \in [Slot -> EntryState]
      BY <2>3 DEF FileEnds
    <3>2. pc' \in [Worker -> WorkerState]
      BY <2>3 DEF FileEnds
    <3> QED BY <2>3, <3>1, <3>2 DEF FileEnds
  <2>4. CASE FileThrows(w)
    <3>1. entry' \in [Slot -> EntryState]
      BY <2>4 DEF FileThrows
    <3>2. pc' \in [Worker -> WorkerState]
      BY <2>4 DEF FileThrows
    <3>3. err' \in [Worker -> Error \cup {NoError}]
      BY <2>4 DEF FileThrows
    <3> QED BY <2>4, <3>1, <3>2, <3>3 DEF FileThrows
  <2>5. CASE LockProgress(w)
    BY <2>5, SMT DEF LockProgress
  <2>6. CASE CountFile(w)
    <3>1. completed' \in Nat /\ arg' \in [Worker -> Nat]
      <4>1. completed + 1 \in Nat
        OBVIOUS
      <4>2. CASE cancellation
        BY <2>6, <4>2 DEF CountFile
      <4>3. CASE ~cancellation
        <5>1. completed' = completed + 1 /\ arg' = [arg EXCEPT ![w] = completed + 1]
          BY <2>6, <4>3 DEF CountFile
        <5> QED BY <4>1, <5>1
      <4> QED BY <4>2, <4>3
    <3>2. pc' \in [Worker -> WorkerState]
      BY <2>6 DEF CountFile
    <3>3. err' \in [Worker -> Error \cup {NoError}]
      BY <2>6 DEF CountFile
    <3>4. progressLock' \in Worker \cup {NoWorker}
      BY <2>6 DEF CountFile
    <3> QED BY <2>6, <3>1, <3>2, <3>3, <3>4 DEF CountFile
  <2>7. CASE Deliver(w)
    BY <2>7, SMT DEF Deliver
  <2>8. CASE ObserverAccepts(w)
    BY <2>8, SMT DEF ObserverAccepts
  <2>9. CASE ObserverThrows(w)
    BY <2>9, SMT DEF ObserverThrows
  <2>10. CASE LockFatal(w)
    BY <2>10, SMT DEF LockFatal
  <2>11. CASE RecordFatal(w)
    BY <2>11, SMT DEF RecordFatal
  <2>12. CASE RaiseCancellation(w)
    BY <2>12, SMT DEF RaiseCancellation
  <2> QED BY <1>w, <2>1, <2>2, <2>3, <2>4, <2>5, <2>6, <2>7, <2>8, <2>9, <2>10, <2>11, <2>12 DEF Step
<1>23. CASE UNCHANGED vars
  BY <1>23, SMT DEF vars
<1> QED BY <1>1, <1>2, <1>3, <1>4, <1>5, <1>6, <1>7, <1>8, <1>9, <1>10, <1>11, <1>12, <1>13, <1>14, <1>15, <1>16, <1>17, <1>18, <1>19, <1>20, <1>21, <1>22, <1>23, <1>w DEF Next, Main, Over

THEOREM TypeCorrect == Spec => []TypeOK
<1> QED BY TypeInit, TypeStep, PTL DEF Spec

-----------------------------------------------------------------------------
(***************************************************************************)
(* What the two sides of the pool leave alone.                             *)
(***************************************************************************)

\* Only SpawnWorker, of the calling thread's steps, touches the threads.
LEMMA CallerFrame ==
  ASSUME RequestStop \/ ForwardStop \/ Main \/ UNCHANGED vars
  PROVE  \/ SpawnWorker
         \/ UNCHANGED <<next, completed, fatal, fatalLock, progressLock, pc,
                        pos, err, arg>>
  BY DEF RequestStop, ForwardStop, Main, Validate, NormalizeRoots, Announce, ObserverReturns, CollectFails, CollectPath, CollectIssue, CollectEnds, PrepareFiles, RegisterCallback, ReserveThreads, SpawnWorker, SpawnFails, SpawnEnds, JoinWorker, JoinEnds, Rethrow, FinalCheck, AllocationFails, Return, callerVars, mainVars, poolVars, threadVars, vars

\* A thread moves only itself, and only while it is alive.
LEMMA ThreadFrame ==
  ASSUME TypeOK, NEW w \in Worker, Step(w)
  PROVE  /\ UNCHANGED <<stop, progress, outcome, main, discovered, enumIssues,
                        spawned, joined, thrown, link>>
         /\ pc[w] \notin {"unborn", "exit"}
         /\ pc'[w] # "unborn"
         /\ \A v \in Worker : v # w => pc'[v] = pc[v]
  BY DEF Step, CheckToken, Claim, FileEnds, FileThrows, LockProgress, CountFile, Deliver, ObserverAccepts, ObserverThrows, LockFatal, RecordFatal, RaiseCancellation, callerVars, mainVars, TypeOK

\* Threads are alive only while the calling thread starts or joins them.
LEMMA AliveInPool ==
  ASSUME TypeOK, Phases, NEW w \in Worker, pc[w] \notin {"unborn", "exit"}
  PROVE  main \in {"spawn", "join", "unwind"} /\ w <= spawned /\ ~(w <= joined)
  BY ParameterAssumption DEF TypeOK, Phases

-----------------------------------------------------------------------------
(***************************************************************************)
(* The mutexes.                                                            *)
(***************************************************************************)
LEMMA LockingStep == TypeOK /\ Phases /\ Locking /\ [Next]_vars => Locking'
<1> SUFFICES ASSUME TypeOK, Phases, Locking, [Next]_vars PROVE Locking'
  OBVIOUS
<1> USE DEF Locking
<1>1. CASE RequestStop \/ ForwardStop \/ Main \/ UNCHANGED vars
  <2>1. CASE SpawnWorker
    <3>1. spawned + 1 \in Worker /\ pc[spawned + 1] = "unborn"
      BY <2>1, ParameterAssumption DEF SpawnWorker, TypeOK, Phases, Count, Least
    <3> QED BY <2>1, <3>1 DEF SpawnWorker, TypeOK, poolVars
  <2>2. CASE UNCHANGED <<fatalLock, progressLock, pc>>
    BY <2>2
  <2> QED BY <1>1, <2>1, <2>2, CallerFrame
<1>2. ASSUME NEW w \in Worker, Step(w) PROVE Locking'
  <2>1. CASE CheckToken(w)
    BY <2>1, ParameterAssumption DEF CheckToken, TypeOK, poolVars
  <2>2. CASE Claim(w)
    BY <2>2, ParameterAssumption DEF Claim, TypeOK, poolVars
  <2>3. CASE FileEnds(w)
    BY <2>3, ParameterAssumption DEF FileEnds, TypeOK, poolVars
  <2>4. CASE FileThrows(w)
    BY <2>4, ParameterAssumption DEF FileThrows, TypeOK, poolVars
  <2>5. CASE LockProgress(w)
    BY <2>5, ParameterAssumption DEF LockProgress, TypeOK, poolVars
  <2>6. CASE CountFile(w)
    <3> USE <2>6 DEF CountFile, TypeOK
    <3>1. /\ \A v \in Worker : v # w => pc'[v] = pc[v]
          /\ pc'[w] \in {"deliver", "catch"}
          /\ pc[w] = "check"
          /\ progressLock' = IF pc'[w] = "catch" THEN NoWorker ELSE w
          /\ fatalLock' = fatalLock
      OBVIOUS
    <3> HIDE <2>6 DEF CountFile, TypeOK
    <3> QED BY <3>1
  <2>7. CASE Deliver(w)
    BY <2>7, ParameterAssumption DEF Deliver, TypeOK, poolVars
  <2>8. CASE ObserverAccepts(w)
    BY <2>8, ParameterAssumption DEF ObserverAccepts, TypeOK, poolVars
  <2>9. CASE ObserverThrows(w)
    <3> USE <2>9 DEF ObserverThrows, TypeOK
    <3>1. /\ \A v \in Worker : v # w => pc'[v] = pc[v]
          /\ pc'[w] \in {"deliver", "catch"}
          /\ pc[w] = "observe"
          /\ progressLock' = IF pc'[w] = "catch" THEN NoWorker ELSE w
          /\ fatalLock' = fatalLock
      OBVIOUS
    <3> HIDE <2>9 DEF ObserverThrows, TypeOK
    <3> QED BY <3>1
  <2>10. CASE LockFatal(w)
    <3> USE <2>10 DEF LockFatal, TypeOK
    <3>1. /\ \A v \in Worker : v # w => pc'[v] = pc[v]
          /\ pc[w] = "catch" /\ pc'[w] = "record"
          /\ fatalLock = NoWorker /\ fatalLock' = w
          /\ progressLock' = progressLock
      OBVIOUS
    <3>2. \A v \in Worker : v # NoWorker
      BY ParameterAssumption
    <3> HIDE <2>10 DEF LockFatal, TypeOK
    <3> QED BY <3>1, <3>2
  <2>11. CASE RecordFatal(w)
    BY <2>11, ParameterAssumption DEF RecordFatal, TypeOK, poolVars
  <2>12. CASE RaiseCancellation(w)
    BY <2>12, ParameterAssumption DEF RaiseCancellation, TypeOK, poolVars
  <2> QED BY <1>2, <2>1, <2>2, <2>3, <2>4, <2>5, <2>6, <2>7, <2>8, <2>9, <2>10, <2>11, <2>12 DEF Step
<1> QED BY <1>1, <1>2 DEF Next, Over

-----------------------------------------------------------------------------
(***************************************************************************)
(* The calling thread and the threads it has started.                      *)
(***************************************************************************)
LEMMA PhasesStep == TypeOK /\ Phases /\ [Next]_vars => Phases'
<1> SUFFICES ASSUME TypeOK, Phases, [Next]_vars PROVE Phases'
  OBVIOUS
<1> USE ParameterAssumption DEF TypeOK, Phases, BeforePool, Count, Least, Goto, Fail, callerVars, mainVars, poolVars, threadVars
<1>1. CASE RequestStop
  BY <1>1 DEF RequestStop
<1>2. CASE ForwardStop
  BY <1>2 DEF ForwardStop
<1>3. CASE Validate
  BY <1>3 DEF Validate
<1>4. CASE NormalizeRoots
  BY <1>4 DEF NormalizeRoots
<1>5. CASE Announce
  BY <1>5 DEF Announce
<1>6. CASE ObserverReturns
  BY <1>6 DEF ObserverReturns
<1>7. CASE CollectFails
  BY <1>7 DEF CollectFails
<1>8. CASE CollectPath
  BY <1>8 DEF CollectPath
<1>9. CASE CollectIssue
  BY <1>9 DEF CollectIssue
<1>10. CASE CollectEnds
  BY <1>10 DEF CollectEnds
<1>11. CASE PrepareFiles
  BY <1>11 DEF PrepareFiles
<1>12. CASE RegisterCallback
  BY <1>12 DEF RegisterCallback
<1>13. CASE ReserveThreads
  BY <1>13 DEF ReserveThreads
<1>14. CASE SpawnWorker
  BY <1>14 DEF SpawnWorker
<1>15. CASE SpawnFails
  BY <1>15 DEF SpawnFails
<1>16. CASE SpawnEnds
  BY <1>16 DEF SpawnEnds
<1>17. CASE JoinWorker
  BY <1>17 DEF JoinWorker
<1>18. CASE JoinEnds
  BY <1>18 DEF JoinEnds
<1>19. CASE Rethrow
  BY <1>19 DEF Rethrow
<1>20. CASE FinalCheck
  BY <1>20 DEF FinalCheck
<1>21. CASE AllocationFails
  BY <1>21 DEF AllocationFails
<1>22. CASE Return
  BY <1>22 DEF Return
<1>w. ASSUME NEW w \in Worker, Step(w) PROVE Phases'
  <2>1. main \in {"spawn", "join", "unwind"} /\ ~(w <= joined) /\ w <= spawned
    BY <1>w, ThreadFrame, AliveInPool
  <2>2. UNCHANGED <<outcome, main, spawned, joined, thrown>>
    BY <1>w, ThreadFrame
  <2>3. /\ pc[w] \notin {"unborn", "exit"} /\ pc'[w] # "unborn"
        /\ \A v \in Worker : v # w => pc'[v] = pc[v]
    BY <1>w, ThreadFrame
  <2>4. \A v \in Worker : v > spawned <=> pc'[v] = "unborn"
    BY <2>1, <2>3
  <2>5. \A v \in Worker : v <= joined => pc'[v] = "exit"
    BY <2>1, <2>3
  <2> HIDE DEF TypeOK, Count, Least, callerVars, mainVars, poolVars, threadVars
  <2>6. main \notin BeforePool
    BY <2>1
  <2>7. main \in {"join"} => spawned' = Count'
    <3>1. discovered' = discovered
      BY <1>w, ThreadFrame DEF TypeOK
    <3> QED BY <2>2, <3>1 DEF Count
  <2> QED BY <2>1, <2>2, <2>4, <2>5, <2>6, <2>7
<1>23. CASE UNCHANGED vars
  BY <1>23 DEF vars
<1> QED BY <1>1, <1>2, <1>3, <1>4, <1>5, <1>6, <1>7, <1>8, <1>9, <1>10, <1>11, <1>12, <1>13, <1>14, <1>15, <1>16, <1>17, <1>18, <1>19, <1>20, <1>21, <1>22, <1>23, <1>w DEF Next, Main, Over

-----------------------------------------------------------------------------
(***************************************************************************)
(* The claimed positions.                                                  *)
(***************************************************************************)
\* What no step outside Claim, FileEnds and FileThrows can disturb.
QuietStep ==
  /\ UNCHANGED <<entry, next, discovered, pos>>
  /\ \A w \in Worker :
       /\ pc'[w] = "file" <=> pc[w] = "file"
       /\ pc[w] \in {"catch", "record"} =>
            pc'[w] \in {"catch", "record"} \/ fatal' # NoError
       /\ pc'[w] = "exit" => pc[w] = "exit" \/ cancellation'
  /\ fatal # NoError => fatal' # NoError
  /\ cancellation => cancellation'

LEMMA QuietStepKeepsClaims == TypeOK /\ Claims /\ QuietStep => Claims'
<1> SUFFICES ASSUME TypeOK, Claims, QuietStep PROVE Claims'
  OBVIOUS
<1> USE DEF QuietStep
<1>1. HeldInRange'
  BY DEF Claims, HeldInRange
<1>2. ExclusivePositions'
  BY DEF Claims, ExclusivePositions
<1>3. Accounted'
  <2>1. \A w \in Worker, p \in Slot : Holds(w, p) => Holds(w, p)'
    BY DEF Holds
  <2> QED BY <2>1 DEF Claims, Accounted
<1>4. TornCause'
  BY DEF Claims, TornCause
<1>5. ExitCause'
  BY DEF Claims, ExitCause
<1>6. CompleteClaimed'
  BY DEF Claims, CompleteClaimed
<1> QED BY <1>1, <1>2, <1>3, <1>4, <1>5, <1>6 DEF Claims

LEMMA ClaimsStep ==
  TypeOK /\ Phases /\ Causes /\ Claims /\ [Next]_vars => Claims'
<1> SUFFICES ASSUME TypeOK, Phases, Causes, Claims, [Next]_vars PROVE Claims'
  OBVIOUS
<1>1. CASE RequestStop \/ ForwardStop \/ UNCHANGED vars
  <2>1. QuietStep
    BY <1>1 DEF RequestStop, ForwardStop, vars, callerVars, mainVars, poolVars, threadVars, QuietStep
  <2> QED BY <2>1, QuietStepKeepsClaims
<1>2. ASSUME Main, main \in BeforePool PROVE Claims'
  <2>1. \A w \in Worker : pc[w] = "unborn"
    BY <1>2, ParameterAssumption DEF Phases, TypeOK
  <2>2. UNCHANGED <<next, fatal, pc>>
    BY <1>2, CallerFrame DEF BeforePool, SpawnWorker
  <2>3. next = 0 /\ fatal = NoError
    BY <1>2 DEF Phases
  <2>4. \A p \in Slot : entry[p] # "torn"
    BY <2>1, <2>3 DEF Claims, TornCause
  <2>5. entry' = entry \/ PrepareFiles
    BY <1>2 DEF Main, Validate, NormalizeRoots, Announce, ObserverReturns, CollectFails, CollectPath, CollectIssue, CollectEnds, PrepareFiles, RegisterCallback, ReserveThreads, SpawnWorker, SpawnFails, SpawnEnds, JoinWorker, JoinEnds, Rethrow, FinalCheck, AllocationFails, Return, Goto, Fail, callerVars, mainVars, poolVars
  <2>6. \A p \in Slot : entry'[p] # "torn"
    BY <2>4, <2>5 DEF PrepareFiles
  <2>7. \A p \in Slot : entry[p] \notin Complete
    BY <2>3 DEF Claims, CompleteClaimed, Slot
  <2>8. \A p \in Slot : entry'[p] \notin Complete
    BY <2>5, <2>7 DEF PrepareFiles
  <2> QED BY <2>1, <2>2, <2>3, <2>6, <2>8 DEF Claims, HeldInRange,
              ExclusivePositions, Accounted, TornCause, ExitCause, CompleteClaimed
<1>3. ASSUME Main, main \notin BeforePool PROVE Claims'
  <2>1. UNCHANGED <<next, fatal, entry, discovered, pos>>
    BY <1>3 DEF Main, Validate, NormalizeRoots, Announce, ObserverReturns, CollectFails, CollectPath, CollectIssue, CollectEnds, PrepareFiles, RegisterCallback, ReserveThreads, SpawnWorker, SpawnFails, SpawnEnds, JoinWorker, JoinEnds, Rethrow, FinalCheck, AllocationFails, Return, Goto, Fail, callerVars, mainVars, poolVars, threadVars, BeforePool
  <2>2. cancellation => cancellation'
    BY <1>3 DEF Main, Validate, NormalizeRoots, Announce, ObserverReturns, CollectFails, CollectPath, CollectIssue, CollectEnds, PrepareFiles, RegisterCallback, ReserveThreads, SpawnWorker, SpawnFails, SpawnEnds, JoinWorker, JoinEnds, Rethrow, FinalCheck, AllocationFails, Return, Goto, Fail, callerVars, mainVars, poolVars, threadVars, BeforePool
  <2>3. CASE UNCHANGED pc
    BY <2>1, <2>2, <2>3, QuietStepKeepsClaims DEF QuietStep
  <2>4. CASE SpawnWorker
    <3>1. spawned + 1 \in Worker /\ pc[spawned + 1] = "unborn"
      BY <2>4, ParameterAssumption DEF SpawnWorker, Phases, Count, Least, TypeOK
    <3>2. pc' = [pc EXCEPT ![spawned + 1] = "loop"]
      BY <2>4 DEF SpawnWorker
    <3>3. QuietStep
      BY <2>1, <2>2, <3>1, <3>2 DEF QuietStep, TypeOK
    <3> QED BY <3>3, QuietStepKeepsClaims
  <2> QED BY <1>3, <2>3, <2>4, CallerFrame
<1>4. ASSUME NEW w \in Worker, Step(w) PROVE Claims'
  <2>1. CASE Claim(w)
    <3> USE <2>1 DEF Claim
    <3>1. CASE next >= discovered
      <4>1. UNCHANGED <<entry, pos, fatal, cancellation, discovered>>
        BY <3>1 DEF mainVars
      <4>2. pc' = [pc EXCEPT ![w] = "exit"] /\ next' = next + 1
        BY <3>1
      <4>3. \A v \in Worker, p \in Slot : Holds(v, p) => Holds(v, p)'
        BY <4>1, <4>2 DEF Holds, TypeOK
      <4>4. HeldInRange'
        BY <4>1, <4>2 DEF Claims, HeldInRange, TypeOK
      <4>5. ExclusivePositions'
        BY <4>1, <4>2 DEF Claims, ExclusivePositions, TypeOK
      <4>6. Accounted'
        BY <3>1, <4>1, <4>2, <4>3 DEF Claims, Accounted, TypeOK
      <4>7. TornCause'
        BY <4>1, <4>2 DEF Claims, TornCause, TypeOK
      <4>8. ExitCause'
        BY <3>1, <4>1, <4>2 DEF Claims, ExitCause, TypeOK
      <4>9. CompleteClaimed'
        BY <4>1, <4>2 DEF Claims, CompleteClaimed, TypeOK
      <4> QED BY <4>4, <4>5, <4>6, <4>7, <4>8, <4>9 DEF Claims
    <3>2. CASE ~(next >= discovered)
      <4>1. /\ next \in Slot /\ next < discovered
            /\ next' = next + 1
            /\ pos' = [pos EXCEPT ![w] = next]
            /\ entry' = [entry EXCEPT ![next] = "busy"]
            /\ pc' = [pc EXCEPT ![w] = "file"]
            /\ UNCHANGED <<fatal, cancellation, discovered>>
        BY <3>2, ParameterAssumption DEF mainVars, TypeOK
      <4> HIDE <2>1 DEF Claim
      <4>2. /\ pc'[w] = "file" /\ pos'[w] = next
            /\ \A v \in Worker : v # w => pc'[v] = pc[v] /\ pos'[v] = pos[v]
        BY <4>1 DEF TypeOK
      <4>3. \A v \in Worker, p \in Slot : Holds(v, p) => Holds(v, p)'
        BY <2>1, <4>2 DEF Holds, Claim
      <4>4. HeldInRange'
        <5> SUFFICES ASSUME NEW v \in Worker, pc'[v] = "file"
                     PROVE  /\ pos'[v] \in Slot
                            /\ pos'[v] < next + 1
                            /\ pos'[v] < discovered
                            /\ entry'[pos'[v]] = "busy"
          BY <4>1 DEF HeldInRange
        <5>1. CASE v = w
          BY <5>1, <4>1, <4>2 DEF TypeOK
        <5>2. CASE v # w
          BY <5>2, <4>1, <4>2 DEF Claims, HeldInRange, TypeOK
        <5> QED BY <5>1, <5>2
      <4>5. ExclusivePositions'
        BY <4>1, <4>2 DEF Claims, ExclusivePositions, HeldInRange, TypeOK
      <4>6. Accounted'
        <5> SUFFICES ASSUME NEW p \in Slot, p < discovered, p < next + 1
                     PROVE  \/ entry'[p] \in {"ok", "issue", "torn"}
                            \/ \E v \in Worker : Holds(v, p)'
          BY <4>1 DEF Accounted
        <5>1. CASE p = next
          BY <5>1, <4>2 DEF Holds
        <5>2. CASE p # next
          BY <5>2, <4>1, <4>3 DEF Claims, Accounted, TypeOK
        <5> QED BY <5>1, <5>2
      <4>7. TornCause'
        BY <2>1, <4>1, <4>2 DEF Claims, TornCause, TypeOK, Claim
      <4>8. ExitCause'
        BY <4>1, <4>2 DEF Claims, ExitCause, TypeOK
      <4>9. CompleteClaimed'
        BY <4>1 DEF Claims, CompleteClaimed, TypeOK
      <4> QED BY <4>4, <4>5, <4>6, <4>7, <4>8, <4>9 DEF Claims
    <3> QED BY <3>1, <3>2
  <2>2. CASE FileEnds(w) \/ FileThrows(w)
    <3>1. /\ pos[w] \in Slot /\ pc[w] = "file"
          /\ pc'[w] \in {"lock", "loop", "catch"}
          /\ \A v \in Worker : v # w => pc'[v] = pc[v]
          /\ UNCHANGED <<next, discovered, pos, fatal, cancellation>>
      BY <2>2 DEF FileEnds, FileThrows, Claims, HeldInRange, TypeOK, mainVars
    <3>2. /\ entry'[pos[w]] \in Complete \cup {"torn"}
          /\ entry'[pos[w]] = "torn" => pc'[w] = "catch"
          /\ \A p \in Slot : p # pos[w] => entry'[p] = entry[p]
      BY <2>2, <3>1 DEF FileEnds, FileThrows, TypeOK
    <3>3. HeldInRange'
      BY <3>1, <3>2 DEF Claims, HeldInRange, ExclusivePositions
    <3>4. ExclusivePositions'
      BY <3>1 DEF Claims, ExclusivePositions
    <3>5. Accounted'
      <4> SUFFICES ASSUME NEW p \in Slot, p < discovered, p < next
                   PROVE  \/ entry'[p] \in Complete
                          \/ entry'[p] = "torn"
                          \/ \E v \in Worker : Holds(v, p)'
        BY <3>1 DEF Accounted
      <4>1. CASE p = pos[w]
        BY <4>1, <3>2
      <4>2. CASE p # pos[w]
        <5>1. \A v \in Worker : Holds(v, p) => Holds(v, p)'
          BY <4>2, <3>1 DEF Holds
        <5> QED BY <4>2, <3>2, <5>1 DEF Claims, Accounted
      <4> QED BY <4>1, <4>2
    <3>6. TornCause'
      BY <3>1, <3>2 DEF Claims, TornCause
    <3>7. ExitCause'
      BY <3>1 DEF Claims, ExitCause
    <3>8. CompleteClaimed'
      BY <3>1, <3>2 DEF Claims, CompleteClaimed, HeldInRange
    <3> QED BY <3>3, <3>4, <3>5, <3>6, <3>7, <3>8 DEF Claims
  <2>3. CASE \/ CheckToken(w) \/ LockProgress(w) \/ CountFile(w) \/ Deliver(w)
             \/ ObserverAccepts(w) \/ ObserverThrows(w)
             \/ LockFatal(w) \/ RecordFatal(w) \/ RaiseCancellation(w)
    <3>1. UNCHANGED <<entry, next, discovered, pos>>
      BY <2>3 DEF CheckToken, LockProgress, CountFile, Deliver, ObserverAccepts,
           ObserverThrows, LockFatal, RecordFatal, RaiseCancellation, mainVars, poolVars
    <3>2. /\ fatal # NoError => fatal' # NoError
          /\ cancellation => cancellation'
          /\ pc[w] \notin {"file", "exit"} /\ pc'[w] # "file"
          /\ pc[w] \in {"catch", "record"} =>
               pc'[w] \in {"catch", "record"} \/ fatal' # NoError
          /\ pc'[w] = "exit" => cancellation'
      BY <2>3 DEF CheckToken, LockProgress, CountFile, Deliver, ObserverAccepts,
           ObserverThrows, LockFatal, RecordFatal, RaiseCancellation, poolVars,
           TypeOK, Causes, PoolError
    <3>3. \A v \in Worker : v # w => pc'[v] = pc[v]
      BY <1>4, ThreadFrame
    <3>4. QuietStep
      BY <3>1, <3>2, <3>3 DEF QuietStep
    <3> QED BY <3>4, QuietStepKeepsClaims
  <2> QED BY <1>4, <2>1, <2>2, <2>3 DEF Step
<1> QED BY <1>1, <1>2, <1>3, <1>4 DEF Next, Over

-----------------------------------------------------------------------------
(***************************************************************************)
(* Why the pool is cancelled.                                              *)
(***************************************************************************)
LEMMA CausesStep ==
  TypeOK /\ Phases /\ Causes /\ [Next]_vars => Causes'
<1> SUFFICES ASSUME TypeOK, Phases, Causes, [Next]_vars PROVE Causes'
  OBVIOUS
<1> USE ParameterAssumption DEF TypeOK, Causes, PoolError, callerVars, mainVars, poolVars, threadVars, Goto, Fail
<1>1. CASE RequestStop
  BY <1>1 DEF RequestStop, Phases, BeforePool
<1>2. CASE ForwardStop
  BY <1>2 DEF ForwardStop, Phases, BeforePool
<1>3. CASE Validate
  BY <1>3 DEF Validate, Phases, BeforePool
<1>4. CASE NormalizeRoots
  BY <1>4 DEF NormalizeRoots, Phases, BeforePool
<1>5. CASE Announce
  BY <1>5 DEF Announce, Phases, BeforePool
<1>6. CASE ObserverReturns
  BY <1>6 DEF ObserverReturns, Phases, BeforePool
<1>7. CASE CollectFails
  BY <1>7 DEF CollectFails, Phases, BeforePool
<1>8. CASE CollectPath
  BY <1>8 DEF CollectPath, Phases, BeforePool
<1>9. CASE CollectIssue
  BY <1>9 DEF CollectIssue, Phases, BeforePool
<1>10. CASE CollectEnds
  BY <1>10 DEF CollectEnds, Phases, BeforePool
<1>11. CASE PrepareFiles
  BY <1>11 DEF PrepareFiles, Phases, BeforePool
<1>12. CASE RegisterCallback
  BY <1>12 DEF RegisterCallback, Phases, BeforePool
<1>13. CASE ReserveThreads
  BY <1>13 DEF ReserveThreads, Phases, BeforePool
<1>14. CASE SpawnWorker
  BY <1>14 DEF SpawnWorker, Phases, BeforePool
<1>15. CASE SpawnFails
  BY <1>15 DEF SpawnFails, Phases, BeforePool
<1>16. CASE SpawnEnds
  BY <1>16 DEF SpawnEnds, Phases, BeforePool
<1>17. CASE JoinWorker
  BY <1>17 DEF JoinWorker, Phases, BeforePool
<1>18. CASE JoinEnds
  BY <1>18 DEF JoinEnds, Phases, BeforePool
<1>19. CASE Rethrow
  BY <1>19 DEF Rethrow, Phases, BeforePool
<1>20. CASE FinalCheck
  BY <1>20 DEF FinalCheck, Phases, BeforePool
<1>21. CASE AllocationFails
  BY <1>21 DEF AllocationFails, Phases, BeforePool
<1>22. CASE Return
  BY <1>22 DEF Return, Phases, BeforePool
<1>w. ASSUME NEW w \in Worker, Step(w) PROVE Causes'
  <2>1. CASE CheckToken(w)
    BY <2>1 DEF CheckToken
  <2>2. CASE Claim(w)
    BY <2>2 DEF Claim
  <2>3. CASE FileEnds(w)
    BY <2>3 DEF FileEnds
  <2>4. CASE FileThrows(w)
    BY <2>4 DEF FileThrows
  <2>5. CASE LockProgress(w)
    BY <2>5 DEF LockProgress
  <2>6. CASE CountFile(w)
    <3>1. UNCHANGED <<stop, link, cancellation, fatal, thrown>>
      BY <2>6 DEF CountFile
    <3>2. CASE cancellation
      <4>1. err' = [err EXCEPT ![w] = "canceled"] /\ pc' = [pc EXCEPT ![w] = "catch"]
        BY <2>6, <3>2 DEF CountFile
      <4> QED BY <3>1, <3>2, <4>1
    <3>3. CASE ~cancellation
      <4>1. err' = err /\ pc' = [pc EXCEPT ![w] = "deliver"]
        BY <2>6, <3>3 DEF CountFile
      <4> QED BY <3>1, <3>3, <4>1
    <3> QED BY <3>2, <3>3
  <2>7. CASE Deliver(w)
    BY <2>7 DEF Deliver
  <2>8. CASE ObserverAccepts(w)
    BY <2>8 DEF ObserverAccepts
  <2>9. CASE ObserverThrows(w)
    BY <2>9 DEF ObserverThrows
  <2>10. CASE LockFatal(w)
    BY <2>10 DEF LockFatal
  <2>11. CASE RecordFatal(w)
    BY <2>11 DEF RecordFatal
  <2>12. CASE RaiseCancellation(w)
    BY <2>12 DEF RaiseCancellation
  <2> QED BY <1>w, <2>1, <2>2, <2>3, <2>4, <2>5, <2>6, <2>7, <2>8, <2>9, <2>10, <2>11, <2>12 DEF Step
<1>23. CASE UNCHANGED vars
  BY <1>23 DEF vars
<1> QED BY <1>1, <1>2, <1>3, <1>4, <1>5, <1>6, <1>7, <1>8, <1>9, <1>10, <1>11, <1>12, <1>13, <1>14, <1>15, <1>16, <1>17, <1>18, <1>19, <1>20, <1>21, <1>22, <1>23, <1>w DEF Next, Main, Over

-----------------------------------------------------------------------------
(***************************************************************************)
(* How the call ends.                                                      *)
(***************************************************************************)

\* When every thread has left without a cause to cancel, all is complete.
LEMMA AllComplete ==
  ASSUME TypeOK, Phases, Claims, Causes, main = "finish", fatal = NoError, ~stop
  PROVE  \A p \in 0..discovered - 1 : entry[p] \in Complete
<1>1. ~cancellation
  BY DEF Causes, Phases
<1>2. \A w \in Worker : pc[w] \in {"unborn", "exit"}
  BY AliveInPool
<1>3. SUFFICES ASSUME NEW p \in 0..discovered - 1
               PROVE  entry[p] \in Complete
  OBVIOUS
<1>4. p \in Slot /\ p < discovered
  BY <1>3, ParameterAssumption DEF TypeOK
<1>5. next >= discovered
  <2>1. 1 \in Worker /\ 1 <= joined
    BY <1>4, ParameterAssumption DEF Phases, Count, Least, TypeOK
  <2> QED BY <2>1, <1>1 DEF Phases, Claims, ExitCause
<1>6. \/ entry[p] \in Complete
      \/ entry[p] = "torn"
      \/ \E w \in Worker : Holds(w, p)
  BY <1>4, <1>5 DEF Claims, Accounted, TypeOK
<1>7. entry[p] # "torn"
  BY <1>2, <1>4 DEF Claims, TornCause
<1>8. ~\E w \in Worker : Holds(w, p)
  BY <1>2 DEF Holds
<1> QED BY <1>6, <1>7, <1>8

LEMMA EndingsStep ==
  TypeOK /\ Phases /\ Claims /\ Causes /\ Endings /\ [Next]_vars => Endings'
<1> SUFFICES ASSUME TypeOK, Phases, Claims, Causes, Endings, [Next]_vars
             PROVE  Endings'
  OBVIOUS
<1>1. ASSUME NEW w \in Worker, Step(w) PROVE Endings'
  <2>1. main \in {"spawn", "join", "unwind"} /\ outcome = "pending"
    BY <1>1, ThreadFrame, AliveInPool DEF Phases
  <2>2. main' = main /\ outcome' = outcome
    BY <1>1, ThreadFrame
  <2>3. thrown' = thrown
    BY <1>1, ThreadFrame
  <2> QED BY <2>1, <2>2, <2>3 DEF Endings
<1> USE DEF Endings, Phases, Goto, Fail, callerVars, mainVars, poolVars, threadVars
<1>2. CASE RequestStop
  BY <1>2 DEF RequestStop, BeforePool, TypeOK
<1>3. CASE ForwardStop
  BY <1>3 DEF ForwardStop, BeforePool, TypeOK
<1>4. CASE Validate
  BY <1>4 DEF Validate, BeforePool, TypeOK
<1>5. CASE NormalizeRoots
  BY <1>5 DEF NormalizeRoots, BeforePool, TypeOK
<1>6. CASE Announce
  BY <1>6 DEF Announce, BeforePool, TypeOK
<1>7. CASE ObserverReturns
  BY <1>7 DEF ObserverReturns, BeforePool, TypeOK
<1>8. CASE CollectFails
  BY <1>8 DEF CollectFails, BeforePool, TypeOK
<1>9. CASE CollectPath
  BY <1>9 DEF CollectPath, BeforePool, TypeOK
<1>10. CASE CollectIssue
  BY <1>10 DEF CollectIssue, BeforePool, TypeOK
<1>11. CASE CollectEnds
  BY <1>11 DEF CollectEnds, BeforePool, TypeOK
<1>12. CASE PrepareFiles
  BY <1>12 DEF PrepareFiles, BeforePool, TypeOK
<1>13. CASE RegisterCallback
  BY <1>13 DEF RegisterCallback, BeforePool, TypeOK
<1>14. CASE ReserveThreads
  BY <1>14 DEF ReserveThreads, BeforePool, TypeOK
<1>15. CASE SpawnWorker
  BY <1>15 DEF SpawnWorker, BeforePool, TypeOK
<1>16. CASE SpawnFails
  BY <1>16 DEF SpawnFails, BeforePool, TypeOK
<1>17. CASE SpawnEnds
  BY <1>17 DEF SpawnEnds, BeforePool, TypeOK
<1>18. CASE JoinWorker
  BY <1>18 DEF JoinWorker, BeforePool, TypeOK
<1>19. CASE JoinEnds
  BY <1>19 DEF JoinEnds, BeforePool, TypeOK
<1>20. CASE Rethrow
  BY <1>20 DEF Rethrow, BeforePool, TypeOK, Causes, PoolError
<1>21. CASE FinalCheck
  BY <1>21, AllComplete DEF FinalCheck
<1>22. CASE AllocationFails
  BY <1>22 DEF AllocationFails, BeforePool, TypeOK
<1>23. CASE Return
  BY <1>23 DEF Return, BeforePool, TypeOK
<1>24. CASE UNCHANGED vars
  BY <1>24 DEF vars
<1> QED BY <1>1, <1>2, <1>3, <1>4, <1>5, <1>6, <1>7, <1>8, <1>9, <1>10, <1>11, <1>12, <1>13, <1>14, <1>15, <1>16, <1>17, <1>18, <1>19, <1>20, <1>21, <1>22, <1>23, <1>24 DEF Next, Main, Over

-----------------------------------------------------------------------------
(***************************************************************************)
(* The theorems.                                                           *)
(***************************************************************************)
THEOREM Inductive == Spec => []IInv
<1>1. Init => IInv
  <2> SUFFICES ASSUME Init PROVE IInv
    OBVIOUS
  <2>1. TypeOK
    BY TypeInit
  <2>2. Locking
    BY ParameterAssumption DEF Init, Locking
  <2>3. Phases
    BY ParameterAssumption DEF Init, Phases, BeforePool
  <2>4. Claims
    BY DEF Init, Claims, HeldInRange, ExclusivePositions, Accounted, TornCause, ExitCause, CompleteClaimed
  <2>5. Causes
    BY DEF Init, Causes, PoolError
  <2>6. Endings
    BY DEF Init, Endings
  <2> QED BY <2>1, <2>2, <2>3, <2>4, <2>5, <2>6 DEF IInv
<1>2. IInv /\ [Next]_vars => IInv'
  BY TypeStep, LockingStep, PhasesStep, ClaimsStep, CausesStep, EndingsStep DEF IInv
<1> QED BY <1>1, <1>2, PTL DEF Spec

\* process_file runs on each record in one thread only: the atomic counter is
\* all the exclusion result.files needs.
THEOREM PositionsExclusive == Spec => []ExclusivePositions
<1>1. IInv => ExclusivePositions
  BY DEF IInv, Claims
<1> QED BY <1>1, Inductive, PTL

\* A scan that returns has processed every file it enumerated; a stop, a
\* failure or a thread that is missing never yields a partial result.
THEOREM ResultComplete == Spec => []CompleteResult
<1>1. IInv => CompleteResult
  <2> SUFFICES ASSUME IInv, outcome = "result"
               PROVE  /\ \A p \in 0..discovered - 1 : entry[p] \in Complete
                      /\ \A w \in Worker : pc[w] \in {"unborn", "exit"}
    BY DEF CompleteResult
  <2>1. main = "over"
    BY DEF IInv, Phases
  <2> QED BY <2>1, AliveInPool DEF IInv, Endings
<1> QED BY <1>1, Inductive, PTL

\* Only a caller that asked to stop is told that the scan was cancelled.
THEOREM CancellationTruthful == Spec => []CancelledOnlyIfStopped
<1>1. IInv => CancelledOnlyIfStopped
  BY DEF IInv, Phases, Endings, Causes, CancelledOnlyIfStopped
<1> QED BY <1>1, Inductive, PTL

\* The exception that stopped the pool is the one the caller receives.
THEOREM FirstFailureReported == Spec => []FailureReported
<1>1. IInv => FailureReported
  BY DEF IInv, Phases, Endings, FailureReported
<1> QED BY <1>1, Inductive, PTL

\* Two observer calls never overlap, and none is under way once the call ends.
THEOREM ReportsSerialized == Spec => []SerializedReports
<1>1. IInv => SerializedReports
  <2> SUFFICES ASSUME IInv PROVE SerializedReports
    OBVIOUS
  <2>1. \A w \in Observing : w \in Worker /\ progressLock = w
    BY DEF IInv, Locking, Observing
  <2>2. ASSUME NEW w \in Observing PROVE main \in {"spawn", "join", "unwind"}
    BY AliveInPool DEF IInv, Observing
  <2> QED BY <2>1, <2>2 DEF SerializedReports
<1> QED BY <1>1, Inductive, PTL

-----------------------------------------------------------------------------
(***************************************************************************)
(* Steps of the pool as steps of ScanContract.                             *)
(***************************************************************************)

\* No step but FileEnds completes a record, and none undoes one.
LEMMA EntryStep ==
  ASSUME IInv, [Next]_vars
  PROVE  \/ Finished' = Finished
         \/ \E w \in Worker : /\ FileEnds(w)
                             /\ pos[w] \in 0..discovered - 1
                             /\ Finished' = Finished \cup {pos[w]}
<1> USE DEF IInv, Finished
<1>1. CASE UNCHANGED entry
  BY <1>1
<1>2. CASE PrepareFiles
  <2>1. \A p \in Slot : entry[p] \notin Complete
    BY <1>2 DEF PrepareFiles, Phases, BeforePool, Claims, CompleteClaimed
  <2>2. \A p \in Slot : entry'[p] \notin Complete
    BY <1>2 DEF PrepareFiles
  <2> QED BY <2>1, <2>2
<1>3. ASSUME NEW w \in Worker, Claim(w) PROVE Finished' = Finished
  <2>1. CASE UNCHANGED entry
    BY <2>1
  <2>2. CASE next < discovered /\ entry' = [entry EXCEPT ![next] = "busy"]
    <3>1. next \in Slot /\ entry[next] \notin Complete
      BY <2>2, ParameterAssumption DEF TypeOK, Claims, CompleteClaimed
    <3> QED BY <2>2, <3>1 DEF TypeOK
  <2> QED BY <1>3, <2>1, <2>2 DEF Claim, TypeOK
<1>4. ASSUME NEW w \in Worker, FileEnds(w) \/ FileThrows(w)
      PROVE  \/ Finished' = Finished
             \/ /\ FileEnds(w)
                /\ pos[w] \in 0..discovered - 1
                /\ Finished' = Finished \cup {pos[w]}
  <2>1. /\ pos[w] \in Slot /\ pos[w] \in 0..discovered - 1
        /\ entry[pos[w]] = "busy"
    BY <1>4 DEF FileEnds, FileThrows, Claims, HeldInRange, TypeOK
  <2>2. \A p \in Slot : p # pos[w] => entry'[p] = entry[p]
    BY <1>4, <2>1 DEF FileEnds, FileThrows, TypeOK
  <2>3. CASE FileEnds(w)
    <3>1. entry'[pos[w]] \in Complete
      BY <2>1, <2>3 DEF FileEnds, TypeOK
    <3> QED BY <2>1, <2>2, <2>3, <3>1
  <2>4. CASE FileThrows(w)
    <3>1. entry'[pos[w]] = "torn"
      BY <2>1, <2>4 DEF FileThrows, TypeOK
    <3> QED BY <2>1, <2>2, <3>1
  <2> QED BY <1>4, <2>3, <2>4
<1>5. RequestStop \/ ForwardStop \/ Main \/ UNCHANGED vars => UNCHANGED entry \/ PrepareFiles
  BY DEF RequestStop, ForwardStop, Main, Validate, NormalizeRoots, Announce, ObserverReturns, CollectFails, CollectPath, CollectIssue, CollectEnds, PrepareFiles, RegisterCallback, ReserveThreads, SpawnWorker, SpawnFails, SpawnEnds, JoinWorker, JoinEnds, Rethrow, FinalCheck, AllocationFails, Return, Goto, Fail, callerVars, mainVars, poolVars, vars
<1>6. ASSUME NEW w \in Worker, Step(w)
      PROVE  UNCHANGED entry \/ Claim(w) \/ FileEnds(w) \/ FileThrows(w)
  BY <1>6 DEF Step, CheckToken, LockProgress, CountFile, Deliver, ObserverAccepts,
       ObserverThrows, LockFatal, RecordFatal, RaiseCancellation, poolVars
<1> QED BY <1>1, <1>2, <1>3, <1>4, <1>5, <1>6 DEF Next, Over

\* The variables the caller sees change as the contract says.
LEMMA ContractStep ==
  ASSUME IInv, IInv', [Next]_vars
  PROVE  [Contract!Next]_(Contract!vars)
<1> USE DEF Contract!vars
<1>1. ASSUME NEW w \in Worker, Step(w) PROVE [Contract!Next]_(Contract!vars)
  <2>1. UNCHANGED <<stop, discovered, outcome>> /\ outcome = "pending"
    BY <1>1, ThreadFrame, AliveInPool DEF IInv, Phases
  <2>2. CASE Finished' = Finished
    BY <2>1, <2>2
  <2>3. ASSUME NEW p \in 0..discovered - 1, Finished' = Finished \cup {p}
        PROVE  Contract!Next
    <3>1. Contract!Finish(p)
      BY <2>1, <2>3 DEF Contract!Finish
    <3> QED BY <3>1 DEF Contract!Next
  <2> QED BY <2>2, <2>3, EntryStep
<1>2. CASE RequestStop \/ ForwardStop \/ UNCHANGED vars
  <2>1. Finished' = Finished
    BY <1>2 DEF RequestStop, ForwardStop, vars, poolVars, Finished
  <2> QED BY <1>2, <2>1 DEF RequestStop, ForwardStop, vars, callerVars, mainVars,
              Contract!RequestStop, Contract!Next
<1>3. CASE CollectPath
  <2>1. Finished' = Finished /\ Finished = {}
    BY <1>3 DEF CollectPath, poolVars, Finished, IInv, Phases, BeforePool, Claims,
                CompleteClaimed
  <2>2. UNCHANGED <<stop, outcome>> /\ outcome = "pending"
    BY <1>3 DEF CollectPath, IInv, Phases
  <2>3. discovered' \in {discovered, discovered + 1}
    BY <1>3 DEF CollectPath
  <2> QED BY <2>1, <2>2, <2>3 DEF Contract!Enumerate, Contract!Next
<1>4. CASE Return
  <2>1. UNCHANGED <<stop, discovered>> /\ Finished' = Finished /\ outcome = "pending"
    BY <1>4 DEF Return, poolVars, Finished, IInv, Phases
  <2>2. CASE main = "merge"
    <3>1. Finished = 0..discovered - 1
      <4>1. \A p \in 0..discovered - 1 : entry[p] \in Complete
        BY <2>2 DEF IInv, Endings
      <4>2. 0..discovered - 1 \subseteq Slot
        BY ParameterAssumption DEF IInv, TypeOK
      <4> QED BY <4>1, <4>2 DEF Finished, IInv, Claims, CompleteClaimed, TypeOK
    <3>2. discovered <= MaxFiles /\ outcome' = "result"
      BY <1>4, <2>2, ParameterAssumption DEF Return, IInv, TypeOK
    <3> QED BY <2>1, <3>1, <3>2 DEF Contract!Return, Contract!Next
  <2>3. CASE main = "throw"
    <3>1. thrown \in Error /\ outcome' = thrown
      BY <1>4, <2>3 DEF Return, IInv, TypeOK
    <3>2. thrown = "canceled" => stop
      BY DEF IInv, Causes
    <3>3. thrown = "budget" => discovered = MaxFiles /\ Finished = {}
      BY DEF IInv, Endings, Finished, Claims, CompleteClaimed
    <3>4. Contract!Throw(thrown)
      BY <2>1, <3>1, <3>2, <3>3 DEF Contract!Throw
    <3> QED BY <3>1, <3>4 DEF Contract!Next
  <2> QED BY <1>4, <2>2, <2>3 DEF Return
<1>5. ASSUME Main, ~CollectPath, ~Return PROVE UNCHANGED Contract!vars
  <2>1. UNCHANGED <<stop, discovered, outcome>>
    BY <1>5 DEF Main, Validate, NormalizeRoots, Announce, ObserverReturns, CollectFails, CollectPath, CollectIssue, CollectEnds, PrepareFiles, RegisterCallback, ReserveThreads, SpawnWorker, SpawnFails, SpawnEnds, JoinWorker, JoinEnds, Rethrow, FinalCheck, AllocationFails, Return, Goto, Fail, callerVars, mainVars, callerVars
  <2>2. \A w \in Worker : ~FileEnds(w) \/ Finished' = Finished
    <3> SUFFICES ASSUME NEW w \in Worker, FileEnds(w) PROVE FALSE
      OBVIOUS
    <3>1. pc[w] = "file" /\ pc'[w] # "file" /\ UNCHANGED main
      BY DEF FileEnds, IInv, TypeOK, mainVars
    <3>2. SpawnWorker \/ UNCHANGED pc
      BY <1>5, CallerFrame
    <3> QED BY <3>1, <3>2, ParameterAssumption DEF SpawnWorker, FileEnds, mainVars, IInv, TypeOK
  <2> QED BY <2>1, <2>2, EntryStep
<1> QED BY <1>1, <1>2, <1>3, <1>4, <1>5 DEF Next, Over

\* Every behaviour of the pool is one of the contract: whatever the threads
\* do, the caller sees files finish, at most one stop, and one ending that is
\* a complete result or an error with its cause.
THEOREM ContractSafety == Spec => Contract!Safety
<1>1. Init => Contract!Init
  BY DEF Init, Contract!Init, Finished
<1>2. IInv /\ IInv' /\ [Next]_vars => [Contract!Next]_(Contract!vars)
  BY ContractStep
<1> QED BY <1>1, <1>2, Inductive, PTL DEF Spec, Contract!Safety

\* A finished record never changes again, and none changes after the call.
THEOREM EntriesStable == Spec => FinishedEntriesStable
<1>1. IInv /\ [Next]_vars =>
        [/\ \A p \in Slot : entry[p] \in Complete => entry'[p] = entry[p]
         /\ outcome # "pending" => entry' = entry]_vars
  <2> SUFFICES ASSUME IInv, Next
               PROVE  /\ \A p \in Slot : entry[p] \in Complete => entry'[p] = entry[p]
                      /\ outcome # "pending" => entry' = entry
    BY DEF vars
  <2>1. CASE UNCHANGED entry
    BY <2>1
  <2>2. CASE PrepareFiles
    BY <2>2 DEF PrepareFiles, IInv, Phases, BeforePool, Claims, CompleteClaimed
  <2>3. ASSUME NEW w \in Worker, Claim(w) \/ FileEnds(w) \/ FileThrows(w)
        PROVE  /\ \A p \in Slot : entry[p] \in Complete => entry'[p] = entry[p]
               /\ outcome = "pending"
    <3>1. outcome = "pending"
      BY <2>3, AliveInPool DEF Claim, FileEnds, FileThrows, IInv, Phases
    <3>2. PICK q : /\ q \in Slot => entry[q] \notin Complete
                   /\ \A p \in Slot : p # q => entry'[p] = entry[p]
      <4>1. CASE Claim(w)
        <5>1. next \in Slot => entry[next] \notin Complete
          BY DEF IInv, TypeOK, Claims, CompleteClaimed
        <5>2. \A p \in Slot : p # next => entry'[p] = entry[p]
          BY <4>1 DEF Claim, IInv, TypeOK
        <5> QED BY <5>1, <5>2
      <4>2. CASE FileEnds(w) \/ FileThrows(w)
        <5>1. entry[pos[w]] \notin Complete
          BY <4>2 DEF FileEnds, FileThrows, IInv, Claims, HeldInRange
        <5>2. \A p \in Slot : p # pos[w] => entry'[p] = entry[p]
          BY <4>2 DEF FileEnds, FileThrows, IInv, TypeOK
        <5> QED BY <5>1, <5>2
      <4> QED BY <2>3, <4>1, <4>2
    <3> QED BY <3>1, <3>2
  <2>4. RequestStop \/ ForwardStop \/ Main \/ UNCHANGED vars => UNCHANGED entry \/ PrepareFiles
    BY DEF RequestStop, ForwardStop, Main, Validate, NormalizeRoots, Announce, ObserverReturns, CollectFails, CollectPath, CollectIssue, CollectEnds, PrepareFiles, RegisterCallback, ReserveThreads, SpawnWorker, SpawnFails, SpawnEnds, JoinWorker, JoinEnds, Rethrow, FinalCheck, AllocationFails, Return, Goto, Fail, callerVars, mainVars, poolVars, vars
  <2>5. ASSUME NEW w \in Worker, Step(w)
        PROVE  UNCHANGED entry \/ Claim(w) \/ FileEnds(w) \/ FileThrows(w)
    BY <2>5 DEF Step, CheckToken, LockProgress, CountFile, Deliver, ObserverAccepts,
         ObserverThrows, LockFatal, RecordFatal, RaiseCancellation, poolVars
  <2> QED BY <2>1, <2>2, <2>3, <2>4, <2>5 DEF Next, Over
<1> QED BY <1>1, Inductive, PTL DEF Spec, FinishedEntriesStable

-----------------------------------------------------------------------------
(***************************************************************************)
(* The progress counts.                                                    *)
(***************************************************************************)

\* Files processed and not counted yet.
Waiting == {w \in Worker : pc[w] \in {"lock", "check"}}

\* An exception of the pool is recorded or about to be.
Failing == fatal # NoError \/ \E w \in Worker : pc[w] \in {"catch", "record"}

\* Each finished file is counted or waits to be, unless its count was
\* refused; without an observer nothing is counted.
Counting ==
  /\ progress => completed + Cardinality(Waiting) <= Cardinality(Finished)
  /\ progress /\ ~Failing =>
       completed + Cardinality(Waiting) = Cardinality(Finished)
  /\ ~progress => completed = 0 /\ Waiting = {}

\* The last report is the last count, but for the one being delivered.
Reporting ==
  /\ report.discovered <= discovered
  /\ main \in BeforePool => completed = 0
  /\ (\A w \in Worker : pc[w] # "deliver") => completed = report.completed
  /\ \A w \in Worker : pc[w] = "deliver" =>
       arg[w] = completed /\ completed = report.completed + 1

LEMMA FinishedInRange ==
  ASSUME IInv
  PROVE  /\ discovered \in Nat
         /\ 0..discovered - 1 \subseteq Slot
         /\ Finished \subseteq 0..discovered - 1
<1>1. MaxFiles \in Nat /\ discovered \in 0..MaxFiles
  BY ParameterAssumption DEF IInv, TypeOK
<1>2. \A p \in Finished : p \in Slot /\ p < discovered
  BY DEF Finished, IInv, Claims, CompleteClaimed
<1>3. \A p \in Slot : p < discovered => p \in 0..discovered - 1
  BY <1>1
<1> QED BY <1>1, <1>2, <1>3

\* Nobody has started before the pool.
LEMMA NoneStarted ==
  ASSUME TypeOK, Phases, main \in BeforePool
  PROVE  \A w \in Worker : pc[w] = "unborn"
<1>1. spawned = 0 /\ \A w \in Worker : w > spawned
  BY ParameterAssumption DEF Phases
<1> QED BY <1>1 DEF Phases

LEMMA CountsFinite ==
  ASSUME IInv
  PROVE  /\ IsFiniteSet(Waiting) /\ Cardinality(Waiting) \in Nat
         /\ IsFiniteSet(Finished) /\ Cardinality(Finished) \in Nat
         /\ Cardinality(Finished) <= discovered
<1>1. IsFiniteSet(Worker)
  <2>1. 1 \in Int /\ Workers \in Int
    BY ParameterAssumption
  <2> QED BY <2>1, FS_Interval
<1>2. IsFiniteSet(Waiting)
  BY <1>1, FS_Subset DEF Waiting
<1>3. discovered \in Nat /\ 0..discovered - 1 \subseteq Int
  BY ParameterAssumption DEF IInv, TypeOK
<1>4. IsFiniteSet(0..discovered - 1) /\ Cardinality(0..discovered - 1) = discovered
  BY <1>3, FS_Interval
<1>5. Finished \subseteq 0..discovered - 1
  BY FinishedInRange
<1>6. IsFiniteSet(Finished) /\ Cardinality(Finished) <= Cardinality(0..discovered - 1)
  BY <1>4, <1>5, FS_Subset
<1> QED BY <1>2, <1>4, <1>6, FS_CardinalityType

\* A failure of the pool is never forgotten.
LEMMA FailingStable == IInv /\ Failing /\ [Next]_vars => Failing'
<1> SUFFICES ASSUME IInv, Failing, [Next]_vars PROVE Failing'
  OBVIOUS
<1>1. CASE RequestStop \/ ForwardStop \/ Main \/ UNCHANGED vars
  <2>1. CASE SpawnWorker
    BY <2>1, ParameterAssumption DEF SpawnWorker, Failing, IInv, TypeOK, Phases, Count, Least, poolVars
  <2>2. CASE UNCHANGED <<fatal, pc>>
    BY <2>2 DEF Failing
  <2> QED BY <1>1, <2>1, <2>2, CallerFrame
<1>2. ASSUME NEW w \in Worker, Step(w) PROVE Failing'
  <2>1. CASE RecordFatal(w)
    <3>1. fatal' # NoError
      BY <2>1 DEF RecordFatal, IInv, Causes, PoolError
    <3> QED BY <3>1 DEF Failing
  <2>2. CASE LockFatal(w)
    BY <2>2 DEF LockFatal, Failing, IInv, TypeOK
  <2>3. CASE fatal' = fatal /\ pc[w] \notin {"catch", "record"}
    <3>1. \A v \in Worker : v # w => pc'[v] = pc[v]
      BY <1>2, ThreadFrame DEF IInv
    <3> QED BY <2>3, <3>1 DEF Failing
  <2>4. RecordFatal(w) \/ LockFatal(w) \/ fatal' = fatal
    BY <1>2 DEF Step, CheckToken, Claim, FileEnds, FileThrows, LockProgress, CountFile, Deliver,
         ObserverAccepts, ObserverThrows, RaiseCancellation, poolVars
  <2>5. RecordFatal(w) \/ LockFatal(w) \/ pc[w] \notin {"catch", "record"}
    BY <1>2 DEF Step, CheckToken, Claim, FileEnds, FileThrows, LockProgress, CountFile, Deliver,
         ObserverAccepts, ObserverThrows, RaiseCancellation
  <2> QED BY <2>1, <2>2, <2>3, <2>4, <2>5
<1> QED BY <1>1, <1>2 DEF Next, Over

LEMMA CountingStep == IInv /\ Counting /\ [Next]_vars => Counting'
<1> SUFFICES ASSUME IInv, Counting, [Next]_vars PROVE Counting'
  OBVIOUS
<1>f. Failing => Failing'
  BY FailingStable
<1>g. /\ Cardinality(Waiting) \in Nat /\ IsFiniteSet(Waiting)
      /\ Cardinality(Finished) \in Nat /\ IsFiniteSet(Finished)
      /\ completed \in Nat
  BY CountsFinite DEF IInv, TypeOK
<1>1. CASE RequestStop \/ ForwardStop \/ Main \/ UNCHANGED vars
  <2>1. progress' = progress /\ completed' = completed
    BY <1>1 DEF RequestStop, ForwardStop, Main, Validate, NormalizeRoots, Announce, ObserverReturns, CollectFails, CollectPath, CollectIssue, CollectEnds, PrepareFiles, RegisterCallback, ReserveThreads, SpawnWorker, SpawnFails, SpawnEnds, JoinWorker, JoinEnds, Rethrow, FinalCheck, AllocationFails, Return, callerVars, mainVars, poolVars, vars
  <2>2. Waiting' = Waiting
    <3>1. CASE SpawnWorker
      BY <3>1, ParameterAssumption DEF SpawnWorker, Waiting, IInv, TypeOK, Phases, Count, Least
    <3> QED BY <1>1, <3>1, CallerFrame DEF Waiting
  <2>3. Finished' = Finished
    <3>1. \A w \in Worker : ~FileEnds(w)
      <4> SUFFICES ASSUME NEW w \in Worker, FileEnds(w) PROVE FALSE
        OBVIOUS
      <4>1. pc[w] = "file" /\ pc'[w] # "file" /\ UNCHANGED spawned
        BY DEF FileEnds, IInv, TypeOK, mainVars
      <4>2. SpawnWorker \/ UNCHANGED pc
        BY <1>1, CallerFrame
      <4> QED BY <4>1, <4>2, ParameterAssumption DEF SpawnWorker, IInv, TypeOK
    <3> QED BY <3>1, EntryStep
  <2> QED BY <1>f, <2>1, <2>2, <2>3 DEF Counting
<1>2. ASSUME NEW w \in Worker, Step(w) PROVE Counting'
  <2>1. progress' = progress /\ \A v \in Worker : v # w => pc'[v] = pc[v]
    BY <1>2, ThreadFrame DEF IInv
  <2>2. CASE FileEnds(w)
    <3>1. /\ pc[w] = "file" /\ completed' = completed
          /\ pc'[w] = IF progress THEN "lock" ELSE "loop"
      BY <2>2 DEF FileEnds, IInv, TypeOK
    <3>2. pos[w] \in Slot /\ pos[w] \notin Finished
      <4>1. pos[w] \in Slot /\ entry[pos[w]] = "busy"
        BY <3>1 DEF IInv, Claims, HeldInRange
      <4> QED BY <4>1 DEF Finished
    <3>3. Finished' = Finished \cup {pos[w]}
      BY <2>2, <3>2 DEF FileEnds, Finished, IInv, TypeOK
    <3>4. Cardinality(Finished') = Cardinality(Finished) + 1
      BY <1>g, <3>2, <3>3, FS_AddElement
    <3>5. CASE progress
      <4>1. w \notin Waiting /\ Waiting' = Waiting \cup {w}
        BY <2>1, <3>1, <3>5 DEF Waiting
      <4>2. Cardinality(Waiting') = Cardinality(Waiting) + 1
        BY <1>g, <4>1, FS_AddElement
      <4> QED BY <1>f, <1>g, <2>1, <3>1, <3>4, <3>5, <4>2 DEF Counting
    <3>6. CASE ~progress
      <4>1. Waiting' = Waiting
        BY <2>1, <3>1, <3>6 DEF Waiting
      <4> QED BY <2>1, <3>1, <3>6, <4>1 DEF Counting
    <3> QED BY <3>5, <3>6
  <2>3. CASE CountFile(w)
    <3>1. /\ pc[w] = "check" /\ w \in Waiting
          /\ \/ pc'[w] = "catch" /\ completed' = completed
             \/ pc'[w] = "deliver" /\ completed' = completed + 1
      BY <2>3 DEF CountFile, IInv, TypeOK, Waiting
    <3>2. Waiting' = Waiting \ {w}
      BY <2>1, <3>1 DEF Waiting
    <3>3. Cardinality(Waiting') = Cardinality(Waiting) - 1
      BY <1>g, <3>1, <3>2, FS_RemoveElement
    <3>4. Finished' = Finished
      BY <2>3 DEF CountFile, Finished
    <3>5. pc'[w] = "catch" => Failing'
      BY DEF Failing
    <3> QED BY <1>f, <1>g, <2>1, <3>1, <3>3, <3>4, <3>5 DEF Counting
  <2>4. CASE /\ UNCHANGED <<completed, Finished>>
             /\ pc[w] \in {"lock", "check"} <=> pc'[w] \in {"lock", "check"}
    <3>1. Waiting' = Waiting
      BY <2>1, <2>4 DEF Waiting
    <3> QED BY <1>f, <2>1, <2>4, <3>1 DEF Counting
  <2>5. CASE Claim(w) \/ FileThrows(w)
    <3>1. /\ UNCHANGED completed /\ pc[w] \notin {"lock", "check"}
          /\ pc'[w] \notin {"lock", "check"} /\ pc[w] # pc'[w]
      BY <2>5 DEF Claim, FileThrows, IInv, TypeOK
    <3>2. \A v \in Worker : ~FileEnds(v)
      <4> SUFFICES ASSUME NEW v \in Worker, FileEnds(v) PROVE FALSE
        OBVIOUS
      <4>1. pc[v] = "file" /\ pc'[v] \in {"lock", "loop"}
        BY DEF FileEnds, IInv, TypeOK
      <4> QED BY <2>1, <2>5, <4>1 DEF Claim, FileThrows, IInv, TypeOK
    <3>3. Finished' = Finished
      BY <3>2, EntryStep
    <3> QED BY <2>4, <3>1, <3>3
  <2>6. CASE \/ CheckToken(w) \/ LockProgress(w) \/ Deliver(w) \/ ObserverAccepts(w)
             \/ ObserverThrows(w) \/ LockFatal(w) \/ RecordFatal(w) \/ RaiseCancellation(w)
    <3>1. UNCHANGED <<completed, entry>>
      BY <2>6 DEF CheckToken, LockProgress, Deliver, ObserverAccepts, ObserverThrows,
           LockFatal, RecordFatal, RaiseCancellation, poolVars
    <3>2. pc[w] \in {"lock", "check"} <=> pc'[w] \in {"lock", "check"}
      BY <2>6 DEF CheckToken, LockProgress, Deliver, ObserverAccepts, ObserverThrows,
           LockFatal, RecordFatal, RaiseCancellation, IInv, TypeOK
    <3> QED BY <2>4, <3>1, <3>2 DEF Finished
  <2> QED BY <1>2, <2>2, <2>3, <2>5, <2>6 DEF Step
<1> QED BY <1>1, <1>2 DEF Next, Over

LEMMA ReportingStep == IInv /\ Reporting /\ [Next]_vars => Reporting'
<1> SUFFICES ASSUME IInv, Reporting, [Next]_vars PROVE Reporting'
  OBVIOUS
<1>t. report \in [discovered : 0..MaxFiles, completed : Nat] /\ completed \in Nat /\ discovered \in Nat
  BY ParameterAssumption DEF IInv, TypeOK
<1>1. CASE Announce \/ CollectPath
  <2>1. \A w \in Worker : pc[w] = "unborn"
    BY <1>1, NoneStarted DEF Announce, CollectPath, IInv, BeforePool
  <2>2. UNCHANGED <<pc, completed>> /\ completed = 0
    BY <1>1 DEF Announce, CollectPath, Reporting, BeforePool, threadVars, poolVars
  <2>3. \/ UNCHANGED report
        \/ report' = [discovered |-> discovered', completed |-> 0]
    BY <1>1 DEF Announce, CollectPath
  <2>4. discovered' \in {discovered, discovered + 1}
    BY <1>1 DEF Announce, CollectPath
  <2> QED BY <1>t, <2>1, <2>2, <2>3, <2>4 DEF Reporting
<1>2. CASE (RequestStop \/ ForwardStop \/ Main \/ UNCHANGED vars) /\ ~Announce /\ ~CollectPath
  <2>1. UNCHANGED <<report, discovered>> /\ (main' \in BeforePool => main \in BeforePool)
    BY <1>2 DEF RequestStop, ForwardStop, Main, Validate, NormalizeRoots, ObserverReturns, CollectFails, CollectIssue, CollectEnds, PrepareFiles, RegisterCallback, ReserveThreads, SpawnWorker, SpawnFails, SpawnEnds, JoinWorker, JoinEnds, Rethrow, FinalCheck, AllocationFails, Return, callerVars, mainVars, poolVars, vars, BeforePool, Goto, Fail
  <2>2. UNCHANGED <<arg, completed>>
    BY <1>2, CallerFrame DEF SpawnWorker, poolVars
  <2>3. \A w \in Worker : pc'[w] = "deliver" <=> pc[w] = "deliver"
    <3>1. CASE SpawnWorker
      BY <3>1, ParameterAssumption DEF SpawnWorker, IInv, TypeOK, Phases, Count, Least
    <3> QED BY <1>2, <3>1, CallerFrame
  <2> QED BY <2>1, <2>2, <2>3 DEF Reporting
<1>3. ASSUME NEW w \in Worker, Step(w) PROVE Reporting'
  <2>1. /\ UNCHANGED <<main, discovered>>
        /\ \A v \in Worker : v # w => pc'[v] = pc[v]
        /\ main \notin BeforePool
    BY <1>3, ThreadFrame, AliveInPool DEF IInv, BeforePool
  <2>2. CASE CountFile(w)
    <3>1. pc[w] = "check" /\ UNCHANGED report
      BY <2>2 DEF CountFile, callerVars
    <3>2. \A v \in Worker : pc[v] # "deliver"
      BY <3>1 DEF IInv, Locking
    <3>3. \/ pc'[w] = "catch" /\ UNCHANGED completed
          \/ pc'[w] = "deliver" /\ completed' = completed + 1 /\ arg'[w] = completed'
      BY <2>2 DEF CountFile, IInv, TypeOK
    <3> QED BY <2>1, <3>1, <3>2, <3>3 DEF Reporting
  <2>3. CASE Deliver(w)
    <3>1. /\ pc[w] = "deliver" /\ pc'[w] = "observe" /\ UNCHANGED completed
          /\ report' = [discovered |-> discovered, completed |-> arg[w]]
      BY <2>3 DEF Deliver, IInv, TypeOK, poolVars
    <3>2. \A v \in Worker : v # w => pc[v] # "deliver"
      BY <3>1 DEF IInv, Locking
    <3> QED BY <1>t, <2>1, <3>1, <3>2 DEF Reporting
  <2>4. CASE UNCHANGED <<report, completed, arg>> /\ (pc'[w] = "deliver" <=> pc[w] = "deliver")
    BY <2>1, <2>4 DEF Reporting
  <2>5. CountFile(w) \/ Deliver(w) \/ UNCHANGED <<report, completed, arg>>
    BY <1>3 DEF Step, CheckToken, Claim, FileEnds, FileThrows, LockProgress,
         ObserverAccepts, ObserverThrows, LockFatal, RecordFatal, RaiseCancellation, poolVars, callerVars
  <2>6. CountFile(w) \/ Deliver(w) \/ (pc'[w] = "deliver" <=> pc[w] = "deliver")
    BY <1>3 DEF Step, CheckToken, Claim, FileEnds, FileThrows, LockProgress,
         ObserverAccepts, ObserverThrows, LockFatal, RecordFatal, RaiseCancellation, IInv, TypeOK
  <2> QED BY <2>2, <2>3, <2>4, <2>5, <2>6
<1> QED BY <1>1, <1>2, <1>3 DEF Next, Over

LEMMA CountsInvariant == Spec => [](Counting /\ Reporting)
<1>1. Init => Counting /\ Reporting
  <2> SUFFICES ASSUME Init PROVE Counting /\ Reporting
    OBVIOUS
  <2>1. Waiting = {} /\ completed = 0
    BY DEF Init, Waiting
  <2>3. Finished = {}
    BY DEF Init, Finished
  <2>2. Cardinality({}) = 0
    BY FS_EmptySet
  <2> QED BY <2>1, <2>2, <2>3 DEF Counting, Reporting, Init
<1>2. IInv /\ Counting /\ Reporting /\ [Next]_vars => (Counting /\ Reporting)'
  BY CountingStep, ReportingStep
<1> QED BY <1>1, <1>2, Inductive, PTL DEF Spec

\* The observer of a completed scan was told of every file.
THEOREM EveryFileCounted == Spec => []EveryFileReported
<1>1. IInv /\ Counting => EveryFileReported
  <2> SUFFICES ASSUME IInv, Counting PROVE EveryFileReported
    OBVIOUS
  <2>1. completed <= discovered
    <3>1. completed \in Nat /\ progress \in BOOLEAN
      BY DEF IInv, TypeOK
    <3> QED BY <3>1, CountsFinite, FinishedInRange DEF Counting
  <2>2. ASSUME outcome = "result", progress PROVE completed = discovered
    <3>1. main = "over" /\ ~Failing /\ Waiting = {}
      <4>1. main = "over" /\ fatal = NoError
        BY <2>2 DEF IInv, Phases, Endings
      <4>2. \A w \in Worker : pc[w] \in {"unborn", "exit"}
        BY <4>1, AliveInPool DEF IInv
      <4> QED BY <4>1, <4>2 DEF Failing, Waiting
    <3>2. discovered \in Nat /\ 0..discovered - 1 \subseteq Slot
      BY FinishedInRange
    <3>3. Finished = 0..discovered - 1
      <4>1. \A p \in 0..discovered - 1 : entry[p] \in Complete
        BY <2>2 DEF IInv, Endings
      <4> QED BY <3>2, <4>1, FinishedInRange DEF Finished
    <3>4. Cardinality(Finished) = discovered
      BY <3>2, <3>3, FS_Interval
    <3>5. Cardinality(Waiting) = 0
      BY <3>1, FS_EmptySet
    <3> QED BY <2>2, <3>1, <3>4, <3>5 DEF Counting, IInv, TypeOK
  <2> QED BY <2>1, <2>2 DEF EveryFileReported
<1> QED BY <1>1, Inductive, CountsInvariant, PTL

\* Successive reports never go back, and in the pool each counts one file more.
THEOREM ReportsMonotonic == Spec => MonotonicReports
<1>1. IInv /\ Reporting /\ [Next]_vars =>
        [report' # report =>
           /\ report'.discovered >= report.discovered
           /\ report'.completed \in {report.completed, report.completed + 1}]_vars
  <2> SUFFICES ASSUME IInv, Reporting, [Next]_vars, report' # report
               PROVE  /\ report'.discovered >= report.discovered
                      /\ report'.completed \in {report.completed, report.completed + 1}
    OBVIOUS
  <2>t. report \in [discovered : 0..MaxFiles, completed : Nat] /\ completed \in Nat /\ discovered \in Nat
    BY ParameterAssumption DEF IInv, TypeOK
  <2>1. CASE Announce \/ CollectPath
    <3>1. \A w \in Worker : pc[w] = "unborn"
      BY <2>1, NoneStarted DEF Announce, CollectPath, IInv, BeforePool
    <3>2. report.completed = 0
      BY <2>1, <3>1 DEF Announce, CollectPath, Reporting, BeforePool
    <3>3. \E n \in {discovered, discovered + 1} : report' = [discovered |-> n, completed |-> 0]
      BY <2>1 DEF Announce, CollectPath
    <3> QED BY <2>t, <3>2, <3>3 DEF Reporting
  <2>2. ASSUME NEW w \in Worker, Deliver(w)
        PROVE  /\ report'.discovered >= report.discovered
               /\ report'.completed \in {report.completed, report.completed + 1}
    BY <2>2, <2>t DEF Deliver, Reporting
  <2>3. RequestStop \/ ForwardStop \/ Main \/ UNCHANGED vars => Announce \/ CollectPath
    BY DEF RequestStop, ForwardStop, Main, Validate, NormalizeRoots, ObserverReturns, CollectFails, CollectIssue, CollectEnds, PrepareFiles, RegisterCallback, ReserveThreads, SpawnWorker, SpawnFails, SpawnEnds, JoinWorker, JoinEnds, Rethrow, FinalCheck, AllocationFails, Return, callerVars, vars
  <2>4. \A w \in Worker : Step(w) => Deliver(w)
    BY DEF Step, CheckToken, Claim, FileEnds, FileThrows, LockProgress, CountFile,
         ObserverAccepts, ObserverThrows, LockFatal, RecordFatal, RaiseCancellation, callerVars
  <2> QED BY <2>1, <2>2, <2>3, <2>4 DEF Next, Over
<1> QED BY <1>1, Inductive, CountsInvariant, PTL DEF Spec, MonotonicReports
=============================================================================
