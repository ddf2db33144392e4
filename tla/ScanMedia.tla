------------------------------ MODULE ScanMedia ------------------------------
(***************************************************************************)
(* One call of scan_media (src/scan/scanner.cpp): the calling thread       *)
(* validates, enumerates the files and starts a pool of jthreads that      *)
(* claim positions of result.files from one atomic counter.  Everything    *)
(* that can stop the pool early is here: the caller's stop token and the   *)
(* stop_callback that forwards it, an exception of a file or of the        *)
(* progress observer, and a thread that cannot be created.                 *)
(*                                                                         *)
(* process_file is one step with the outcomes it can have (its own steps   *)
(* are in module ProcessFile).  Paths and messages are abstracted: a file  *)
(* is its position in result.files.                                        *)
(***************************************************************************)
EXTENDS Integers

CONSTANTS Workers,     \* options.workers
          MaxFiles,    \* options.max_files
          MaxIssues    \* bound on the traversal issues TLC explores

ASSUME ParameterAssumption == /\ Workers \in 1..256
                              /\ MaxFiles \in Nat \ {0}
                              /\ MaxIssues \in Nat

Worker   == 1..Workers           \* the jthreads, in creation order
NoWorker == 0
Slot     == 0..MaxFiles - 1      \* positions of result.files
NoSlot   == -1

\* What is thrown: invalid options or roots, a stop, too many files,
\* the observer's own exception, an allocation, a thread not created.
Error    == {"invalid", "canceled", "budget", "observer", "memory", "thread"}
NoError  == "none"

\* A record of result.files: not created, as created, being processed,
\* complete (with or without an issue), left half-filled by an exception.
EntryState == {"absent", "fresh", "busy", "ok", "issue", "torn"}
Complete   == {"ok", "issue"}

MainState == {"validate", "normalize", "announce", "collect", "collectReport",
              "total", "totalReport", "prepare", "register", "reserve",
              "spawn", "join", "rethrow", "finish", "merge",
              "unwind", "throw", "over"}
WorkerState == {"unborn", "loop", "claim", "file", "lock", "check",
                "deliver", "observe", "catch", "record", "raise", "exit"}

VARIABLES
  \* the caller and its observer
  stop,          \* stop.stop_requested()
  progress,      \* the call has a progress callback
  report,        \* the argument of the last callback: discovered, completed
  outcome,       \* "pending", "result" or the error thrown to the caller
  \* the calling thread
  main,          \* where scan_media stands
  discovered,    \* paths.size()
  enumIssues,    \* result.issues of the traversal
  spawned,       \* threads started
  joined,        \* threads joined
  thrown,        \* the exception in flight in the calling thread
  link,          \* the stop_callback: "none", "set", "firing", "fired"
  \* shared by the pool
  cancellation,  \* cancellation.stop_requested()
  entry,         \* result.files with issues
  next,          \* the atomic claim counter
  completed,     \* files reported
  fatal,         \* the first exception of the pool
  fatalLock,     \* owner of fatal_mutex
  progressLock,  \* owner of progress_mutex
  \* each thread of the pool
  pc, pos, err,
  arg            \* the completed count it is about to report

callerVars == <<stop, progress, report, outcome>>
mainVars   == <<main, discovered, enumIssues, spawned, joined, thrown, link>>
poolVars   == <<cancellation, entry, next, completed, fatal, fatalLock,
                progressLock>>
threadVars == <<pc, pos, err, arg>>
vars       == <<callerVars, mainVars, poolVars, threadVars>>

Least(a, b) == IF a <= b THEN a ELSE b

\* count: no more threads than files.
Count == Least(Workers, discovered)

Init == /\ stop \in BOOLEAN
        /\ progress \in BOOLEAN
        /\ report = [discovered |-> 0, completed |-> 0]
        /\ outcome = "pending"
        /\ main = "validate"
        /\ discovered = 0
        /\ enumIssues = 0
        /\ spawned = 0
        /\ joined = 0
        /\ thrown = NoError
        /\ link = "none"
        /\ cancellation = FALSE
        /\ entry = [p \in Slot |-> "absent"]
        /\ next = 0
        /\ completed = 0
        /\ fatal = NoError
        /\ fatalLock = NoWorker
        /\ progressLock = NoWorker
        /\ pc = [w \in Worker |-> "unborn"]
        /\ pos = [w \in Worker |-> NoSlot]
        /\ err = [w \in Worker |-> NoError]
        /\ arg = [w \in Worker |-> 0]

-----------------------------------------------------------------------------
(***************************************************************************)
(* The caller's stop source.  request_stop sets the flag and then runs the *)
(* registered callback in the requesting thread.                           *)
(***************************************************************************)
RequestStop ==
  /\ ~stop
  /\ outcome = "pending"
  /\ stop' = TRUE
  /\ link' = IF link = "set" THEN "firing" ELSE link
  /\ UNCHANGED <<progress, report, outcome, main, discovered, enumIssues,
                 spawned, joined, thrown, poolVars, threadVars>>

ForwardStop ==
  /\ link = "firing"
  /\ link' = "fired"
  /\ cancellation' = TRUE
  /\ UNCHANGED <<callerVars, main, discovered, enumIssues, spawned, joined,
                 thrown, entry, next, completed, fatal, fatalLock,
                 progressLock, threadVars>>

-----------------------------------------------------------------------------
(***************************************************************************)
(* The calling thread.                                                     *)
(***************************************************************************)
Goto(s) == main' = s

\* An exception leaves the function body; the threads already started are
\* joined by their destructors first.
Fail(e) == /\ thrown' = e
           /\ main' = "throw"

\* fingerprint_settings_key and the option checks, then the first check_stop.
Validate ==
  /\ main = "validate"
  /\ \/ Fail("invalid")
     \/ stop /\ Fail("canceled")
     \/ ~stop /\ Goto("normalize") /\ UNCHANGED thrown
  /\ UNCHANGED <<callerVars, discovered, enumIssues, spawned, joined, link,
                 poolVars, threadVars>>

NormalizeRoots ==
  /\ main = "normalize"
  /\ \/ Fail("invalid")
     \/ Goto(IF progress THEN "announce" ELSE "collect") /\ UNCHANGED thrown
  /\ UNCHANGED <<callerVars, discovered, enumIssues, spawned, joined, link,
                 poolVars, threadVars>>

\* A callback of the calling thread: it is given a report, then it returns or
\* throws what it likes.
Announce ==
  /\ main \in {"announce", "total"}
  /\ report' = [discovered |-> discovered, completed |-> 0]
  /\ Goto(IF main = "announce" THEN "collectReport" ELSE "totalReport")
  /\ UNCHANGED <<stop, progress, outcome, discovered, enumIssues, spawned,
                 joined, thrown, link, poolVars, threadVars>>

ObserverReturns ==
  /\ main \in {"collectReport", "totalReport"}
  /\ \/ Fail("observer")
     \/ /\ Goto(IF main = "collectReport" THEN "collect" ELSE "prepare")
        /\ UNCHANGED thrown
  /\ UNCHANGED <<callerVars, discovered, enumIssues, spawned, joined, link,
                 poolVars, threadVars>>

\* One root or directory entry: check_stop, then a path that is new, or an
\* error that becomes an issue, or is thrown by is_regular_file of a root.
\* What adds neither changes nothing.
CollectFails ==
  /\ main = "collect"
  /\ \/ stop /\ Fail("canceled")
     \/ Fail("invalid")
  /\ UNCHANGED <<callerVars, discovered, enumIssues, spawned, joined, link,
                 poolVars, threadVars>>

CollectPath ==
  /\ main = "collect"
  /\ ~stop
  /\ IF discovered = MaxFiles
       THEN Fail("budget") /\ UNCHANGED <<discovered, report>>
       ELSE /\ discovered' = discovered + 1
            /\ IF progress
                 THEN /\ report' = [discovered |-> discovered', completed |-> 0]
                      /\ Goto("collectReport")
                 ELSE UNCHANGED <<main, report>>
            /\ UNCHANGED thrown
  /\ UNCHANGED <<stop, progress, outcome, enumIssues, spawned, joined, link,
                 poolVars, threadVars>>

CollectIssue ==
  /\ main = "collect"
  /\ ~stop
  /\ enumIssues < MaxIssues
  /\ enumIssues' = enumIssues + 1
  /\ UNCHANGED <<callerVars, main, discovered, spawned, joined, thrown, link,
                 poolVars, threadVars>>

\* The iterator ends: no check_stop follows the last entry.
CollectEnds ==
  /\ main = "collect"
  /\ Goto(IF progress THEN "total" ELSE "prepare")
  /\ UNCHANGED <<callerVars, discovered, enumIssues, spawned, joined, thrown,
                 link, poolVars, threadVars>>

PrepareFiles ==
  /\ main = "prepare"
  /\ entry' = [p \in Slot |-> IF p < discovered THEN "fresh" ELSE "absent"]
  /\ Goto("register")
  /\ UNCHANGED <<callerVars, discovered, enumIssues, spawned, joined, thrown,
                 link, cancellation, next, completed, fatal, fatalLock,
                 progressLock, threadVars>>

\* The stop_callback's constructor runs the callback itself when the stop was
\* requested before.
RegisterCallback ==
  /\ main = "register"
  /\ link' = IF stop THEN "fired" ELSE "set"
  /\ cancellation' = stop
  /\ Goto("reserve")
  /\ UNCHANGED <<callerVars, discovered, enumIssues, spawned, joined, thrown,
                 entry, next, completed, fatal, fatalLock, progressLock,
                 threadVars>>

ReserveThreads ==
  /\ main = "reserve"
  /\ Goto("spawn")
  /\ UNCHANGED <<callerVars, discovered, enumIssues, spawned, joined, thrown,
                 link, poolVars, threadVars>>

SpawnWorker ==
  /\ main = "spawn"
  /\ spawned < Count
  /\ spawned' = spawned + 1
  /\ pc' = [pc EXCEPT ![spawned + 1] = "loop"]
  /\ UNCHANGED <<callerVars, main, discovered, enumIssues, joined, thrown,
                 link, poolVars, pos, err, arg>>

\* emplace_back throws: stop the pool, then the jthreads' destructors join.
SpawnFails ==
  /\ main = "spawn"
  /\ spawned < Count
  /\ cancellation' = TRUE
  /\ thrown' = "thread"
  /\ Goto("unwind")
  /\ UNCHANGED <<callerVars, discovered, enumIssues, spawned, joined, link,
                 entry, next, completed, fatal, fatalLock, progressLock,
                 threadVars>>

SpawnEnds ==
  /\ main = "spawn"
  /\ spawned = Count
  /\ Goto("join")
  /\ UNCHANGED <<callerVars, discovered, enumIssues, spawned, joined, thrown,
                 link, poolVars, threadVars>>

-----------------------------------------------------------------------------
(***************************************************************************)
(* Faulty variants of the operations.  Each is what a plausible mistake    *)
(* would make of the operation it is named after; none is part of the      *)
(* specification.                                                          *)
(***************************************************************************)

\* The loop that joins leaves as soon as the first thread has ended.
JoinFirstOnly ==
  /\ main \in {"join", "unwind"}
  /\ joined < spawned
  /\ pc[joined + 1] = "exit"
  /\ joined' = spawned
  /\ UNCHANGED <<callerVars, main, discovered, enumIssues, spawned, thrown,
                 link, poolVars, threadVars>>

\* The failed start detaches its threads.
UnwindDetached ==
  \/ /\ main = "join"
     /\ joined = spawned
     /\ Goto("rethrow")
     /\ UNCHANGED <<callerVars, discovered, enumIssues, spawned, joined,
                    thrown, link, poolVars, threadVars>>
  \/ /\ main = "unwind"
     /\ Goto("throw")
     /\ UNCHANGED <<callerVars, discovered, enumIssues, spawned, joined,
                    thrown, link, poolVars, threadVars>>

\* The stop is looked at before the pool's exception.
RethrowAfterStop ==
  /\ main = "rethrow"
  /\ \/ stop /\ Fail("canceled")
     \/ ~stop /\ fatal # NoError /\ Fail(fatal)
     \/ ~stop /\ fatal = NoError /\ Goto("finish") /\ UNCHANGED thrown
  /\ UNCHANGED <<callerVars, discovered, enumIssues, spawned, joined, link,
                 poolVars, threadVars>>

\* No check_stop after the join.
FinishUnchecked ==
  /\ main = "finish"
  /\ Goto("merge")
  /\ UNCHANGED <<callerVars, discovered, enumIssues, spawned, joined, thrown,
                 link, poolVars, threadVars>>

\* The counter is read and not advanced.
ClaimUncounted(w) ==
  /\ pc[w] = "claim"
  /\ IF next >= discovered
       THEN pc' = [pc EXCEPT ![w] = "exit"] /\ UNCHANGED <<pos, entry>>
       ELSE /\ pos' = [pos EXCEPT ![w] = next]
            /\ entry' = [entry EXCEPT ![next] = "busy"]
            /\ pc' = [pc EXCEPT ![w] = "file"]
  /\ UNCHANGED <<callerVars, mainVars, cancellation, next, completed, fatal,
                 fatalLock, progressLock, err, arg>>

\* position > size for position >= size.
ClaimPastEnd(w) ==
  /\ pc[w] = "claim"
  /\ next' = next + 1
  /\ IF next > discovered
       THEN pc' = [pc EXCEPT ![w] = "exit"] /\ UNCHANGED <<pos, entry>>
       ELSE /\ pos' = [pos EXCEPT ![w] = next]
            /\ entry' = [entry EXCEPT ![next] = "busy"]
            /\ pc' = [pc EXCEPT ![w] = "file"]
  /\ UNCHANGED <<callerVars, mainVars, cancellation, completed, fatal,
                 fatalLock, progressLock, err, arg>>

\* No progress_mutex.
ProgressUnlocked(w) ==
  /\ pc[w] = "lock"
  /\ progressLock' = w
  /\ pc' = [pc EXCEPT ![w] = "check"]
  /\ UNCHANGED <<callerVars, mainVars, cancellation, entry, next, completed,
                 fatal, fatalLock, pos, err, arg>>

\* The mutex is not released when the observer throws.
ObserverThrowsLocked(w) ==
  /\ pc[w] = "observe"
  /\ err' = [err EXCEPT ![w] = "observer"]
  /\ pc' = [pc EXCEPT ![w] = "catch"]
  /\ UNCHANGED <<callerVars, mainVars, poolVars, pos, arg>>

\* A file with an issue goes to the next iteration without being reported.
FileEndsUnreported(w) ==
  /\ pc[w] = "file"
  /\ \E s \in Complete :
       /\ entry' = [entry EXCEPT ![pos[w]] = s]
       /\ pc' = [pc EXCEPT ![w] = IF progress /\ s = "ok" THEN "lock"
                                                         ELSE "loop"]
  /\ UNCHANGED <<callerVars, mainVars, cancellation, next, completed, fatal,
                 fatalLock, progressLock, pos, err, arg>>

\* Every exception overwrites the one recorded before.
RecordLast(w) ==
  /\ pc[w] = "record"
  /\ fatal' = err[w]
  /\ pc' = [pc EXCEPT ![w] = "raise"]
  /\ UNCHANGED <<callerVars, mainVars, cancellation, entry, next, completed,
                 fatalLock, progressLock, pos, err, arg>>

-----------------------------------------------------------------------------
\* thread.join() in creation order, here and in the destructors.
JoinWorker ==
  /\ main \in {"join", "unwind"}
  /\ joined < spawned
  /\ pc[joined + 1] = "exit"
  /\ joined' = joined + 1
  /\ UNCHANGED <<callerVars, main, discovered, enumIssues, spawned, thrown,
                 link, poolVars, threadVars>>

JoinEnds ==
  /\ main \in {"join", "unwind"}
  /\ joined = spawned
  /\ Goto(IF main = "join" THEN "rethrow" ELSE "throw")
  /\ UNCHANGED <<callerVars, discovered, enumIssues, spawned, joined, thrown,
                 link, poolVars, threadVars>>

Rethrow ==
  /\ main = "rethrow"
  /\ \/ fatal # NoError /\ Fail(fatal)
     \/ fatal = NoError /\ Goto("finish") /\ UNCHANGED thrown
  /\ UNCHANGED <<callerVars, discovered, enumIssues, spawned, joined, link,
                 poolVars, threadVars>>

FinalCheck ==
  /\ main = "finish"
  /\ \/ stop /\ Fail("canceled")
     \/ ~stop /\ Goto("merge") /\ UNCHANGED thrown
  /\ UNCHANGED <<callerVars, discovered, enumIssues, spawned, joined, link,
                 poolVars, threadVars>>

\* An allocation of the calling thread fails, before the pool or after it.
AllocationFails ==
  /\ main \in {"validate", "normalize", "collect", "prepare", "register",
               "reserve", "merge"}
  /\ Fail("memory")
  /\ UNCHANGED <<callerVars, discovered, enumIssues, spawned, joined, link,
                 poolVars, threadVars>>

\* The function ends; the stop_callback's destructor waits for a callback
\* that is running.
Return ==
  /\ main \in {"merge", "throw"}
  /\ link # "firing"
  /\ link' = "none"
  /\ outcome' = IF main = "merge" THEN "result" ELSE thrown
  /\ Goto("over")
  /\ UNCHANGED <<stop, progress, report, discovered, enumIssues, spawned,
                 joined, thrown, poolVars, threadVars>>

Main == \/ Validate \/ NormalizeRoots \/ Announce \/ ObserverReturns
        \/ CollectFails \/ CollectPath \/ CollectIssue \/ CollectEnds
        \/ PrepareFiles \/ RegisterCallback \/ ReserveThreads
        \/ SpawnWorker \/ SpawnFails \/ SpawnEnds
        \/ JoinWorker \/ JoinEnds \/ Rethrow \/ FinalCheck
        \/ AllocationFails \/ Return

-----------------------------------------------------------------------------
(***************************************************************************)
(* A thread of the pool.                                                   *)
(***************************************************************************)
CheckToken(w) ==
  /\ pc[w] = "loop"
  /\ pc' = [pc EXCEPT ![w] = IF cancellation THEN "exit" ELSE "claim"]
  /\ UNCHANGED <<callerVars, mainVars, poolVars, pos, err, arg>>

\* next.fetch_add(1)
Claim(w) ==
  /\ pc[w] = "claim"
  /\ next' = next + 1
  /\ IF next >= discovered
       THEN pc' = [pc EXCEPT ![w] = "exit"] /\ UNCHANGED <<pos, entry>>
       ELSE /\ pos' = [pos EXCEPT ![w] = next]
            /\ entry' = [entry EXCEPT ![next] = "busy"]
            /\ pc' = [pc EXCEPT ![w] = "file"]
  /\ UNCHANGED <<callerVars, mainVars, cancellation, completed, fatal,
                 fatalLock, progressLock, err, arg>>

\* process_file returns: the record is complete, perhaps with an issue.  A
\* stop requested after its last check_stop does not keep it from returning.
FileEnds(w) ==
  /\ pc[w] = "file"
  /\ \E s \in Complete : entry' = [entry EXCEPT ![pos[w]] = s]
  /\ pc' = [pc EXCEPT ![w] = IF progress THEN "lock" ELSE "loop"]
  /\ UNCHANGED <<callerVars, mainVars, cancellation, next, completed, fatal,
                 fatalLock, progressLock, pos, err, arg>>

\* process_file throws: cancelled if the token says so, else out of memory.
FileThrows(w) ==
  /\ pc[w] = "file"
  /\ \/ cancellation /\ err' = [err EXCEPT ![w] = "canceled"]
     \/ err' = [err EXCEPT ![w] = "memory"]
  /\ entry' = [entry EXCEPT ![pos[w]] = "torn"]
  /\ pc' = [pc EXCEPT ![w] = "catch"]
  /\ UNCHANGED <<callerVars, mainVars, cancellation, next, completed, fatal,
                 fatalLock, progressLock, pos, arg>>

LockProgress(w) ==
  /\ pc[w] = "lock"
  /\ progressLock = NoWorker
  /\ progressLock' = w
  /\ pc' = [pc EXCEPT ![w] = "check"]
  /\ UNCHANGED <<callerVars, mainVars, cancellation, entry, next, completed,
                 fatal, fatalLock, pos, err, arg>>

\* check_stop(token) with the lock held, then ++completed.
CountFile(w) ==
  /\ pc[w] = "check"
  /\ IF cancellation
       THEN /\ err' = [err EXCEPT ![w] = "canceled"]
            /\ progressLock' = NoWorker
            /\ pc' = [pc EXCEPT ![w] = "catch"]
            /\ UNCHANGED <<completed, arg>>
       ELSE /\ completed' = completed + 1
            /\ arg' = [arg EXCEPT ![w] = completed + 1]
            /\ pc' = [pc EXCEPT ![w] = "deliver"]
            /\ UNCHANGED <<err, progressLock>>
  /\ UNCHANGED <<callerVars, mainVars, cancellation, entry, next, fatal,
                 fatalLock, pos>>

Deliver(w) ==
  /\ pc[w] = "deliver"
  /\ report' = [discovered |-> discovered, completed |-> arg[w]]
  /\ pc' = [pc EXCEPT ![w] = "observe"]
  /\ UNCHANGED <<stop, progress, outcome, mainVars, poolVars, pos, err, arg>>

ObserverAccepts(w) ==
  /\ pc[w] = "observe"
  /\ progressLock' = NoWorker
  /\ pc' = [pc EXCEPT ![w] = "loop"]
  /\ UNCHANGED <<callerVars, mainVars, cancellation, entry, next, completed,
                 fatal, fatalLock, pos, err, arg>>

\* The guard releases the mutex before the handler runs.
ObserverThrows(w) ==
  /\ pc[w] = "observe"
  /\ progressLock' = NoWorker
  /\ err' = [err EXCEPT ![w] = "observer"]
  /\ pc' = [pc EXCEPT ![w] = "catch"]
  /\ UNCHANGED <<callerVars, mainVars, cancellation, entry, next, completed,
                 fatal, fatalLock, pos, arg>>

LockFatal(w) ==
  /\ pc[w] = "catch"
  /\ fatalLock = NoWorker
  /\ fatalLock' = w
  /\ pc' = [pc EXCEPT ![w] = "record"]
  /\ UNCHANGED <<callerVars, mainVars, cancellation, entry, next, completed,
                 fatal, progressLock, pos, err, arg>>

RecordFatal(w) ==
  /\ pc[w] = "record"
  /\ fatal' = IF fatal = NoError THEN err[w] ELSE fatal
  /\ pc' = [pc EXCEPT ![w] = "raise"]
  /\ UNCHANGED <<callerVars, mainVars, cancellation, entry, next, completed,
                 fatalLock, progressLock, pos, err, arg>>

\* cancellation.request_stop(), and the guard releases fatal_mutex.
RaiseCancellation(w) ==
  /\ pc[w] = "raise"
  /\ cancellation' = TRUE
  /\ fatalLock' = NoWorker
  /\ pc' = [pc EXCEPT ![w] = "exit"]
  /\ UNCHANGED <<callerVars, mainVars, entry, next, completed, fatal,
                 progressLock, pos, err, arg>>

Step(w) == \/ CheckToken(w) \/ Claim(w) \/ FileEnds(w) \/ FileThrows(w)
           \/ LockProgress(w) \/ CountFile(w) \/ Deliver(w)
           \/ ObserverAccepts(w) \/ ObserverThrows(w)
           \/ LockFatal(w) \/ RecordFatal(w) \/ RaiseCancellation(w)

-----------------------------------------------------------------------------
\* The call is over: nothing is left to do.
Over == main = "over" /\ UNCHANGED vars

Next == \/ RequestStop
        \/ ForwardStop
        \/ Main
        \/ \E w \in Worker : Step(w)
        \/ Over

(***************************************************************************)
(* Fairness: a runnable thread runs, a file is processed in finite time,   *)
(* and an observer returns or throws.  Nothing obliges the caller to stop. *)
(* No fairness between the contenders of a mutex is needed: a worker takes *)
(* each a finite number of times.                                          *)
(***************************************************************************)
Fairness == /\ WF_vars(Main)
            /\ WF_vars(ForwardStop)
            /\ \A w \in Worker : WF_vars(Step(w))

Spec == Init /\ [][Next]_vars /\ Fairness

-----------------------------------------------------------------------------
(***************************************************************************)
(* Properties.                                                             *)
(***************************************************************************)
TypeOK ==
  /\ stop \in BOOLEAN
  /\ progress \in BOOLEAN
  /\ report \in [discovered : 0..MaxFiles, completed : Nat]
  /\ outcome \in {"pending", "result"} \cup Error
  /\ main \in MainState
  /\ discovered \in 0..MaxFiles
  /\ enumIssues \in 0..MaxIssues
  /\ spawned \in 0..Count
  /\ joined \in 0..spawned
  /\ thrown \in Error \cup {NoError}
  /\ main \in {"unwind", "throw"} => thrown # NoError
  /\ link \in {"none", "set", "firing", "fired"}
  /\ cancellation \in BOOLEAN
  /\ entry \in [Slot -> EntryState]
  /\ next \in Nat
  /\ completed \in Nat
  /\ fatal \in Error \cup {NoError}
  /\ fatalLock \in Worker \cup {NoWorker}
  /\ progressLock \in Worker \cup {NoWorker}
  /\ pc \in [Worker -> WorkerState]
  /\ pos \in [Worker -> Slot \cup {NoSlot}]
  /\ err \in [Worker -> Error \cup {NoError}]
  /\ arg \in [Worker -> Nat]

\* result.files[position] and issues[position] are written without a lock:
\* the counter alone must keep two threads from holding one position.
ExclusivePositions ==
  \A v, w \in Worker :
    v # w /\ pc[v] = "file" /\ pc[w] = "file" => pos[v] # pos[w]

\* docs/api.md: cancellation and failures "abort without a partial result".
\* A result comes back only when every enumerated file was processed to its
\* end and every thread has left.
CompleteResult ==
  outcome = "result" =>
    /\ \A p \in 0..discovered - 1 : entry[p] \in Complete
    /\ \A w \in Worker : pc[w] \in {"unborn", "exit"}

\* The observer of a call that returns a result was told of every file, and
\* no observer is ever told of more files than there are.
EveryFileReported ==
  /\ completed <= discovered
  /\ outcome = "result" /\ progress => completed = discovered

\* The pool cancels itself on a failure; the cancellations this provokes in
\* other threads never reach a caller that did not ask to stop.
CancelledOnlyIfStopped == outcome = "canceled" => stop

\* The caller gets the exception that stopped the pool, unless a thread
\* could not be created: a later stop or failure does not replace it.
FailureReported ==
  outcome # "pending" /\ fatal # NoError => outcome \in {fatal, "thread"}

Observing == {w \in Worker : pc[w] \in {"deliver", "observe"}}

\* tests/scan/scan_progress_test.cpp, ProgressIsSerializedAndMonotonic: one
\* observer call at a time, none while the calling thread is in one and none
\* after scan_media has returned.
SerializedReports ==
  /\ \A v, w \in Observing : v = w
  /\ Observing # {} => main \in {"spawn", "join", "unwind"}

\* The same test: both counts of successive reports never decrease, and in
\* the pool each report counts one file more.
MonotonicReports ==
  [][report' # report =>
       /\ report'.discovered >= report.discovered
       /\ report'.completed \in {report.completed, report.completed + 1}]_vars

\* A finished record is the caller's: no thread touches it again, during the
\* pool or after the call is over (the vectors are locals of scan_media).
FinishedEntriesStable ==
  [][/\ \A p \in Slot : entry[p] \in Complete => entry'[p] = entry[p]
     /\ outcome # "pending" => entry' = entry]_vars

\* Every call ends: no thread waits for a lock for ever, whatever the order
\* of failures, stops and exhausted positions.
Terminates == <>(outcome # "pending")

\* The pool implements the contract of a sequential call.
Finished == {p \in Slot : entry[p] \in Complete}

Contract == INSTANCE ScanContract WITH total <- discovered,
                                       finished <- Finished
ImplementsContract == Contract!Spec
=============================================================================
