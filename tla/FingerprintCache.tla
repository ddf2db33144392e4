-------------------------- MODULE FingerprintCache --------------------------
(***************************************************************************)
(* FingerprintCache::load and ::store (src/cache/fingerprint.cpp), each    *)
(* file-system call a step, by the threads of one process.  A store writes *)
(* a staging file of its own and renames it over the entry.  On Windows a  *)
(* mutex keeps a rename from meeting a reader of the process; elsewhere a  *)
(* reader keeps the file it has opened.  The process may die at any step.  *)
(***************************************************************************)
EXTENDS Naturals, FiniteSets

CONSTANTS Client, Key, Value,
          Name,         \* the staging names the random device may give
          Attempts,     \* names tried before a store gives up (32)
          NoClient, NoName,
          Missing, NotFile, Damaged,   \* no entry, a directory, no fingerprint
          Absent, Empty,   \* no staging directory, no file in it
          MaxCalls,     \* bound on the calls of all clients
          MaxFaults     \* bound on crashes, damaged entries, failed removals

\* A file of the cache: the 64 key bytes and the serialized fingerprint, and
\* how many of the two writes it holds.
Record(k, v, n) == [key |-> k, value |-> v, parts |-> n]
FileContent     == [key : Key, value : Value, parts : 0..2]

ASSUME CacheAssumption ==
  /\ Attempts \in Nat \ {0}
  /\ Key # {} /\ Value # {}
  /\ {Missing, NotFile, Damaged} \cap Value = {}
  /\ {Missing, NotFile, Absent, Empty} \cap FileContent = {}
  /\ NoClient \notin Client /\ NoName \notin Name
  /\ Absent # Empty
  /\ Missing # NotFile /\ Missing # Damaged /\ NotFile # Damaged

LoadSteps  == {"lockLoad", "status", "open", "read", "verify", "leave"}
StoreSteps == {"mkdir", "create", "keys", "bytes", "lockStore", "publish",
               "clean"}

VARIABLES
  windows,   \* which of the two builds runs
  entry,     \* the published file of each key
  stage,     \* each staging directory: absent, empty, or with its file
  leaked,    \* staging directories that nobody will remove
  mutex,     \* the owner of cache_mutex()
  pc, op, key, value,   \* each client's call
  name,      \* its staging directory
  tries,     \* the names it has tried
  input,     \* the file it has open or has read
  result,
  calls, faults   \* counted against the bounds

callVars  == <<op, key, value>>
workVars  == <<name, tries, input>>
countVars == <<calls, faults>>
vars      == <<windows, entry, stage, leaked, mutex, pc, callVars, workVars,
               result, countVars>>

AKey   == CHOOSE k \in Key : TRUE
AValue == CHOOSE v \in Value : TRUE

Init == /\ windows \in BOOLEAN
        /\ entry = [k \in Key |-> Missing]
        /\ stage = [n \in Name |-> Absent]
        /\ leaked = {}
        /\ mutex = NoClient
        /\ pc = [c \in Client |-> "idle"]
        /\ op = [c \in Client |-> "load"]
        /\ key = [c \in Client |-> AKey]
        /\ value = [c \in Client |-> AValue]
        /\ name = [c \in Client |-> NoName]
        /\ tries = [c \in Client |-> 0]
        /\ input = [c \in Client |-> Missing]
        /\ result = [c \in Client |-> "none"]
        /\ calls = 0
        /\ faults = 0

-----------------------------------------------------------------------------
At(c, s)   == pc[c] = s
Goto(c, s) == pc' = [pc EXCEPT ![c] = s]
Give(c, r) == result' = [result EXCEPT ![c] = r]

FaultHappens == faults < MaxFaults /\ faults' = faults + 1

\* The call returns its result; what it worked on is gone.
Ends(c) == /\ Goto(c, "idle")
           /\ op' = [op EXCEPT ![c] = "load"]
           /\ key' = [key EXCEPT ![c] = AKey]
           /\ value' = [value EXCEPT ![c] = AValue]
           /\ name' = [name EXCEPT ![c] = NoName]
           /\ tries' = [tries EXCEPT ![c] = 0]
           /\ input' = [input EXCEPT ![c] = Missing]
           /\ Give(c, "none")

Invoke(c, o, k, v) ==
  /\ At(c, "idle")
  /\ calls < MaxCalls
  /\ calls' = calls + 1
  /\ op' = [op EXCEPT ![c] = o]
  /\ key' = [key EXCEPT ![c] = k]
  /\ value' = [value EXCEPT ![c] = v]
  /\ Goto(c, IF o = "store" THEN "mkdir"
             ELSE IF windows THEN "lockLoad" ELSE "status")
  /\ UNCHANGED <<windows, entry, stage, leaked, mutex, workVars, result,
                 faults>>

Lock(c) ==
  /\ pc[c] \in {"lockLoad", "lockStore"}
  /\ mutex = NoClient
  /\ mutex' = c
  /\ Goto(c, IF At(c, "lockLoad") THEN "status" ELSE "publish")
  /\ UNCHANGED <<windows, entry, stage, leaked, callVars, workVars, result,
                 countVars>>

Unlocked(c) == mutex' = IF mutex = c THEN NoClient ELSE mutex

-----------------------------------------------------------------------------
(***************************************************************************)
(* Faulty variants, none of them part of the specification.                *)
(***************************************************************************)

\* The lock covers the status only.
OpenUnlocked(c) ==
  /\ At(c, "open")
  /\ \/ /\ entry[key[c]] \notin {Missing, NotFile}
        /\ input' = [input EXCEPT ![c] = entry[key[c]]]
        /\ Goto(c, "read") /\ UNCHANGED result
     \/ Give(c, "fail") /\ Goto(c, "leave") /\ UNCHANGED input
  /\ Unlocked(c)
  /\ UNCHANGED <<windows, entry, stage, leaked, callVars, name, tries,
                 countVars>>

\* The directory that is there already is used.
MakeShared(c) ==
  /\ At(c, "mkdir")
  /\ \E n \in Name :
       /\ stage' = [stage EXCEPT ![n] = Empty]
       /\ name' = [name EXCEPT ![c] = n]
       /\ Goto(c, "create")
  /\ UNCHANGED <<windows, entry, leaked, mutex, callVars, tries, input, result,
                 countVars>>

\* The entry itself is written.
WriteInPlace(c) ==
  /\ At(c, "keys")
  /\ entry' = [entry EXCEPT ![key[c]] = Record(key[c], value[c], 1)]
  /\ stage' = [stage EXCEPT ![name[c]] = Record(key[c], value[c], 1)]
  /\ Goto(c, "bytes")
  /\ UNCHANGED <<windows, leaked, mutex, callVars, workVars, result, countVars>>

\* A failed write is not noticed (no output.exceptions).
WriteUnnoticed(c) ==
  /\ At(c, "bytes")
  /\ \/ stage' = [stage EXCEPT ![name[c]].parts = 2]
     \/ UNCHANGED stage
  /\ Goto(c, IF windows THEN "lockStore" ELSE "publish")
  /\ UNCHANGED <<windows, entry, leaked, mutex, callVars, workVars, result,
                 countVars>>

\* The staging directory is removed by a successful store only.
CleanAfterSuccess(c) ==
  /\ At(c, "clean")
  /\ stage' = IF result[c] = "ok"
                THEN [stage EXCEPT ![name[c]] = Absent] ELSE stage
  /\ Ends(c)
  /\ UNCHANGED <<windows, entry, leaked, mutex, countVars>>

\* An error is left with the lock held.
LeaveLocked(c) ==
  /\ At(c, "leave")
  /\ mutex' = IF result[c] = "fail" THEN mutex
              ELSE IF mutex = c THEN NoClient ELSE mutex
  /\ Ends(c)
  /\ UNCHANGED <<windows, entry, stage, leaked, countVars>>

-----------------------------------------------------------------------------
(***************************************************************************)
(* load                                                                    *)
(***************************************************************************)

\* No entry is a miss; an entry that cannot be inspected or is no regular
\* file is an error.
Status(c) ==
  /\ At(c, "status")
  /\ \/ /\ entry[key[c]] = Missing
        /\ Give(c, "miss") /\ Goto(c, "leave")
     \/ Give(c, "fail") /\ Goto(c, "leave")
     \/ /\ entry[key[c]] \notin {Missing, NotFile}
        /\ Goto(c, "open") /\ UNCHANGED result
  /\ UNCHANGED <<windows, entry, stage, leaked, mutex, callVars, workVars,
                 countVars>>

\* The entry may have gone or been replaced since.
OpenInput(c) ==
  /\ At(c, "open")
  /\ \/ /\ entry[key[c]] \notin {Missing, NotFile}
        /\ input' = [input EXCEPT ![c] = entry[key[c]]]
        /\ Goto(c, "read") /\ UNCHANGED result
     \/ Give(c, "fail") /\ Goto(c, "leave") /\ UNCHANGED input
  /\ UNCHANGED <<windows, entry, stage, leaked, mutex, callVars, name, tries,
                 countVars>>

\* The byte budget, the read and the end of file; then the file is closed
\* and the lock released.
ReadInput(c) ==
  /\ At(c, "read")
  /\ \/ /\ input[c].parts > 0
        /\ Goto(c, "verify") /\ Unlocked(c) /\ UNCHANGED <<input, result>>
     \/ /\ Give(c, "fail") /\ Goto(c, "leave")
        /\ input' = [input EXCEPT ![c] = Missing]
        /\ UNCHANGED mutex
  /\ UNCHANGED <<windows, entry, stage, leaked, callVars, name, tries,
                 countVars>>

\* The 64 key bytes, then checksum and deserialization.
Sound(file, k) == file.key = k /\ file.parts = 2

Verify(c) ==
  /\ At(c, "verify")
  /\ Give(c, IF Sound(input[c], key[c]) THEN input[c].value ELSE "fail")
  /\ input' = [input EXCEPT ![c] = Missing]
  /\ Goto(c, "leave")
  /\ UNCHANGED <<windows, entry, stage, leaked, mutex, callVars, name, tries,
                 countVars>>

\* A return or an exception releases the lock.
Leave(c) ==
  /\ At(c, "leave")
  /\ Unlocked(c)
  /\ Ends(c)
  /\ UNCHANGED <<windows, entry, stage, leaked, countVars>>

-----------------------------------------------------------------------------
(***************************************************************************)
(* store                                                                   *)
(***************************************************************************)

\* The StagingDirectory constructor: create_directory tells whether it was
\* this call that made the directory.  Serialization, or the call, may fail.
MakeDirectory(c) ==
  /\ At(c, "mkdir")
  /\ \/ \E n \in Name :
          IF stage[n] = Absent
            THEN /\ stage' = [stage EXCEPT ![n] = Empty]
                 /\ name' = [name EXCEPT ![c] = n]
                 /\ tries' = [tries EXCEPT ![c] = 0]
                 /\ Goto(c, "create")
                 /\ UNCHANGED result
            ELSE /\ tries[c] + 1 < Attempts
                 /\ tries' = [tries EXCEPT ![c] = @ + 1]
                 /\ UNCHANGED <<stage, name, pc, result>>
     \/ /\ tries' = [tries EXCEPT ![c] = 0]
        /\ Give(c, "fail") /\ Goto(c, "leave")
        /\ UNCHANGED <<stage, name>>
  /\ UNCHANGED <<windows, entry, leaked, mutex, callVars, input, countVars>>

\* An exception of the stream closes it and runs the destructor.
StoreFails(c) ==
  /\ pc[c] \in {"create", "keys", "bytes", "publish"}
  /\ Give(c, "fail")
  /\ Unlocked(c)
  /\ Goto(c, "clean")
  /\ UNCHANGED <<windows, entry, stage, leaked, callVars, workVars, countVars>>

CreateOutput(c) ==
  /\ At(c, "create")
  /\ stage' = [stage EXCEPT ![name[c]] = Record(key[c], value[c], 0)]
  /\ Goto(c, "keys")
  /\ UNCHANGED <<windows, entry, leaked, mutex, callVars, workVars, result,
                 countVars>>

WriteKeys(c) ==
  /\ At(c, "keys")
  /\ stage' = [stage EXCEPT ![name[c]].parts = 1]
  /\ Goto(c, "bytes")
  /\ UNCHANGED <<windows, entry, leaked, mutex, callVars, workVars, result,
                 countVars>>

WriteBytes(c) ==
  /\ At(c, "bytes")
  /\ stage' = [stage EXCEPT ![name[c]].parts = 2]
  /\ Goto(c, IF windows THEN "lockStore" ELSE "publish")
  /\ UNCHANGED <<windows, entry, leaked, mutex, callVars, workVars, result,
                 countVars>>

\* Windows refuses to replace a file that is open.
SharingViolation(c) ==
  windows /\ \E d \in Client : At(d, "read") /\ key[d] = key[c]

Publish(c) ==
  /\ At(c, "publish")
  /\ entry[key[c]] # NotFile
  /\ ~SharingViolation(c)
  /\ entry' = [entry EXCEPT ![key[c]] = stage[name[c]]]
  /\ stage' = [stage EXCEPT ![name[c]] = Empty]
  /\ Give(c, "ok")
  /\ Unlocked(c)
  /\ Goto(c, "clean")
  /\ UNCHANGED <<windows, leaked, callVars, workVars, countVars>>

\* The destructor removes the file and the directory, ignoring errors.
Clean(c) ==
  /\ At(c, "clean")
  /\ \/ /\ stage' = [stage EXCEPT ![name[c]] = Absent]
        /\ UNCHANGED <<leaked, faults>>
     \/ /\ FaultHappens
        /\ stage' \in {stage, [stage EXCEPT ![name[c]] = Empty]}
        /\ leaked' = leaked \cup {name[c]}
  /\ Ends(c)
  /\ UNCHANGED <<windows, entry, mutex, calls>>

Run(c) == \/ Lock(c)
          \/ Status(c) \/ OpenInput(c) \/ ReadInput(c) \/ Verify(c) \/ Leave(c)
          \/ MakeDirectory(c) \/ StoreFails(c) \/ CreateOutput(c)
          \/ WriteKeys(c) \/ WriteBytes(c) \/ Publish(c) \/ Clean(c)

-----------------------------------------------------------------------------
(***************************************************************************)
(* The world.                                                              *)
(***************************************************************************)

\* The process dies: its staging directories stay, its lock does not.
Crash ==
  /\ FaultHappens
  /\ leaked' = leaked \cup ({name[c] : c \in Client} \ {NoName})
  /\ mutex' = NoClient
  /\ pc' = [c \in Client |-> "idle"]
  /\ name' = [c \in Client |-> NoName]
  /\ tries' = [c \in Client |-> 0]
  /\ input' = [c \in Client |-> Missing]
  /\ op' = [c \in Client |-> "load"]
  /\ key' = [c \in Client |-> AKey]
  /\ value' = [c \in Client |-> AValue]
  /\ result' = [c \in Client |-> "none"]
  /\ UNCHANGED <<windows, entry, stage, calls>>

\* An entry that nobody reads is removed, damaged, copied from another key or
\* replaced by something that is no file.
Disturb(k) ==
  /\ FaultHappens
  /\ ~\E c \in Client : At(c, "read") /\ key[c] = k
  /\ \E e \in {Missing, NotFile, Record(k, AValue, 1)}
              \cup {Record(j, AValue, 2) : j \in Key \ {k}} :
       entry' = [entry EXCEPT ![k] = e]
  /\ UNCHANGED <<windows, stage, leaked, mutex, pc, callVars, workVars, result,
                 calls>>

\* All the calls of the bound are made and answered.
Quiet == /\ calls = MaxCalls
         /\ \A c \in Client : At(c, "idle")
         /\ UNCHANGED vars

Next == \/ \E c \in Client :
             \/ \E k \in Key : Invoke(c, "load", k, AValue)
             \/ \E k \in Key, v \in Value : Invoke(c, "store", k, v)
             \/ Run(c)
        \/ Crash
        \/ \E k \in Key : Disturb(k)
        \/ Quiet

\* A thread that can run does; nothing else is promised.
Spec == Init /\ [][Next]_vars /\ \A c \in Client : WF_vars(Run(c))

-----------------------------------------------------------------------------
(***************************************************************************)
(* Properties.                                                             *)
(***************************************************************************)
TypeOK ==
  /\ windows \in BOOLEAN
  /\ entry \in [Key -> FileContent \cup {Missing, NotFile}]
  /\ stage \in [Name -> FileContent \cup {Absent, Empty}]
  /\ leaked \subseteq Name
  /\ mutex \in Client \cup {NoClient}
  /\ pc \in [Client -> {"idle"} \cup LoadSteps \cup StoreSteps]
  /\ op \in [Client -> {"load", "store"}]
  /\ key \in [Client -> Key]
  /\ value \in [Client -> Value]
  /\ name \in [Client -> Name \cup {NoName}]
  /\ tries \in [Client -> 0..Attempts - 1]
  /\ input \in [Client -> FileContent \cup {Missing}]
  /\ result \in [Client -> Value \cup {"none", "ok", "miss", "fail"}]

\* Staging directories are exclusive: while a store works on its directory,
\* it is there and holds what this store has written, whatever others do.
StagingExclusive ==
  \A c \in Client :
    /\ name[c] # NoName => \A d \in Client \ {c} : name[d] # name[c]
    /\ At(c, "create") => stage[name[c]] = Empty
    /\ At(c, "keys")  => stage[name[c]] = Record(key[c], value[c], 0)
    /\ At(c, "bytes") => stage[name[c]] = Record(key[c], value[c], 1)
    /\ pc[c] \in {"lockStore", "publish"} =>
         stage[name[c]] = Record(key[c], value[c], 2)

\* docs/api.md: "On Windows, file reads and publication share a process-wide
\* lock": no rename of the process ever meets an open reader of its own.
NoSharingViolation == \A c \in Client : At(c, "publish") => ~SharingViolation(c)

\* Staging directories are left behind by a crash or by a removal that failed,
\* never by a store that ended, well or badly.
OnlyCrashLeaks ==
  \A n \in Name : stage[n] # Absent => n \in leaked \/ \E c \in Client : name[c] = n

\* Every load and store returns, however the lock and the names fall.
Answered == \A c \in Client : pc[c] # "idle" ~> pc[c] = "idle"

\* The files implement one atomic map: a load that fails to find, or finds, an
\* entry found it so at one instant, and stores replace entries whole.
EntryOf(k) == CASE entry[k] = Missing -> Missing
                [] entry[k] = NotFile -> Damaged
                [] OTHER -> IF Sound(entry[k], k) THEN entry[k].value
                                                  ELSE Damaged

PhaseOf(c) == CASE At(c, "idle") -> "idle"
                [] pc[c] \in {"read", "verify", "leave", "clean"} -> "taken"
                [] OTHER -> "called"

ResultOf(c) == IF pc[c] \in {"read", "verify"}
                 THEN IF Sound(input[c], key[c]) THEN input[c].value ELSE "fail"
                 ELSE result[c]

CallOf(c) == [op |-> op[c], key |-> key[c], value |-> value[c],
              phase |-> PhaseOf(c), result |-> ResultOf(c)]

EntryMap == [k \in Key |-> EntryOf(k)]
CallMap  == [c \in Client |-> CallOf(c)]

Atomic == INSTANCE AtomicCache WITH map <- EntryMap, call <- CallMap
ImplementsAtomicCache == Atomic!Spec
=============================================================================
