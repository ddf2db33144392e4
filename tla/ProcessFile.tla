----------------------------- MODULE ProcessFile -----------------------------
(***************************************************************************)
(* process_file (src/scan/scanner.cpp) on several files at once, each in   *)
(* its own thread, while other programs rewrite and remove the files and   *)
(* the scans share one fingerprint cache.  It hashes a file, loads or      *)
(* generates its fingerprint, and trusts neither unless size and           *)
(* modification time are what they were before the first byte was read.    *)
(*                                                                         *)
(* Contents are members of a small set.  The digest of a content and its   *)
(* fingerprint are named by the content itself (BLAKE3 is taken to be      *)
(* injective); what was read while the bytes were changing is Torn.        *)
(***************************************************************************)
EXTENDS Naturals, Sequences

CONSTANTS File,       \* the paths being processed
          Content,    \* what a file may hold
          Size,       \* file size of a content
          Media,      \* "image", "video" or "other", for a content
          Torn, Nothing, Bad,
          MaxWrites   \* bound on the writes to one file

ASSUME ContentAssumption ==
  /\ Size \in [Content -> Nat]
  /\ Media \in [Content -> {"image", "video", "other"}]
  /\ {Torn, Nothing, Bad} \cap Content = {}
  /\ Torn # Nothing /\ Torn # Bad /\ Nothing # Bad
  /\ MaxWrites \in Nat

\* An error in flight.  "memory" is std::bad_alloc, "canceled" the stop.
Error == {"none", "canceled", "memory", "io", "decode", "changed"}
Stage == {"Fingerprint", "CacheRead", "CacheWrite"}
Kinds == {"Images", "Videos", "Both"}

Step == {"size", "modified", "hash", "hashed", "load", "loaded",
         "image", "imaged", "video", "videoed", "generated",
         "sizeAgain", "modifiedAgain", "store",
         "caught", "caughtSize", "caughtModified", "done", "thrown"}

VARIABLES
  \* the file system
  present,   \* the path names a regular file
  version,   \* its modification time: every write gives it a new one
  log,       \* what each version of the file holds
  \* the scan
  generate, kinds, caching,   \* options and the active cache
  stop,      \* the token of the pool
  cache,     \* the entry under each digest: whose fingerprint it holds
  \* each process_file
  pc,
  before,    \* the optional FileState
  opened,    \* the version a reader has open
  size,      \* the size read by a file_state in progress
  digest, fingerprint, hit,   \* fields of the ScannedFile
  fileSize,
  issues,
  raised     \* the exception being handled

diskVars  == <<present, version, log>>
optVars   == <<generate, kinds, caching>>
readVars  == <<before, opened, size>>
fieldVars == <<digest, fingerprint, hit, fileSize>>
fileVars  == <<pc, readVars, fieldVars, issues, raised>>
vars      == <<diskVars, optVars, stop, cache, fileVars>>

Now(f)  == log[f][version[f]]
Digest  == Content \cup {Torn}

NoState == [size |-> 0, modified |-> 0]

Init == /\ present = [f \in File |-> TRUE]
        /\ version = [f \in File |-> 1]
        /\ \E c \in [File -> Content] : log = [f \in File |-> <<c[f]>>]
        /\ generate \in BOOLEAN
        /\ kinds \in Kinds
        /\ caching \in BOOLEAN
        /\ ~generate => ~caching /\ kinds = "Both"
        /\ stop = FALSE
        /\ cache \in [Digest -> {Nothing, Bad}]
        /\ cache[Torn] = Nothing
        /\ ~caching => \A d \in Digest : cache[d] = Nothing
        /\ pc = [f \in File |-> "size"]
        /\ before = [f \in File |-> NoState]
        /\ opened = [f \in File |-> 0]
        /\ size = [f \in File |-> 0]
        /\ digest = [f \in File |-> Nothing]
        /\ fingerprint = [f \in File |-> Nothing]
        /\ hit = [f \in File |-> FALSE]
        /\ fileSize = [f \in File |-> 0]
        /\ issues = [f \in File |-> {}]
        /\ raised = [f \in File |-> "none"]

-----------------------------------------------------------------------------
(***************************************************************************)
(* Other programs, and the caller's stop.                                  *)
(***************************************************************************)
Write(f, c) ==
  /\ version[f] <= MaxWrites
  /\ version' = [version EXCEPT ![f] = @ + 1]
  /\ log' = [log EXCEPT ![f] = Append(@, c)]
  /\ present' = [present EXCEPT ![f] = TRUE]
  /\ UNCHANGED <<optVars, stop, cache, fileVars>>

Remove(f) ==
  /\ present[f]
  /\ present' = [present EXCEPT ![f] = FALSE]
  /\ UNCHANGED <<version, log, optVars, stop, cache, fileVars>>

RequestStop ==
  /\ ~stop
  /\ stop' = TRUE
  /\ UNCHANGED <<diskVars, optVars, cache, fileVars>>

\* A thread with another file of the same content publishes its fingerprint.
\* What it stores is what CacheCoherent says of the entries stored here.
OtherStores(c) ==
  /\ generate /\ caching
  /\ \/ Media[c] = "image" /\ kinds # "Videos"
     \/ Media[c] = "video" /\ kinds # "Images"
  /\ cache' = [cache EXCEPT ![c] = c]
  /\ UNCHANGED <<diskVars, optVars, stop, fileVars>>

-----------------------------------------------------------------------------
(***************************************************************************)
(* Steps of process_file.                                                  *)
(***************************************************************************)
At(f, s) == pc[f] = s
Goto(f, s) == pc' = [pc EXCEPT ![f] = s]

Raise(f, e) == /\ raised' = [raised EXCEPT ![f] = e]
               /\ Goto(f, "caught")

\* check_stop: the step goes on to s, or throws.
CheckStop(f, s) ==
  \/ stop /\ Raise(f, "canceled")
  \/ ~stop /\ Goto(f, s) /\ UNCHANGED raised

\* Opening fails when the path is not a regular file.
Open(f, s) ==
  IF present[f]
    THEN /\ opened' = [opened EXCEPT ![f] = version[f]]
         /\ Goto(f, s)
         /\ UNCHANGED raised
    ELSE Raise(f, "io") /\ UNCHANGED opened

\* What a reader of the version it opened may have seen by now.
Seen(f) == {log[f][opened[f]]} \cup
             (IF version[f] # opened[f] THEN {Torn} ELSE {})

\* file_state reads the size first, then the modification time, in two calls.
SizeOnDisk(f) == Size[Now(f)]

StatSize(f) ==
  /\ At(f, "size")
  /\ IF present[f]
       THEN /\ size' = [size EXCEPT ![f] = SizeOnDisk(f)]
            /\ Goto(f, "modified")
            /\ UNCHANGED raised
       ELSE Raise(f, "io") /\ UNCHANGED size
  /\ UNCHANGED <<diskVars, optVars, stop, cache, before, opened, fieldVars,
                 issues>>

StatModified(f) ==
  /\ At(f, "modified")
  /\ IF present[f]
       THEN /\ before' = [before EXCEPT ![f] = [size |-> size[f],
                                               modified |-> version[f]]]
            /\ fileSize' = [fileSize EXCEPT ![f] = size[f]]
            /\ Goto(f, "hash")
            /\ UNCHANGED raised
       ELSE Raise(f, "io") /\ UNCHANGED <<before, fileSize>>
  /\ UNCHANGED <<diskVars, optVars, stop, cache, opened, size, digest,
                 fingerprint, hit, issues>>

(***************************************************************************)
(* Faulty variants, none of them part of the specification.                *)
(***************************************************************************)

\* Modification times are not compared.
SameSize(f) == before[f].size = size[f]

\* The entry is stored before the file is looked at again.
StoreUnchecked(f) ==
  /\ At(f, "generated")
  /\ CheckStop(f, IF generate /\ caching /\ ~hit[f] THEN "store" ELSE "sizeAgain")
  /\ UNCHANGED <<diskVars, optVars, stop, cache, readVars, fieldVars, issues>>

\* A corrupt entry is left where it is.
AfterCheckUnreplaced(f) ==
  IF generate /\ caching /\ ~hit[f] /\ "CacheRead" \notin issues[f]
    THEN "store" ELSE "done"

\* The handler keeps the fingerprint it finds.
CatchKeeping(f) ==
  /\ At(f, "caught")
  /\ IF stop
       THEN /\ raised' = [raised EXCEPT ![f] = "canceled"]
            /\ Goto(f, "thrown")
       ELSE /\ Goto(f, "caughtSize")
            /\ UNCHANGED raised
  /\ UNCHANGED <<diskVars, optVars, stop, cache, readVars, fieldVars, issues>>

-----------------------------------------------------------------------------
HashOpen(f) ==
  /\ At(f, "hash")
  /\ Open(f, "hashed")
  /\ UNCHANGED <<diskVars, optVars, stop, cache, before, size, fieldVars,
                 issues>>

\* The stream is read to its end, with a check_cancelled for each block.
HashEnds(f) ==
  /\ At(f, "hashed")
  /\ \/ /\ CheckStop(f, IF generate THEN "load" ELSE "loaded")
        /\ IF stop
             THEN UNCHANGED digest
             ELSE \E d \in Seen(f) : digest' = [digest EXCEPT ![f] = d]
     \/ Raise(f, "io") /\ UNCHANGED digest
  /\ UNCHANGED <<diskVars, optVars, stop, cache, readVars, fingerprint, hit,
                 fileSize, issues>>

\* load_cached_fingerprint: no cache, no entry, an entry, or an issue if it
\* cannot be inspected or read.
LoadCached(f) ==
  /\ At(f, "load")
  /\ \/ /\ caching => cache[digest[f]] = Nothing
        /\ UNCHANGED <<fingerprint, hit, issues>>
     \/ /\ caching /\ cache[digest[f]] \notin {Nothing, Bad}
        /\ fingerprint' = [fingerprint EXCEPT ![f] = cache[digest[f]]]
        /\ hit' = [hit EXCEPT ![f] = TRUE]
        /\ UNCHANGED issues
     \/ /\ caching
        /\ issues' = [issues EXCEPT ![f] = @ \cup {"CacheRead"}]
        /\ UNCHANGED <<fingerprint, hit>>
  /\ Goto(f, "loaded")
  /\ UNCHANGED <<diskVars, optVars, stop, cache, readVars, digest, fileSize,
                 raised>>

\* check_stop, then generate unless there is a fingerprint.
AfterLoad(f) ==
  /\ At(f, "loaded")
  /\ CheckStop(f, IF ~generate \/ fingerprint[f] # Nothing THEN "generated"
                  ELSE IF kinds = "Videos" THEN "video" ELSE "image")
  /\ UNCHANGED <<diskVars, optVars, stop, cache, readVars, fieldVars, issues>>

\* A decoder reads the file to its end: it finds the media it looks for in
\* what it saw, or rejects it.  It may reject or accept what is torn.
Accepts(media) == {c \in Content : Media[c] = media} \cup {Torn}
Rejects(media) == {c \in Content : Media[c] # media} \cup {Torn}

\* The image probe of generate.  Its filesystem_error, and no other, leads to
\* the video probe when both kinds are wanted.
ImageFails(f) ==
  IF kinds = "Images" THEN Raise(f, "decode")
                      ELSE Goto(f, "video") /\ UNCHANGED raised

ImageOpen(f) ==
  /\ At(f, "image")
  /\ IF present[f]
       THEN /\ opened' = [opened EXCEPT ![f] = version[f]]
            /\ Goto(f, "imaged")
            /\ UNCHANGED raised
       ELSE ImageFails(f) /\ UNCHANGED opened
  /\ UNCHANGED <<diskVars, optVars, stop, cache, before, size, fieldVars,
                 issues>>

ImageEnds(f) ==
  /\ At(f, "imaged")
  /\ \/ /\ stop
        /\ Raise(f, "canceled")
        /\ UNCHANGED fingerprint
     \/ /\ Seen(f) \cap Rejects("image") # {}
        /\ ImageFails(f)
        /\ UNCHANGED fingerprint
     \/ /\ \E c \in Seen(f) \cap Accepts("image") :
             fingerprint' = [fingerprint EXCEPT ![f] = c]
        /\ Goto(f, "generated")
        /\ UNCHANGED raised
  /\ UNCHANGED <<diskVars, optVars, stop, cache, readVars, digest, hit,
                 fileSize, issues>>

VideoOpen(f) ==
  /\ At(f, "video")
  /\ Open(f, "videoed")
  /\ UNCHANGED <<diskVars, optVars, stop, cache, before, size, fieldVars,
                 issues>>

VideoEnds(f) ==
  /\ At(f, "videoed")
  /\ \/ /\ stop
        /\ Raise(f, "canceled")
        /\ UNCHANGED fingerprint
     \/ /\ Seen(f) \cap Rejects("video") # {}
        /\ Raise(f, "decode")
        /\ UNCHANGED fingerprint
     \/ /\ \E c \in Seen(f) \cap Accepts("video") :
             fingerprint' = [fingerprint EXCEPT ![f] = c]
        /\ Goto(f, "generated")
        /\ UNCHANGED raised
  /\ UNCHANGED <<diskVars, optVars, stop, cache, readVars, digest, hit,
                 fileSize, issues>>

AfterGenerate(f) ==
  /\ At(f, "generated")
  /\ CheckStop(f, "sizeAgain")
  /\ UNCHANGED <<diskVars, optVars, stop, cache, readVars, fieldVars, issues>>

\* file_state(file.path) != *before
StatSizeAgain(f) ==
  /\ At(f, "sizeAgain")
  /\ IF present[f]
       THEN /\ size' = [size EXCEPT ![f] = SizeOnDisk(f)]
            /\ Goto(f, "modifiedAgain")
            /\ UNCHANGED raised
       ELSE Raise(f, "io") /\ UNCHANGED size
  /\ UNCHANGED <<diskVars, optVars, stop, cache, before, opened, fieldVars,
                 issues>>

\* The state that file_state returns now.
Same(f) == before[f] = [size |-> size[f], modified |-> version[f]]

\* Store next, when there is a fingerprint the cache does not hold.
AfterCheck(f) == IF generate /\ caching /\ ~hit[f] THEN "store" ELSE "done"

StatModifiedAgain(f) ==
  /\ At(f, "modifiedAgain")
  /\ \/ /\ present[f] /\ Same(f)
        /\ Goto(f, AfterCheck(f))
        /\ UNCHANGED <<digest, fingerprint, hit, raised>>
     \/ /\ present[f] /\ ~Same(f)
        /\ digest' = [digest EXCEPT ![f] = Nothing]
        /\ fingerprint' = [fingerprint EXCEPT ![f] = Nothing]
        /\ hit' = [hit EXCEPT ![f] = FALSE]
        /\ Raise(f, "changed")
     \/ /\ ~present[f]
        /\ Raise(f, "io")
        /\ UNCHANGED <<digest, fingerprint, hit>>
  /\ UNCHANGED <<diskVars, optVars, stop, cache, readVars, fileSize, issues>>

\* store_cached_fingerprint: an entry is replaced whole, or stays with an
\* issue (module FingerprintCache).
StoreCached(f) ==
  /\ At(f, "store")
  /\ \/ /\ cache' = [cache EXCEPT ![digest[f]] = fingerprint[f]]
        /\ UNCHANGED issues
     \/ /\ issues' = [issues EXCEPT ![f] = @ \cup {"CacheWrite"}]
        /\ UNCHANGED cache
  /\ Goto(f, "done")
  /\ UNCHANGED <<diskVars, optVars, stop, readVars, fieldVars, raised>>

\* std::bad_alloc, which every handler rethrows.
OutOfMemory(f) ==
  /\ pc[f] \in {"load", "imaged", "videoed", "store"}
  /\ raised' = [raised EXCEPT ![f] = "memory"]
  /\ Goto(f, "thrown")
  /\ UNCHANGED <<diskVars, optVars, stop, cache, readVars, fieldVars, issues>>

\* catch (const std::exception &): a stop takes precedence over the error.
Report(f) == /\ issues' = [issues EXCEPT ![f] = @ \cup {"Fingerprint"}]
             /\ Goto(f, "done")

Catch(f) ==
  /\ At(f, "caught")
  /\ IF stop
       THEN /\ raised' = [raised EXCEPT ![f] = "canceled"]
            /\ Goto(f, "thrown")
            /\ UNCHANGED <<fingerprint, hit, issues>>
       ELSE /\ fingerprint' = [fingerprint EXCEPT ![f] = Nothing]
            /\ hit' = [hit EXCEPT ![f] = FALSE]
            /\ IF digest[f] # Nothing
                 THEN Goto(f, "caughtSize") /\ UNCHANGED issues
                 ELSE Report(f)
            /\ UNCHANGED raised
  /\ UNCHANGED <<diskVars, optVars, stop, cache, readVars, digest, fileSize>>

\* The digest survives only if the file still is what it was; a file_state
\* that throws drops it too.
CatchSize(f) ==
  /\ At(f, "caughtSize")
  /\ IF present[f]
       THEN /\ size' = [size EXCEPT ![f] = SizeOnDisk(f)]
            /\ Goto(f, "caughtModified")
            /\ UNCHANGED <<digest, issues>>
       ELSE /\ digest' = [digest EXCEPT ![f] = Nothing]
            /\ Report(f)
            /\ UNCHANGED size
  /\ UNCHANGED <<diskVars, optVars, stop, cache, before, opened, fingerprint,
                 hit, fileSize, raised>>

CatchModified(f) ==
  /\ At(f, "caughtModified")
  /\ digest' = IF present[f] /\ Same(f)
                 THEN digest ELSE [digest EXCEPT ![f] = Nothing]
  /\ Report(f)
  /\ UNCHANGED <<diskVars, optVars, stop, cache, readVars, fingerprint, hit,
                 fileSize, raised>>

Process(f) ==
  \/ StatSize(f) \/ StatModified(f) \/ HashOpen(f) \/ HashEnds(f)
  \/ LoadCached(f) \/ AfterLoad(f)
  \/ ImageOpen(f) \/ ImageEnds(f) \/ VideoOpen(f) \/ VideoEnds(f)
  \/ AfterGenerate(f) \/ StatSizeAgain(f) \/ StatModifiedAgain(f)
  \/ StoreCached(f) \/ OutOfMemory(f)
  \/ Catch(f) \/ CatchSize(f) \/ CatchModified(f)

\* Every process_file has ended.
AllEnded == /\ \A f \in File : pc[f] \in {"done", "thrown"}
            /\ UNCHANGED vars

Next == \/ \E f \in File : \/ \E c \in Content : Write(f, c)
                           \/ Remove(f)
                           \/ Process(f)
        \/ \E c \in Content : OtherStores(c)
        \/ RequestStop
        \/ AllEnded

Spec == Init /\ [][Next]_vars

-----------------------------------------------------------------------------
(***************************************************************************)
(* Properties.                                                             *)
(***************************************************************************)
TypeOK ==
  /\ present \in [File -> BOOLEAN]
  /\ version \in [File -> 1..MaxWrites + 1]
  /\ log \in [File -> Seq(Content)]
  /\ \A f \in File : Len(log[f]) = version[f]
  /\ generate \in BOOLEAN
  /\ kinds \in Kinds
  /\ caching \in BOOLEAN
  /\ stop \in BOOLEAN
  /\ cache \in [Digest -> Digest \cup {Nothing, Bad}]
  /\ pc \in [File -> Step]
  /\ before \in [File -> [size : Nat, modified : Nat]]
  /\ opened \in [File -> 0..MaxWrites + 1]
  /\ size \in [File -> Nat]
  /\ digest \in [File -> Digest \cup {Nothing}]
  /\ fingerprint \in [File -> Digest \cup {Nothing}]
  /\ hit \in [File -> BOOLEAN]
  /\ fileSize \in [File -> Nat]
  /\ issues \in [File -> SUBSET Stage]
  /\ raised \in [File -> Error]

\* docs/api.md: "Before/after size and mtime checks detect common file
\* changes."  The digest, the fingerprint and the size of a finished record
\* describe one version of the file, the one whose time was read first,
\* whatever was written and removed while the file was read, and whether the
\* record ends with an issue or not.
OneVersion ==
  \A f \in File : pc[f] = "done" /\ digest[f] # Nothing =>
    LET c == log[f][before[f].modified] IN
    /\ digest[f] = c
    /\ fingerprint[f] \in {c, Nothing}
    /\ fileSize[f] = Size[c]

\* The cache never holds a fingerprint under the digest of another content.
CacheCoherent == \A d \in Digest : cache[d] \in {Nothing, Bad} \cup (Content \cap {d})

\* A finished record has its fingerprint, or an issue that says why not, and
\* never a fingerprint without the digest it belongs to.  Cancellation and
\* exhausted memory end the scan, and are never the issue of a file.
FingerprintOrIssue ==
  \A f \in File : pc[f] = "done" =>
    /\ raised[f] \notin {"canceled", "memory"}
    /\ generate /\ fingerprint[f] = Nothing <=> generate /\ "Fingerprint" \in issues[f]
    /\ fingerprint[f] # Nothing => digest[f] # Nothing
    /\ hit[f] => fingerprint[f] # Nothing

\* docs/api.md: corrupt entries are "regenerated, and replaced when possible":
\* after a record with a fingerprint, its entry is good or a write issue says
\* so.
EntryRepaired ==
  \A f \in File :
    pc[f] = "done" /\ caching /\ fingerprint[f] # Nothing =>
      cache[digest[f]] = fingerprint[f] \/ "CacheWrite" \in issues[f]
=============================================================================
