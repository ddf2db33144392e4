-------------------------- MODULE ProcessFileProofs --------------------------
(***************************************************************************)
(* Proofs about ProcessFile, for any number of files, contents and writes. *)
(*                                                                         *)
(* The argument: while no write has come since the modification time was   *)
(* first read (Current), all that was read of the file is what it holds    *)
(* now (Reads); size and time found unchanged say that this was so to the  *)
(* end (Same), and only then a record is finished or stored (Checked).     *)
(***************************************************************************)
EXTENDS ProcessFile, TLAPS

Hashed == {"load", "loaded", "image", "imaged", "video", "videoed",
           "generated", "sizeAgain", "modifiedAgain"}

\* No write since the modification time was first read.
Current(f) == version[f] = before[f].modified

Verified(f) ==
  LET c == log[f][before[f].modified] IN
  /\ digest[f] = c
  /\ fingerprint[f] \in {c, Nothing}
  /\ fileSize[f] = Size[c]

Basis(f) == before[f].modified \in 1..version[f] /\ fileSize[f] = before[f].size

\* What a thread has filled in, and since when.
Started(f) ==
  /\ pc[f] \in {"size", "modified", "hash", "hashed"} =>
       digest[f] = Nothing /\ fingerprint[f] = Nothing /\ ~hit[f]
  /\ pc[f] \in {"hash", "hashed"} \cup Hashed => Basis(f)
  /\ pc[f] \in Hashed \cup {"store", "caughtSize", "caughtModified"} => digest[f] # Nothing
  /\ digest[f] # Nothing => Basis(f)
  /\ fingerprint[f] # Nothing => digest[f] # Nothing

\* What was read while nobody wrote is what the file holds.
Reads(f) ==
  /\ Current(f) => digest[f] \in {Nothing, Now(f)}
  /\ Current(f) => fingerprint[f] \in {Nothing, Now(f)}
  /\ pc[f] \in {"hashed", "imaged", "videoed"} =>
       opened[f] \in before[f].modified..version[f]
  /\ pc[f] \in {"modifiedAgain", "caughtModified"} /\ Current(f) => size[f] = Size[Now(f)]

\* A record is stored or finished only after the second look.
Checked(f) ==
  /\ pc[f] \in {"store", "done"} /\ digest[f] # Nothing => Verified(f)
  /\ pc[f] \in {"image", "imaged", "video", "videoed", "caughtSize", "caughtModified"} =>
       fingerprint[f] = Nothing

\* Why there is no fingerprint, and which errors reach the handler.
Reasons(f) ==
  /\ ~generate => fingerprint[f] = Nothing
  /\ pc[f] \in {"load", "image", "imaged", "video", "videoed", "store"} => generate
  /\ pc[f] \in {"generated", "sizeAgain", "modifiedAgain", "store"} /\ generate =>
       fingerprint[f] # Nothing
  /\ "Fingerprint" \in issues[f] => pc[f] = "done" /\ fingerprint[f] = Nothing
  /\ pc[f] = "done" /\ generate /\ fingerprint[f] = Nothing => "Fingerprint" \in issues[f]
  /\ pc[f] \notin {"thrown", "caught"} => raised[f] \notin {"canceled", "memory"}
  /\ pc[f] = "caught" => raised[f] # "memory" /\ (raised[f] = "canceled" => stop)

\* A fingerprint that was loaded is still the entry of its digest.
Stored(f) ==
  /\ hit[f] => /\ fingerprint[f] = digest[f] /\ digest[f] \in Content
               /\ cache[digest[f]] = digest[f]
  /\ pc[f] = "done" /\ caching /\ fingerprint[f] # Nothing =>
       cache[digest[f]] = fingerprint[f] \/ "CacheWrite" \in issues[f]

FileInv(f) == Started(f) /\ Reads(f) /\ Checked(f) /\ Reasons(f) /\ Stored(f)

IInv == /\ TypeOK
        /\ caching => generate
        /\ CacheCoherent
        /\ \A f \in File : FileInv(f)

-----------------------------------------------------------------------------
USE DEF Digest, Error, Stage, Kinds, Step, At, Goto

LEMMA TypeInit == Init => TypeOK
<1> SUFFICES ASSUME Init PROVE TypeOK
  OBVIOUS
<1> USE ContentAssumption DEF Init, NoState
<1>1. log \in [File -> Seq(Content)] /\ \A f \in File : Len(log[f]) = version[f]
  OBVIOUS
<1>2. cache \in [Digest -> Digest \cup {Nothing, Bad}]
  OBVIOUS
<1>3. /\ before \in [File -> [size : Nat, modified : Nat]]
      /\ issues \in [File -> SUBSET Stage]
  OBVIOUS
<1>4. /\ version \in [File -> 1..MaxWrites + 1]
      /\ opened \in [File -> 0..MaxWrites + 1]
  OBVIOUS
<1> QED BY <1>1, <1>2, <1>3, <1>4 DEF TypeOK

\* What is read of a file.
LEMMA Contents ==
  ASSUME TypeOK, NEW f \in File
  PROVE  /\ \A i \in 1..version[f] : log[f][i] \in Content
         /\ Now(f) \in Content
         /\ SizeOnDisk(f) \in Nat
BY ContentAssumption DEF TypeOK, Now, SizeOnDisk

LEMMA SeenType ==
  ASSUME TypeOK, NEW f \in File, opened[f] \in 1..version[f]
  PROVE  Seen(f) \subseteq Digest
BY Contents DEF Seen

\* A step of the file's own thread.
LEMMA TypeProcess ==
  ASSUME TypeOK, NEW f \in File, FileInv(f), Process(f)
  PROVE  TypeOK'
<1> USE DEF diskVars, optVars, readVars, fieldVars
<1>0. SizeOnDisk(f) \in Nat
  BY Contents
<1>00. pc[f] \in {"hashed", "imaged", "videoed"} => Seen(f) \subseteq Digest
  <2> SUFFICES ASSUME pc[f] \in {"hashed", "imaged", "videoed"} PROVE Seen(f) \subseteq Digest
    OBVIOUS
  <2>1. opened[f] \in 1..version[f]
    BY DEF TypeOK, FileInv, Started, Basis, Reads, Hashed
  <2> QED BY <2>1, SeenType
<1>p. pc \in [File -> Step] /\ raised \in [File -> Error]
  BY DEF TypeOK
<1>s. size[f] \in Nat /\ version[f] \in Nat /\ version[f] \in 0..MaxWrites + 1
  BY DEF TypeOK
<1>d. pc[f] \in {"load", "store"} =>
        /\ digest[f] \in Digest
        /\ cache[digest[f]] \in Digest \cup {Nothing, Bad}
        /\ fingerprint[f] \in Digest \cup {Nothing}
  BY DEF TypeOK, FileInv, Started, Hashed
<1>tsize. size \in [File -> Nat]
  BY DEF TypeOK
<1>tbefore. before \in [File -> [size : Nat, modified : Nat]]
  BY DEF TypeOK
<1>tfileSize. fileSize \in [File -> Nat]
  BY DEF TypeOK
<1>topened. opened \in [File -> 0..MaxWrites + 1]
  BY DEF TypeOK
<1>tdigest. digest \in [File -> Digest \cup {Nothing}]
  BY DEF TypeOK
<1>tfingerprint. fingerprint \in [File -> Digest \cup {Nothing}]
  BY DEF TypeOK
<1>thit. hit \in [File -> BOOLEAN]
  BY DEF TypeOK
<1>tissues. issues \in [File -> SUBSET Stage]
  BY DEF TypeOK
<1>tcache. cache \in [Digest -> Digest \cup {Nothing, Bad}]
  BY DEF TypeOK
<1>1. CASE StatSize(f)
  <2>1. UNCHANGED <<diskVars, optVars, stop, cache, before, opened, digest,
      fingerprint, hit, fileSize, issues>>
    BY <1>1 DEF StatSize, Raise
  <2>2. pc' \in [File -> Step] /\ raised' \in [File -> Error]
    BY <1>1, <1>p DEF StatSize, Raise
  <2>3. size' \in [File -> Nat]
    BY <1>1, <1>tsize, <1>0 DEF StatSize, Raise
  <2> QED BY <2>1, <2>2, <2>3 DEF TypeOK
<1>2. CASE StatModified(f)
  <2>1. UNCHANGED <<diskVars, optVars, stop, cache, opened, size, digest,
      fingerprint, hit, issues>>
    BY <1>2 DEF StatModified, Raise
  <2>2. pc' \in [File -> Step] /\ raised' \in [File -> Error]
    BY <1>2, <1>p DEF StatModified, Raise
  <2>3. before' \in [File -> [size : Nat, modified : Nat]]
    BY <1>2, <1>tbefore, <1>s DEF StatModified, Raise
  <2>4. fileSize' \in [File -> Nat]
    BY <1>2, <1>tfileSize, <1>s DEF StatModified, Raise
  <2> QED BY <2>1, <2>2, <2>3, <2>4 DEF TypeOK
<1>3. CASE HashOpen(f)
  <2>1. UNCHANGED <<diskVars, optVars, stop, cache, before, size, digest,
      fingerprint, hit, fileSize, issues>>
    BY <1>3 DEF HashOpen, Open, Raise
  <2>2. pc' \in [File -> Step] /\ raised' \in [File -> Error]
    BY <1>3, <1>p DEF HashOpen, Open, Raise
  <2>3. opened' \in [File -> 0..MaxWrites + 1]
    BY <1>3, <1>topened, <1>s DEF HashOpen, Open, Raise
  <2> QED BY <2>1, <2>2, <2>3 DEF TypeOK
<1>4. CASE HashEnds(f)
  <2>1. UNCHANGED <<diskVars, optVars, stop, cache, before, opened, size,
      fingerprint, hit, fileSize, issues>>
    BY <1>4 DEF HashEnds, CheckStop, Raise
  <2>2. pc' \in [File -> Step] /\ raised' \in [File -> Error]
    BY <1>4, <1>p DEF HashEnds, CheckStop, Raise
  <2>3. digest' \in [File -> Digest \cup {Nothing}]
    BY <1>4, <1>tdigest, <1>00 DEF HashEnds, CheckStop, Raise
  <2> QED BY <2>1, <2>2, <2>3 DEF TypeOK
<1>5. CASE LoadCached(f)
  <2>1. UNCHANGED <<diskVars, optVars, stop, cache, before, opened, size,
      digest, fileSize>>
    BY <1>5 DEF LoadCached, Raise
  <2>2. pc' \in [File -> Step] /\ raised' \in [File -> Error]
    BY <1>5, <1>p DEF LoadCached, Raise
  <2>3. fingerprint' \in [File -> Digest \cup {Nothing}]
    BY <1>5, <1>tfingerprint, <1>d DEF LoadCached, Raise
  <2>4. hit' \in [File -> BOOLEAN]
    BY <1>5, <1>thit, <1>d DEF LoadCached, Raise
  <2>5. issues' \in [File -> SUBSET Stage]
    BY <1>5, <1>tissues, <1>d DEF LoadCached, Raise
  <2> QED BY <2>1, <2>2, <2>3, <2>4, <2>5 DEF TypeOK
<1>6. CASE AfterLoad(f)
  <2>1. UNCHANGED <<diskVars, optVars, stop, cache, before, opened, size,
      digest, fingerprint, hit, fileSize, issues>>
    BY <1>6 DEF AfterLoad, CheckStop, Raise
  <2>2. pc' \in [File -> Step] /\ raised' \in [File -> Error]
    BY <1>6, <1>p DEF AfterLoad, CheckStop, Raise
  <2> QED BY <2>1, <2>2 DEF TypeOK
<1>7. CASE ImageOpen(f)
  <2>1. UNCHANGED <<diskVars, optVars, stop, cache, before, size, digest,
      fingerprint, hit, fileSize, issues>>
    BY <1>7 DEF ImageOpen, ImageFails, Raise
  <2>2. pc' \in [File -> Step] /\ raised' \in [File -> Error]
    BY <1>7, <1>p DEF ImageOpen, ImageFails, Raise
  <2>3. opened' \in [File -> 0..MaxWrites + 1]
    BY <1>7, <1>topened, <1>s DEF ImageOpen, ImageFails, Raise
  <2> QED BY <2>1, <2>2, <2>3 DEF TypeOK
<1>8. CASE ImageEnds(f)
  <2>1. UNCHANGED <<diskVars, optVars, stop, cache, before, opened, size,
      digest, hit, fileSize, issues>>
    BY <1>8 DEF ImageEnds, ImageFails, Raise
  <2>2. pc' \in [File -> Step] /\ raised' \in [File -> Error]
    BY <1>8, <1>p DEF ImageEnds, ImageFails, Raise
  <2>3. fingerprint' \in [File -> Digest \cup {Nothing}]
    BY <1>8, <1>tfingerprint, <1>00 DEF ImageEnds, ImageFails, Raise
  <2> QED BY <2>1, <2>2, <2>3 DEF TypeOK
<1>9. CASE VideoOpen(f)
  <2>1. UNCHANGED <<diskVars, optVars, stop, cache, before, size, digest,
      fingerprint, hit, fileSize, issues>>
    BY <1>9 DEF VideoOpen, Open, Raise
  <2>2. pc' \in [File -> Step] /\ raised' \in [File -> Error]
    BY <1>9, <1>p DEF VideoOpen, Open, Raise
  <2>3. opened' \in [File -> 0..MaxWrites + 1]
    BY <1>9, <1>topened, <1>s DEF VideoOpen, Open, Raise
  <2> QED BY <2>1, <2>2, <2>3 DEF TypeOK
<1>10. CASE VideoEnds(f)
  <2>1. UNCHANGED <<diskVars, optVars, stop, cache, before, opened, size,
      digest, hit, fileSize, issues>>
    BY <1>10 DEF VideoEnds, Raise
  <2>2. pc' \in [File -> Step] /\ raised' \in [File -> Error]
    BY <1>10, <1>p DEF VideoEnds, Raise
  <2>3. fingerprint' \in [File -> Digest \cup {Nothing}]
    BY <1>10, <1>tfingerprint, <1>00 DEF VideoEnds, Raise
  <2> QED BY <2>1, <2>2, <2>3 DEF TypeOK
<1>11. CASE AfterGenerate(f)
  <2>1. UNCHANGED <<diskVars, optVars, stop, cache, before, opened, size,
      digest, fingerprint, hit, fileSize, issues>>
    BY <1>11 DEF AfterGenerate, CheckStop, Raise
  <2>2. pc' \in [File -> Step] /\ raised' \in [File -> Error]
    BY <1>11, <1>p DEF AfterGenerate, CheckStop, Raise
  <2> QED BY <2>1, <2>2 DEF TypeOK
<1>12. CASE StatSizeAgain(f)
  <2>1. UNCHANGED <<diskVars, optVars, stop, cache, before, opened, digest,
      fingerprint, hit, fileSize, issues>>
    BY <1>12 DEF StatSizeAgain, Raise
  <2>2. pc' \in [File -> Step] /\ raised' \in [File -> Error]
    BY <1>12, <1>p DEF StatSizeAgain, Raise
  <2>3. size' \in [File -> Nat]
    BY <1>12, <1>tsize, <1>0 DEF StatSizeAgain, Raise
  <2> QED BY <2>1, <2>2, <2>3 DEF TypeOK
<1>13. CASE StatModifiedAgain(f)
  <2>1. UNCHANGED <<diskVars, optVars, stop, cache, before, opened, size,
      fileSize, issues>>
    BY <1>13 DEF StatModifiedAgain, AfterCheck, Raise
  <2>2. pc' \in [File -> Step] /\ raised' \in [File -> Error]
    BY <1>13, <1>p DEF StatModifiedAgain, AfterCheck, Raise
  <2>3. digest' \in [File -> Digest \cup {Nothing}]
    BY <1>13, <1>tdigest DEF StatModifiedAgain, AfterCheck, Raise
  <2>4. fingerprint' \in [File -> Digest \cup {Nothing}]
    BY <1>13, <1>tfingerprint DEF StatModifiedAgain, AfterCheck, Raise
  <2>5. hit' \in [File -> BOOLEAN]
    BY <1>13, <1>thit DEF StatModifiedAgain, AfterCheck, Raise
  <2> QED BY <2>1, <2>2, <2>3, <2>4, <2>5 DEF TypeOK
<1>14. CASE StoreCached(f)
  <2>1. UNCHANGED <<diskVars, optVars, stop, before, opened, size, digest,
      fingerprint, hit, fileSize>>
    BY <1>14 DEF StoreCached, Raise
  <2>2. pc' \in [File -> Step] /\ raised' \in [File -> Error]
    BY <1>14, <1>p DEF StoreCached, Raise
  <2>3. cache' \in [Digest -> Digest \cup {Nothing, Bad}]
    BY <1>14, <1>tcache, <1>d DEF StoreCached, Raise
  <2>4. issues' \in [File -> SUBSET Stage]
    BY <1>14, <1>tissues, <1>d DEF StoreCached, Raise
  <2> QED BY <2>1, <2>2, <2>3, <2>4 DEF TypeOK
<1>15. CASE OutOfMemory(f)
  <2>1. UNCHANGED <<diskVars, optVars, stop, cache, before, opened, size,
      digest, fingerprint, hit, fileSize, issues>>
    BY <1>15 DEF OutOfMemory, Raise
  <2>2. pc' \in [File -> Step] /\ raised' \in [File -> Error]
    BY <1>15, <1>p DEF OutOfMemory, Raise
  <2> QED BY <2>1, <2>2 DEF TypeOK
<1>16. CASE Catch(f)
  <2>1. UNCHANGED <<diskVars, optVars, stop, cache, before, opened, size,
      digest, fileSize>>
    BY <1>16 DEF Catch, Report, Raise
  <2>2. pc' \in [File -> Step] /\ raised' \in [File -> Error]
    BY <1>16, <1>p DEF Catch, Report, Raise
  <2>3. fingerprint' \in [File -> Digest \cup {Nothing}]
    BY <1>16, <1>tfingerprint DEF Catch, Report, Raise
  <2>4. hit' \in [File -> BOOLEAN]
    BY <1>16, <1>thit DEF Catch, Report, Raise
  <2>5. issues' \in [File -> SUBSET Stage]
    BY <1>16, <1>tissues DEF Catch, Report, Raise
  <2> QED BY <2>1, <2>2, <2>3, <2>4, <2>5 DEF TypeOK
<1>17. CASE CatchSize(f)
  <2>1. UNCHANGED <<diskVars, optVars, stop, cache, before, opened, fingerprint,
      hit, fileSize>>
    BY <1>17 DEF CatchSize, Report, Raise
  <2>2. pc' \in [File -> Step] /\ raised' \in [File -> Error]
    BY <1>17, <1>p DEF CatchSize, Report, Raise
  <2>3. size' \in [File -> Nat]
    BY <1>17, <1>tsize, <1>0 DEF CatchSize, Report, Raise
  <2>4. digest' \in [File -> Digest \cup {Nothing}]
    BY <1>17, <1>tdigest, <1>0 DEF CatchSize, Report, Raise
  <2>5. issues' \in [File -> SUBSET Stage]
    BY <1>17, <1>tissues, <1>0 DEF CatchSize, Report, Raise
  <2> QED BY <2>1, <2>2, <2>3, <2>4, <2>5 DEF TypeOK
<1>18. CASE CatchModified(f)
  <2>1. UNCHANGED <<diskVars, optVars, stop, cache, before, opened, size,
      fingerprint, hit, fileSize>>
    BY <1>18 DEF CatchModified, Report, Raise
  <2>2. pc' \in [File -> Step] /\ raised' \in [File -> Error]
    BY <1>18, <1>p DEF CatchModified, Report, Raise
  <2>3. digest' \in [File -> Digest \cup {Nothing}]
    BY <1>18, <1>tdigest DEF CatchModified, Report, Raise
  <2>4. issues' \in [File -> SUBSET Stage]
    BY <1>18, <1>tissues DEF CatchModified, Report, Raise
  <2> QED BY <2>1, <2>2, <2>3, <2>4 DEF TypeOK
<1> QED BY <1>1, <1>2, <1>3, <1>4, <1>5, <1>6, <1>7, <1>8, <1>9, <1>10, <1>11,
    <1>12, <1>13, <1>14, <1>15, <1>16, <1>17, <1>18 DEF Process

LEMMA TypeStep == IInv /\ [Next]_vars => TypeOK'
<1> SUFFICES ASSUME IInv, [Next]_vars PROVE TypeOK'
  OBVIOUS
<1> USE ContentAssumption DEF IInv, diskVars, optVars, readVars, fieldVars, fileVars
<1>1. CASE UNCHANGED vars
  BY <1>1 DEF vars, TypeOK
<1>2. ASSUME NEW f \in File, NEW c \in Content, Write(f, c) PROVE TypeOK'
  <2>1. Append(log[f], c) \in Seq(Content) /\ Len(Append(log[f], c)) = version[f] + 1
    BY DEF TypeOK
  <2>2. version' = [version EXCEPT ![f] = version[f] + 1] /\ log' = [log EXCEPT ![f] = Append(log[f], c)]
    BY <1>2 DEF Write
  <2>3. version' \in [File -> 1..MaxWrites + 1]
    BY <1>2, <2>2 DEF Write, TypeOK
  <2>4. log' \in [File -> Seq(Content)] /\ \A g \in File : Len(log'[g]) = version'[g]
    BY <2>1, <2>2 DEF TypeOK
  <2>5. present' \in [File -> BOOLEAN]
    BY <1>2 DEF Write, TypeOK
  <2> QED BY <1>2, <2>3, <2>4, <2>5 DEF Write, TypeOK
<1>3. ASSUME NEW f \in File, Remove(f) PROVE TypeOK'
  BY <1>3 DEF Remove, TypeOK
<1>4. ASSUME NEW f \in File, Process(f) PROVE TypeOK'
  BY <1>4, TypeProcess
<1>5. ASSUME NEW c \in Content, OtherStores(c) PROVE TypeOK'
  BY <1>5 DEF OtherStores, TypeOK
<1>6. CASE RequestStop
  BY <1>6 DEF RequestStop, TypeOK
<1>7. CASE AllEnded
  BY <1>1, <1>7 DEF AllEnded
<1> QED BY <1>1, <1>2, <1>3, <1>4, <1>5, <1>6, <1>7 DEF Next

-----------------------------------------------------------------------------
\* An entry that holds its fingerprint goes on holding it.
LEMMA CacheStep ==
  IInv /\ [Next]_vars =>
    /\ CacheCoherent'
    /\ \A d \in Content : cache[d] = d => cache'[d] = d
<1> SUFFICES ASSUME IInv, [Next]_vars
             PROVE  /\ CacheCoherent'
                    /\ \A d \in Content : cache[d] = d => cache'[d] = d
  OBVIOUS
<1>1. cache \in [Digest -> Digest \cup {Nothing, Bad}]
  BY DEF IInv, TypeOK
<1>2. CASE UNCHANGED cache
  BY <1>2 DEF IInv, CacheCoherent
<1>3. ASSUME NEW d \in Content, cache' = [cache EXCEPT ![d] = d]
      PROVE  /\ CacheCoherent'
             /\ \A c \in Content : cache[c] = c => cache'[c] = c
  BY <1>1, <1>3 DEF IInv, CacheCoherent
<1>4. ASSUME NEW f \in File, StoreCached(f)
      PROVE  UNCHANGED cache \/ \E d \in Content : cache' = [cache EXCEPT ![d] = d]
  <2>1. pc[f] = "store" /\ digest[f] # Nothing /\ generate
    BY <1>4 DEF StoreCached, IInv, FileInv, Started, Reasons, Hashed
  <2>2. Verified(f) /\ fingerprint[f] # Nothing
    BY <2>1 DEF IInv, FileInv, Checked, Reasons
  <2>3. before[f].modified \in 1..version[f]
    BY <2>1 DEF IInv, FileInv, Started, Basis
  <2>4. digest[f] \in Content /\ fingerprint[f] = digest[f]
    BY <2>2, <2>3, Contents DEF Verified, IInv
  <2> QED BY <1>4, <2>4 DEF StoreCached
<1>5. ASSUME NEW f \in File, Process(f)
      PROVE  UNCHANGED cache \/ \E d \in Content : cache' = [cache EXCEPT ![d] = d]
  BY <1>4, <1>5 DEF Process, StatSize, StatModified, HashOpen, HashEnds,
      LoadCached, AfterLoad,
    ImageOpen, ImageEnds, VideoOpen, VideoEnds, AfterGenerate, StatSizeAgain,
        StatModifiedAgain,
    OutOfMemory, Catch, CatchSize, CatchModified
<1>6. UNCHANGED cache \/ \E d \in Content : cache' = [cache EXCEPT ![d] = d]
  BY <1>5 DEF Next, Write, Remove, OtherStores, RequestStop, AllEnded, vars,
      fileVars
<1> QED BY <1>2, <1>3, <1>6

\* Nothing of a file is disturbed by steps that are not its own thread's.
LEMMA Untouched ==
  ASSUME TypeOK, NEW f \in File, FileInv(f),
         \/ log'[f] = log[f] /\ version'[f] = version[f]
         \/ \E c \in Content : log'[f] = Append(log[f], c) /\ version'[f] = version[f] + 1,
         \A d \in Content : cache[d] = d => cache'[d] = d,
         stop => stop', UNCHANGED optVars,
         pc'[f] = pc[f], before'[f] = before[f], opened'[f] = opened[f], size'[f] = size[f],
         digest'[f] = digest[f], fingerprint'[f] = fingerprint[f], hit'[f] = hit[f],
         fileSize'[f] = fileSize[f], issues'[f] = issues[f], raised'[f] = raised[f]
  PROVE  FileInv(f)'
<1>1. version[f] \in Nat /\ log[f] \in Seq(Content) /\ Len(log[f]) = version[f]
  BY DEF TypeOK
<1>2. /\ version'[f] \in Nat /\ version'[f] >= version[f]
      /\ \A i \in 1..version[f] : log'[f][i] = log[f][i]
  <2>1. CASE log'[f] = log[f] /\ version'[f] = version[f]
    BY <1>1, <2>1
  <2>2. ASSUME NEW c \in Content, log'[f] = Append(log[f], c), version'[f] = version[f] + 1
        PROVE  /\ version'[f] \in Nat /\ version'[f] >= version[f]
               /\ \A i \in 1..version[f] : log'[f][i] = log[f][i]
    <3>1. \A i \in 1..Len(log[f]) : Append(log[f], c)[i] = log[f][i]
      BY <1>1
    <3> QED BY <1>1, <2>2, <3>1
  <2> QED BY <2>1, <2>2
<1>3. Started(f)'
  BY <1>1, <1>2 DEF FileInv, Started, Basis
<1>4. Checked(f)'
  BY <1>1, <1>2, <1>3 DEF FileInv, Started, Basis, Checked, Verified
<1>5. Reasons(f)'
  BY DEF FileInv, Reasons, optVars
<1>6. Stored(f)'
  <2>1. hit[f] => /\ fingerprint[f] = digest[f] /\ digest[f] \in Content
                  /\ cache'[digest[f]] = digest[f]
    BY DEF FileInv, Stored
  <2>2. pc[f] = "done" /\ fingerprint[f] # Nothing => fingerprint[f] = digest[f] /\ digest[f] \in Content
    <3> SUFFICES ASSUME pc[f] = "done", fingerprint[f] # Nothing
                 PROVE  fingerprint[f] = digest[f] /\ digest[f] \in Content
      OBVIOUS
    <3>1. Verified(f) /\ before[f].modified \in 1..version[f]
      BY DEF FileInv, Started, Basis, Checked
    <3> QED BY <3>1, Contents DEF Verified
  <2> QED BY <2>1, <2>2 DEF FileInv, Stored, optVars
<1>7. Reads(f)'
  <2>1. CASE log'[f] = log[f] /\ version'[f] = version[f]
    BY <2>1 DEF FileInv, Reads, Current, Now
  <2>2. CASE version'[f] = version[f] + 1
    <3>1. pc[f] \in {"hashed", "imaged", "videoed", "modifiedAgain", "caughtModified"} \/ digest[f] # Nothing =>
            before[f].modified \in 1..version[f]
      BY DEF FileInv, Started, Basis, Hashed
    <3>2. fingerprint[f] # Nothing => digest[f] # Nothing
      BY DEF FileInv, Started
    <3> QED BY <1>1, <2>2, <3>1, <3>2 DEF FileInv, Reads, Current, Now
  <2> QED BY <2>1, <2>2
<1> QED BY <1>3, <1>4, <1>5, <1>6, <1>7 DEF FileInv
\* A step of the file's own thread keeps what is known of the file.
LEMMA ProcessKeeps ==
  ASSUME IInv, NEW f \in File, Process(f), TypeOK',
         \A d \in Content : cache[d] = d => cache'[d] = d
  PROVE  FileInv(f)'
<1> USE DEF diskVars, optVars, readVars, fieldVars
<1>a. TypeOK /\ FileInv(f) /\ (caching => generate) /\ CacheCoherent
  BY DEF IInv
<1>b. /\ UNCHANGED <<diskVars, optVars, stop>>
      /\ Now(f)' = Now(f)
  BY DEF Process, Now, StatSize, StatModified, HashOpen, HashEnds, LoadCached,
      AfterLoad, ImageOpen, ImageEnds, VideoOpen, VideoEnds, AfterGenerate,
      StatSizeAgain, StatModifiedAgain, StoreCached, OutOfMemory, Catch,
      CatchSize, CatchModified
<1>c. Nothing \notin Digest
  BY ContentAssumption
<1>h. hit[f] => fingerprint[f] # Nothing
  BY <1>a, <1>c DEF FileInv, Stored
<1>s. pc[f] \in {"hashed", "imaged", "videoed"} =>
        Seen(f) \subseteq Digest /\ (Current(f) => Seen(f) = {Now(f)})
  <2> SUFFICES ASSUME pc[f] \in {"hashed", "imaged", "videoed"}
               PROVE  Seen(f) \subseteq Digest /\ (Current(f) => Seen(f) = {Now(f)})
    OBVIOUS
  <2>1. before[f].modified \in 1..version[f] /\ opened[f] \in before[f].modified..version[f]
    BY <1>a DEF FileInv, Started, Basis, Reads, Hashed
  <2>2. version[f] \in Nat
    BY <1>a DEF TypeOK
  <2>3. opened[f] \in 1..version[f]
    BY <2>1, <2>2
  <2>4. Current(f) => opened[f] = version[f]
    BY <2>1, <2>2 DEF Current
  <2> QED BY <1>a, <2>3, <2>4, SeenType DEF Seen, Now
<1>l. pc[f] = "load" => /\ digest[f] \in Digest
                        /\ cache[digest[f]] \notin {Nothing, Bad} =>
                             digest[f] \in Content /\ cache[digest[f]] = digest[f]
  <2>1. pc[f] = "load" => digest[f] \in Digest
    BY <1>a DEF FileInv, Started, Hashed, TypeOK
  <2> QED BY <1>a, <2>1 DEF CacheCoherent
<1>m. pc[f] \in {"modifiedAgain", "caughtModified"} /\ Same(f) =>
        /\ Current(f) /\ fileSize[f] = Size[Now(f)]
        /\ digest[f] = Now(f) /\ fingerprint[f] \in {Nothing, Now(f)}
        /\ Verified(f)
  <2> SUFFICES ASSUME pc[f] \in {"modifiedAgain", "caughtModified"}, Same(f)
               PROVE  /\ Current(f) /\ fileSize[f] = Size[Now(f)]
                      /\ digest[f] = Now(f) /\ fingerprint[f] \in {Nothing, Now(f)}
    BY DEF Verified, Current, Now
  <2>1. before[f].modified = version[f] /\ before[f].size = size[f]
    BY DEF Same
  <2>2. digest[f] # Nothing /\ Basis(f)
    BY <1>a DEF FileInv, Started, Hashed
  <2> QED BY <1>a, <2>1, <2>2 DEF FileInv, Reads, Current, Basis
<1>1. CASE StatSize(f)
  BY <1>1, <1>a, <1>b, <1>c, <1>h
    DEF StatSize, Raise, TypeOK, FileInv, Started, Basis, Hashed, Reads,
        Current, Checked, Verified, Reasons, Stored
<1>2. CASE StatModified(f)
  BY <1>2, <1>a, <1>b, <1>c, <1>h
    DEF StatModified, Raise, TypeOK, FileInv, Started, Basis, Hashed, Reads,
        Current, Checked, Verified, Reasons, Stored
<1>3. CASE HashOpen(f)
  BY <1>3, <1>a, <1>b, <1>c, <1>h
    DEF HashOpen, Open, Raise, TypeOK, FileInv, Started, Basis, Hashed, Reads,
        Current, Checked, Verified, Reasons, Stored
<1>4. CASE HashEnds(f)
  BY <1>4, <1>a, <1>b, <1>c, <1>h, <1>s
    DEF HashEnds, CheckStop, Raise, TypeOK, FileInv, Started, Basis, Hashed,
        Reads, Current, Checked, Verified, Reasons, Stored
<1>5. CASE LoadCached(f)
  BY <1>5, <1>a, <1>b, <1>c, <1>h, <1>l
    DEF LoadCached, TypeOK, FileInv, Started, Basis, Hashed, Reads, Current,
        Checked, Verified, Reasons, Stored
<1>6. CASE AfterLoad(f)
  BY <1>6, <1>a, <1>b, <1>c, <1>h
    DEF AfterLoad, CheckStop, Raise, TypeOK, FileInv, Started, Basis, Hashed,
        Reads, Current, Checked, Verified, Reasons, Stored
<1>7. CASE ImageOpen(f)
  BY <1>7, <1>a, <1>b, <1>c, <1>h
    DEF ImageOpen, ImageFails, Raise, TypeOK, FileInv, Started, Basis, Hashed,
        Reads, Current, Checked, Verified, Reasons, Stored
<1>8. CASE ImageEnds(f)
  BY <1>8, <1>a, <1>b, <1>c, <1>h, <1>s
    DEF ImageEnds, ImageFails, Raise, TypeOK, FileInv, Started, Basis, Hashed,
        Reads, Current, Checked, Verified, Reasons, Stored
<1>9. CASE VideoOpen(f)
  BY <1>9, <1>a, <1>b, <1>c, <1>h
    DEF VideoOpen, Open, Raise, TypeOK, FileInv, Started, Basis, Hashed, Reads,
        Current, Checked, Verified, Reasons, Stored
<1>10. CASE VideoEnds(f)
  BY <1>10, <1>a, <1>b, <1>c, <1>h, <1>s
    DEF VideoEnds, Raise, TypeOK, FileInv, Started, Basis, Hashed, Reads,
        Current, Checked, Verified, Reasons, Stored
<1>11. CASE AfterGenerate(f)
  BY <1>11, <1>a, <1>b, <1>c, <1>h
    DEF AfterGenerate, CheckStop, Raise, TypeOK, FileInv, Started, Basis,
        Hashed, Reads, Current, Checked, Verified, Reasons, Stored
<1>12. CASE StatSizeAgain(f)
  BY <1>12, <1>a, <1>b, <1>c, <1>h
    DEF StatSizeAgain, Raise, SizeOnDisk, TypeOK, FileInv, Started, Basis,
        Hashed, Reads, Current, Checked, Verified, Reasons, Stored
<1>13. CASE StatModifiedAgain(f)
  BY <1>13, <1>a, <1>b, <1>c, <1>h, <1>m
    DEF StatModifiedAgain, AfterCheck, Raise, TypeOK, FileInv, Started, Basis,
        Hashed, Reads, Current, Checked, Verified, Reasons, Stored
<1>14. CASE StoreCached(f)
  BY <1>14, <1>a, <1>b, <1>c, <1>h
    DEF StoreCached, TypeOK, FileInv, Started, Basis, Hashed, Reads, Current,
        Checked, Verified, Reasons, Stored
<1>15. CASE OutOfMemory(f)
  BY <1>15, <1>a, <1>b, <1>c, <1>h
    DEF OutOfMemory, TypeOK, FileInv, Started, Basis, Hashed, Reads, Current,
        Checked, Verified, Reasons, Stored
<1>16. CASE Catch(f)
  BY <1>16, <1>a, <1>b, <1>c, <1>h
    DEF Catch, Report, TypeOK, FileInv, Started, Basis, Hashed, Reads, Current,
        Checked, Verified, Reasons, Stored
<1>17. CASE CatchSize(f)
  BY <1>17, <1>a, <1>b, <1>c, <1>h
    DEF CatchSize, Report, SizeOnDisk, TypeOK, FileInv, Started, Basis, Hashed,
        Reads, Current, Checked, Verified, Reasons, Stored
<1>18. CASE CatchModified(f)
  BY <1>18, <1>a, <1>b, <1>c, <1>h, <1>m
    DEF CatchModified, Report, TypeOK, FileInv, Started, Basis, Hashed, Reads,
        Current, Checked, Verified, Reasons, Stored
<1> QED BY <1>1, <1>2, <1>3, <1>4, <1>5, <1>6, <1>7, <1>8, <1>9, <1>10, <1>11,
    <1>12, <1>13, <1>14, <1>15, <1>16, <1>17, <1>18 DEF Process

LEMMA IInvInit == Init => IInv
<1> SUFFICES ASSUME Init PROVE IInv
  OBVIOUS
<1>1. TypeOK
  BY TypeInit
<1>2. (caching => generate) /\ CacheCoherent
  BY ContentAssumption DEF Init, CacheCoherent
<1>3. ASSUME NEW f \in File PROVE FileInv(f)
  BY ContentAssumption
     DEF Init, NoState, FileInv, Started, Hashed, Reads, Checked, Reasons,
         Stored
<1> QED BY <1>1, <1>2, <1>3 DEF IInv

LEMMA IInvStep == IInv /\ [Next]_vars => IInv'
<1> SUFFICES ASSUME IInv, [Next]_vars PROVE IInv'
  OBVIOUS
<1>1. TypeOK' /\ CacheCoherent' /\ \A d \in Content : cache[d] = d => cache'[d] = d
  BY TypeStep, CacheStep
<1>2. UNCHANGED optVars
  BY DEF Next, vars, Write, Remove, OtherStores, RequestStop, AllEnded, Process,
      optVars,
    StatSize, StatModified, HashOpen, HashEnds, LoadCached, AfterLoad,
    ImageOpen, ImageEnds, VideoOpen, VideoEnds, AfterGenerate, StatSizeAgain,
        StatModifiedAgain,
    StoreCached, OutOfMemory, Catch, CatchSize, CatchModified
<1>3. ASSUME NEW f \in File PROVE FileInv(f)'
  <2> TypeOK /\ FileInv(f)
    BY DEF IInv
  <2>1. CASE Process(f)
    BY <1>1, <2>1, ProcessKeeps
  <2>2. ASSUME NEW g \in File, g # f, Process(g) PROVE FileInv(f)'
    <3>1. UNCHANGED <<version, log, stop>>
      BY <2>2 DEF Process, diskVars,
        StatSize, StatModified, HashOpen, HashEnds, LoadCached, AfterLoad,
        ImageOpen, ImageEnds, VideoOpen, VideoEnds, AfterGenerate,
            StatSizeAgain,
        StatModifiedAgain, StoreCached, OutOfMemory, Catch, CatchSize, CatchModified
    <3>2. /\ pc'[f] = pc[f] /\ before'[f] = before[f] /\ opened'[f] = opened[f]
          /\ size'[f] = size[f] /\ digest'[f] = digest[f]
          /\ fingerprint'[f] = fingerprint[f] /\ hit'[f] = hit[f]
          /\ fileSize'[f] = fileSize[f] /\ issues'[f] = issues[f] /\ raised'[f] = raised[f]
      BY <2>2 DEF TypeOK, Process, readVars, fieldVars, Raise, CheckStop, Open,
          ImageFails, Report,
        StatSize, StatModified, HashOpen, HashEnds, LoadCached, AfterLoad,
        ImageOpen, ImageEnds, VideoOpen, VideoEnds, AfterGenerate,
            StatSizeAgain,
        StatModifiedAgain, StoreCached, OutOfMemory, Catch, CatchSize, CatchModified
    <3> QED BY <1>1, <1>2, <3>1, <3>2, Untouched
  <2>3. ASSUME NEW g \in File, NEW c \in Content, Write(g, c) PROVE FileInv(f)'
    <3>1. \/ log'[f] = log[f] /\ version'[f] = version[f]
          \/ log'[f] = Append(log[f], c) /\ version'[f] = version[f] + 1
      BY <2>3 DEF Write, TypeOK
    <3>2. UNCHANGED <<stop, fileVars>>
      BY <2>3 DEF Write
    <3> QED BY <1>1, <1>2, <3>1, <3>2, Untouched DEF fileVars, readVars, fieldVars
  <2>4. CASE UNCHANGED <<version, log, fileVars>> /\ (stop => stop')
    BY <1>1, <1>2, <2>4, Untouched DEF fileVars, readVars, fieldVars
  <2> QED BY <2>1, <2>2, <2>3, <2>4
       DEF Next, vars, Remove, OtherStores, RequestStop, AllEnded, diskVars
<1>4. caching' => generate'
  BY <1>2 DEF IInv, optVars
<1> QED BY <1>1, <1>3, <1>4 DEF IInv

-----------------------------------------------------------------------------
\* The invariant behind the others: what was read while no write came is what
\* the file holds, and what is stored or reported was read that way.
THEOREM Inductive == Spec => []IInv
BY IInvInit, IInvStep, PTL DEF Spec

\* The values of process_file keep their types on any number of files.
THEOREM TypeCorrect == Spec => []TypeOK
<1>1. IInv => TypeOK
  BY DEF IInv
<1> QED BY <1>1, Inductive, PTL

\* A finished record describes one version of its file (the before/after check
\* of process_file), whatever is written and removed meanwhile.
THEOREM RecordsOneVersion == Spec => []OneVersion
<1>1. IInv => OneVersion
  BY DEF IInv, FileInv, Checked, Verified, OneVersion
<1> QED BY <1>1, Inductive, PTL

\* No fingerprint is ever stored under the digest of another content.
THEOREM EntriesCoherent == Spec => []CacheCoherent
<1>1. IInv => CacheCoherent
  BY DEF IInv
<1> QED BY <1>1, Inductive, PTL

\* A finished record has its fingerprint or the issue that says why not, and
\* neither a stop nor exhausted memory is ever the issue of a file.
THEOREM FingerprintOrReason == Spec => []FingerprintOrIssue
<1>1. IInv => FingerprintOrIssue
  BY ContentAssumption DEF IInv, FileInv, Started, Reasons, Stored,
      FingerprintOrIssue
<1> QED BY <1>1, Inductive, PTL

\* A corrupt entry has been replaced, or a write issue says that it was not.
THEOREM CorruptReplaced == Spec => []EntryRepaired
<1>1. IInv => EntryRepaired
  BY DEF IInv, FileInv, Stored, EntryRepaired
<1> QED BY <1>1, Inductive, PTL
=============================================================================
