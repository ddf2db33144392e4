# GhidraEngine in TLA+

GhidraEngine finds exact and near duplicates among images and videos.  This
directory holds TLA+ models of its engine, the TLC configurations that check
them, and proofs checked by TLAPS of all their safety properties.  Paths are relative to
the root of the source tree.

## 1. The system

| Part | State | Operations | Hard behaviour |
|---|---|---|---|
| **Media scanner** `src/scan/scanner.cpp` `scan_media` | `result.files`, a vector of issues per file, the counters `next` and `completed`, the first failure, two mutexes, a linked stop source | validate, enumerate, start threads, claim, process, report, fail, join, finish | threads sharing elements without a lock; a failure and a caller's stop racing; an observer that throws; a thread that cannot be created |
| **Enumeration** `collect_paths`, `normalize_roots` | an ordered set of paths, issues | visit an entry, follow or skip it | links, nested and repeated roots, the cache below a root, entries that vanish |
| **File processing** `process_file` | one record, its issues | look at the file, hash, load, generate, look again, store | the file is rewritten between any two of its system calls |
| **Exact groups** `exact_duplicate_groups` | none | group identifiers by digest | a pure function |
| **Fingerprint cache** `src/cache/fingerprint.cpp` | the files of a directory, staging directories, on Windows a mutex | load, store, the settings key | crashes, half-written files, concurrent stores and loads, damaged entries |
| **Codec** `src/io/fingerprint.cpp` | none | serialize, deserialize | lengths, counts and the frame budget |
| **MIH index** `src/index/mih_pdq.cpp` | records, links, bucket heads and counts, an identifier set | build, insert, reserve, search | recall of the bucket search, cut-offs to the linear search, allocation failures in an insertion |
| **Flat index** `src/index/flat_pdq.cpp` | sorted records | build, insert, search | the reference for the other index |
| **Image decoder** `src/image/decode.cpp` | a reader-writer lock, libvips' diagnostic buffer, the thread's warnings | decode, retry alone | messages attributed to the wrong file |
| **Video decoder** `src/video/decode.cpp` | demuxer, codec, pending packet, draining, ended, failed, two timestamps | construct, next | a protocol of two libraries' calls with an error at each |
| **Video fingerprint** `src/video/fingerprint.cpp` | the retained frames | decode, hash, prune | the budget at its limit |
| **Matching** `src/match`, `src/index/video.cpp` | sorted catalogues | find candidates, verify, coverage | candidate search must not lose a match; coverage in chunks and from samples |
| **Hashing and kernels** `src/hash`, `src/cpu` | none | PDQ, BLAKE3, Hamming distance | floating point and vector code |

The scanner calls enumeration once, then process_file for each file from several
threads.  process_file calls hashing, the cache (load, and store when the
fingerprint is new), the image and the video path.  The caller feeds the
fingerprints of the result to catalogues and indexes and matches them; those are
used by one thread at a time.  All the threads share the stop token, the cache
directory and the decoder lock.

What makes each part correct:

* the scanner: every file in the result is finished and reported on, no record is
  shared, "cancelled" means the caller asked, the first failure is the one
  reported, observer calls do not overlap, and the call ends;
* file processing: digest, size, times and fingerprint of a record belong to one
  content of the file, the cache never maps a digest to another content's
  fingerprint, and whatever is missing has an issue;
* the cache: one atomic map, through crashes and errors;
* the indexes: MIH finds what the flat search finds;
* matching: candidates include every match;
* the decoders: an ended or failed decoder stays so, timestamps never go back,
  messages belong to the file they are shown for.

## 2. Modules

| Module | Models | Kind |
|---|---|---|
| `ScanMedia` | `scan_media`, its pool and its caller | detailed specification |
| `ScanContract` | what a caller may rely on | abstract specification |
| `ScanMediaProofs` | | proofs about `ScanMedia` |
| `ProcessFile` | `process_file` against programs that change the file | detailed specification |
| `ProcessFileProofs` | | proofs about `ProcessFile` |
| `MCProcessFile` | | values for TLC |
| `FingerprintCache` | `load` and `store`, one step for each file-system call | detailed specification |
| `AtomicCache` | an atomic map with invocations and answers | abstract specification |
| `FingerprintCacheProofs` | | proofs about `FingerprintCache`, with its refinement |
| `MihIndex` | `MihPdqIndex`: construction, insertion, search | detailed specification |
| `IndexProofs` | | proofs about `MihIndex`, with its refinement, and about `VpdqCoverage` |
| `MCMihIndex` | | values for TLC |
| `PdqIndex` | what an index promises | abstract specification |
| `VideoDecoder` | the constructor of `VideoDecoder` and `next` on FFmpeg | detailed specification |
| `MCVideoDecoder` | | values for TLC |
| `FingerprintVideo` | `fingerprint_video`, which runs the steps of `VideoDecoder`, and `prune_vpdq` | composition |
| `VideoProofs` | | proofs about `VideoDecoder` and `FingerprintVideo` |
| `MCFingerprintVideo` | | values for TLC |
| `ImageDecode` | `decode_image` in several threads: the lock, the retry, libvips' messages | detailed specification |
| `ImageDecodeProofs` | | proofs about `ImageDecode` |
| `PdqHash` | hashes and their distance | definitions shared by the next four and `MihIndex` |
| `VpdqCoverage` | `vpdq_coverage_count`: chunks, samples, the byte index | algorithm against its definition |
| `Matching` | the query, the policy and the list of candidates, sorting | shared by the next two |
| `VideoMatch` | the video catalogue, its candidates, their verification | composition |
| `ImageMatch` | `FlatPdqIndex`, the image catalogue, candidates, verification | composition |
| `FingerprintCodec` | serialization, its reader, the settings key | algorithm against its definition |
| `FingerprintProofs` | | proofs about `FingerprintCodec`, `ImageMatch` and `VideoMatch` |
| `ScanPaths` | `normalize_roots` and `collect_paths` on a tree that changes | detailed specification |
| `ScanPathsProofs` | | proofs about `ScanPaths` |
| `MCVpdqCoverage`, `MCVideoMatch`, `MCImageMatch`, `MCFingerprintCodec`, `MCScanPaths` | | values for TLC |

Operators named "faulty variants" are plausible bugs of the code that no
specification uses; each breaks one of the properties when it replaces the
action it varies, which shows that the property says something.

### ScanMedia

`main` is the position of the calling thread in `scan_media`, `pc[w]` that of
thread `w`; `next`, `completed`, `fatal`, `cancellation` and the owners of
`fatal_mutex` and `progress_mutex` are the locals of the call.  `entry[p]` is
`result.files[p]`: untouched, being written, or finished with or without a
digest, a fingerprint and issues.  The actions are the statements between two points where
another thread can intervene: `Claim` is `next.fetch_add` and the test,
`FileEnds` and `FileThrows` the end of `process_file`, `LockProgress`,
`CountFile`, `Deliver`, `ObserverAccepts` and `ObserverThrows` the report,
`LockFatal`, `RecordFatal`, `RaiseCancellation` the catch clause, `SpawnFails`
the unwinding of `workers.emplace_back`, `JoinWorker` the join, `Rethrow` and
`FinalCheck` what follows.  `link` is the `stop_callback`: its callback may still
be running when the call unwinds, and its destructor waits for it.

`process_file` is one step here, which chooses any record it can produce;
`ProcessFile` has its steps.  Enumeration yields new paths, issues, an exception
or nothing.  A failed allocation may happen where the code allocates.

### ProcessFile

`present`, `version` and `log` are the file and its history; `Write` and
`Remove` are other programs and may happen between any two system calls.  Each
action of the code is one system call or the computation after it.  `version`
stands for the contents; a size is shared by several versions, a modification
time is not (below).  `cache` is the entry under each digest.

### FingerprintCache

`entry[k]` is the published file of a key, `stage[n]` a staging directory. `pc`
is the position of each thread in `load` or `store`.  The position `leave` is the
return or the exception that releases the lock, `clean` the destructor of
`StagingDirectory`.  `windows` chooses the build: with it the
process-wide lock, and a rename that an open reader would make fail.
A step that does input or output may fail.  `Crash` ends the process: staging
directories stay, published files too.  `Disturb` is the disk, or another
program, damaging, removing or replacing an entry.

The refinement mapping takes the instant a load acts to be its opening of the
file, or its status check when there is none, and the instant a store acts to be
its rename.

### MihIndex

`entries`, `links`, `heads`, `counts` and `ids` are the members of the class;
`entryRoom` and `linkRoom` are the capacities of two of the vectors, which decide
what may throw.  Hashes are those of `PdqHash`, with words for slots; the numbers of slots and of
bits are parameters, and so is the budget by size.  `insert` is a chain of steps,
one for each statement that allocates, each of which may fail (`GrowFails`,
`AllocationFails`); an exception leaves what the earlier statements have done.
`Build`, `Copy` and `MoveFrom` are the constructors and the assignment, which swap
in a finished object, or change nothing if memory fails them.  `Search` is `search_within` as an operator on the state.

### VideoDecoder and FingerprintVideo

`pc` is where the constructor or `next` is between two calls of FFmpeg; `pending`,
`draining`, `ended`, `failed`, `previous` and `selected` are members of `Impl`, `broken`
is what `io->error` tells at the end of the input.  A file is the sequence of its packets,
each of the video stream, and then one frame, or of another stream; `held` are the frames
in the codec, which gives one back when it has more than `delay` of them or is draining.  A
codec that reorders gives frames in the order of presentation, so a file lists them in
that order; any timestamps may follow each other all the same, as in a broken file.
`Fails` is the error a call of FFmpeg, or a check of its result, can have at
any position, and `Throw` what the public `next` makes of it.  Pixels, orientation and
dimensions are left out.

`FingerprintVideo` extends the decoder: `Decode` is any of its steps, `NextFrame`,
`RetainFrame` and `Return` are the loop around `decoder.next()`.  `content` has the hash
of each frame.

### ImageDecode

`readers` and `writer` are the holders of `decoder_mutex`; `buffer` is libvips' one buffer
of messages, as the set of images it has messages about; `isolated` is the thread-local
`isolated_errors`, `seen` the member of `Warnings`.  `pc` goes through `decode_image`: the
attempt under the shared lock (`LockShared`), its steps in libvips (`Prepare`, `Evaluate`,
`CheckWarnings`), the retry with the lock held alone and the buffer cleared
(`LockExclusive`), and `ReadLuma` after the lock.  `Throw` is `reject`, `FailNative` is
`fail`; both lead from the first attempt to the retry and from the retry to the caller.
What an image is, is its `trouble`; a shared attempt may also fail because another thread is in
libvips (`Disturbed`), which is what the retry is for.

### Matching: PdqHash, VpdqCoverage, Matching, VideoMatch, ImageMatch

`PdqHash` has hashes as functions from slots to sets of bits.  `VpdqCoverage` takes one
step for each chunk of the second list: `matched` is the bitmap, `matches` the count,
`CountChunk` the choice between scan and index by what a sample costs, and
`CountRemaining` the counts of the ranges between samples.  `Masks` and `Postings` are the
masks and buckets of `VpdqByteIndex`.

`VideoMatch` goes from records in any order to matches: `Build` is the constructor of the
catalogue, `FindVideoCandidates` the index search of every eligible hash,
`VerifyVideoCandidates` the function of this name; between the two a caller may add to the
list of candidates (`OtherVideoCandidates`).
The coverages and the searches are their definitions here; `VpdqCoverage` and `MihIndex`
show that the code's are.  `ImageMatch` fills a `FlatPdqIndex` one record after the other,
finds candidates by merging the hits of each variant, and verifies them.  `Matching` has
what both share: `phase` is how far the caller has come, `Ordered` is `std::ranges::sort`, as
the list of a set's elements in an order that is strict and total on them.  It is a choice
and not an algorithm, so that a proof can say which list it is.

### FingerprintCodec

`Serialize` writes a fingerprint, `Damage` cuts it off or changes a byte, `Receive` has any
bytes with a checksum that is right, and `Deserialize` reads.  Fields have the widths that the
constants give.  `Choose` takes two settings, whose keys are `Key`.

### ScanPaths

`kind` is the tree, which `Change` alters between any two questions to the file system.
`roots` are the names given; `dirs` is the stack of `recursive_directory_iterator`, `entry`
the entry it is at, `listed` what this was when it was listed and `recurse` is
`recursion_pending`.  `Inspect` and `DirectoryLink` are the two status calls for an entry
(`Followed` and `Unfollowed` are what they may tell, of an entry that has become something else as well),
`Decide` what follows from them, `Increment` the next entry with the directory that this
may enter.  `junctions` is a file system whose links to directories the library takes for
directories (Windows), which `directory_link` is for.

## 3. Runs

| Run | Bounds | Shows |
|---|---|---|
| `scan_pool` (`ScanMedia.cfg`) | 2 threads, up to 3 files, 1 enumeration issue | the properties below, the contract and that the call ends; 409,608 states |
| `process_file` (`ProcessFile.cfg`) | up to 2 rewrites of a file, removals at any point, any option and any state of the cache | what a record says belongs to one version; 2.5 million states |
| `cache_files` (`FingerprintCache.cfg`) | 2 threads, 3 calls, 2 keys, 2 staging names, 2 attempts, 1 fault | the files are an atomic map and calls end; 164,026 states |
| `mih_index` (`MihIndex.cfg`) | 4 identifiers, at most 3 records, 3 hashes of 2 slots of 3 bits, 6 queries | search is exact, and insertion adds or changes nothing; 109,448 states |
| `video_decoder` (`VideoDecoder.cfg`) | files of at most 3 packets, 5 timestamps of 3 bits, 3 intervals, 4 calls | the frames given are the sample; the end and failures are final; 632,246 states |
| `fingerprint_video` (`FingerprintVideo.cfg`) | files of at most 3 packets, 3 hashes, budgets 1 and 2 | signature and budget are exact; 1.5 million states |
| `image_decode` (`ImageDecode.cfg`) | 2 threads, 2 calls each, 2 images, any of 7 troubles, a stop at any point | errors are about the right file, verdicts are the image's own, calls return; 290,000 states |
| `vpdq_coverage` (`VpdqCoverage.cfg`) | 64 first lists of up to 4 hashes, the 79 runs of a second list of 12, chunks of 8, every distance from 0 to 6 | the count is the definition's; 72,000 states |
| `video_match` (`VideoMatch.cfg`) | catalogues of up to 2 records, signatures of up to 2 frames, 15 policies | no match is lost or added; 547,000 states |
| `image_match` (`ImageMatch.cfg`) | up to 3 of 6 records inserted in any order, queries of up to 2 variants, 3 policies | each near image once, at its least distance; 272,000 states |
| `fingerprint_codec` (`FingerprintCodec.cfg`) | bytes of 4 values, fingerprints of up to 2 items, payloads of up to 6 bytes after the header, 387 settings | exact round trip, nothing else is accepted; 529,000 states |
| `scan_paths` (`ScanPaths.cfg`) | 6 paths, 2 roots of 3, the cache a directory or a file in its place, 1 change at any point, budget of 2 | a wanted file is found or has an issue, and nothing else is found; 2.9 million states |

Why the bounds are enough.  Two threads and three files give a thread that
processes a second file while the other is at any point, a thread that never
gets a file, and a claim past the end by both; the proofs remove the bounds.
Two rewrites let a file change between any two looks and change again
between the second look and the catch clause's, and come back to an earlier size.  Two
staging names and two attempts let a store run out of names, because a fault leaves
one behind.  One fault is one crash, one damaged entry or one failed removal at any
point; three calls let a store race a store or a load and be followed by a load.
Two slots of three bits give the three radii of the search, each with one or two wider
slots, and distances from 0 to 6, of which the last is beyond the bucket search; the
budget of 8 for each record makes searches stop at the number of lookups, at the number of
postings, or at neither.  Three records reach the limit on positions, and
four identifiers the insertion that it refuses.
Timestamps of three bits include both extremes, whose distance does not fit a signed
number; three packets give a packet that discovery keeps, one that is dropped and one
that is given, or a packet of another stream before each, and four calls one after the
end or a failure.  Three frames with three hashes let pruning compare with a frame other
than the one before, and meet the budget with a frame retained, pruned, or too many.

For `image_decode`, two threads give a decode that fails while another is anywhere in
libvips, and one that waits for the lock alone while the other waits for it shared; the second call
of a thread finds what its first one left in the buffer.  For `vpdq_coverage`, distances run
through all the mixed radii of two slots and both ends; lists of twelve make two chunks, the
first of which may match some, all or none of the hashes, sampled or not, and with a fixed cost of
zero the choice falls both ways.  Two frames in a signature repeat a hash with another
quality, and two records give candidates that one search retrieves and another does not.
Three records include two of one image, at either distance, on either side in the order of identifiers.
Payloads of up to two items of each width have each number of bytes left over, and counts above
and below what is there.  The six paths of `scan_paths` have a nested root, a root inside the
cache, a link to a file, a directory that may be locked or a link, and files below it; one
change turns any of them into anything between any two questions.

### Properties of `scan_pool`

* `ExclusivePositions`: two threads never write one element of `result.files`.
* `CompleteResult`: a result that is returned has every file finished, and no
  thread is left.
* `EveryFileReported`: the observer of a call that returns a result was told of
  every file, and never of more files than there are.
* `CancelledOnlyIfStopped`, `FailureReported`: the cancellation a failure
  provokes in the other threads is never what the caller is told.
* `SerializedReports`, `MonotonicReports`: observer calls do not overlap, and
  their counts never go back (`docs/api.md`).
* `FinishedEntriesStable`: a finished record does not change, and nothing at all
  after the call has ended: no thread outlives it.
* `Terminates`, `ImplementsContract`.

### Properties of `process_file`

* `OneVersion`: what a finished record says belongs to one version of the file.
* `CacheCoherent`: no entry holds another content's fingerprint.
* `FingerprintOrIssue`: what is missing has an issue, and neither a cancellation nor
  exhausted memory is ever the issue of one file.
* `EntryRepaired`: a damaged entry met by a file that could be fingerprinted is
  replaced, or the record says why not.

### Properties of `cache_files`

* `StagingExclusive`: what a store is about to publish is what it has written.
* `NoSharingViolation`: on Windows no rename meets a reader of the process.
* `OnlyCrashLeaks`: a store that ends removes its staging directory, unless the
  removal itself fails.
* `Answered`: every call returns.
* `ImplementsAtomicCache`: loads and stores are atomic, torn or misplaced
  entries are errors and never fingerprints.

### Properties of `mih_index`

* `IndexConsistent`: between calls, failed ones included, the chains of each slot
  partition the records, the counts are their lengths, and the identifier set holds every
  identifier, or none while the records are sorted.
* `SearchExact`: for every query and every distance the hits are those of a linear search, in
  the order of identifiers (`docs/api.md`).
* `ImplementsPdqIndex`: an insertion adds its record or changes nothing, and
  exactly the known identifiers are refused as duplicates.

### Properties of `video_decoder`

* `SampleExact`: no frame is lost, repeated or reordered between the file and the
  caller, the frames given are those that `docs/api.md` defines as the sample, and at the
  end they are the sample of the whole stream.
* `NeverBackward`: frames that go back in time are never passed over.
* `EndFinal`: after the end or a failure FFmpeg is not called again.
* `Returns`: the constructor and `next` end; the loops over packets and frames cannot
  go round without getting on.

### Properties of `fingerprint_video`

* `SignatureExact`: a signature has exactly the frames of the file that are sampled and
  not pruned, with their hash and time, and the budget is exceeded only by these.
* `PruneAgrees`: `prune_vpdq` on the unpruned signature gives the pruned one.

### Properties of the other runs

* `OwnDiagnostics` (`docs/api.md`): the message of an error is about its own image, through
  a buffer that all threads write to.
* `OwnVerdict`: failures of other decodes neither reject a good image nor let a bad one
  pass.
* `Returns`: no thread waits for ever for either kind of lock.
* `CoverageExact`: after every chunk each hash with a neighbour so far has been counted
  once, whatever was sampled, scanned or looked up.
* `MatchesExact`: the matches of a catalogue are those of comparing with each record as
  `docs/api.md` defines it, in order, with both coverages.
* `BestMatches`: however the index was filled and the candidates were listed, each image with a
  good record near a good variant is there once, at its least distance.
* `CodecExact`: what was stored comes back, damage is noticed, and accepted bytes are the
  ones that their fingerprint is written as.
* `SettingsDistinct`: different settings never share entries of the cache.
* `MissingHasIssue`: a file that should be found and is not has an issue at or below a
  root of it, while other programs change the tree.
* `OnlyWanted`: links to directories are never entered, nothing of the cache becomes media,
  and the budget holds.

The last two are about paths that, with all above them, have not changed since the call
began: of others nothing can be promised.

## 4. Fairness

`ScanMedia` assumes weak fairness of each pool thread, of the calling thread and
of the thread that forwards the stop: the operating system runs threads that can
run.  No fairness of the mutexes is needed, because a thread takes each lock a
bounded number of times.  It assumes that `process_file` and the observer return;
nothing is assumed about the caller's stop.  `FingerprintCache` assumes weak fairness
of each thread; the mutex is taken once in a call.  `VideoDecoder` and `FingerprintVideo` are
one thread's code and assume that it runs and that calls of FFmpeg return; the stop
is the caller's and not assumed.  `ImageDecode` assumes weak fairness of each thread's steps.
`std::shared_mutex` promises no fairness, and none is needed: every thread makes a bounded number
of calls, so that readers cannot keep a writer out for ever.  With an endless stream of
calls of other threads, the standard would allow a retry to starve.  The other modules state no
fairness and no liveness: they are loops over finite lists, and `ScanPaths` ends
only if the tree stops growing.

## 5. Proofs

`ScanMediaProofs` proves, for any number of threads, files and issues, under the
assumption `ParameterAssumption` of `ScanMedia` (1 to 256 threads, as `validate`
demands, at least one file, a natural number of issues), `TypeCorrect`,
`PositionsExclusive`, `ResultComplete`, `CancellationTruthful`,
`FirstFailureReported`, `ReportsSerialized`, `EntriesStable` and
`ContractSafety`, the safety part of the refinement.

They follow from one inductive invariant, `IInv`:

* `Locking`: who is at a position that holds a lock is the lock's owner;
* `Phases`: what has happened by each position of the calling thread, such as
  that every thread has left when it rethrows;
* `Claims`: a held position is below `next`, in range and held once; a position below
  `next` that is not finished is held, or was torn by a failure; a thread leaves
  for a reason; and if nothing went wrong every position was claimed;
* `Causes`: cancellation is requested only because of the caller's stop, or after
  a failure was recorded;
* `Endings`: what the end of the call says about these.

None of the properties is inductive alone.  That a result is complete, for
instance, needs that a thread that left did so because the positions were used up,
because of a stop, or because of a recorded failure; that the last two are
seen before the result is built; and that a claimed position is finished unless
one of them happened.

`ProcessFileProofs` proves, for any number of files, contents, sizes and writes, under
`ContentAssumption` (sizes and kinds are given for every content, and the marks are no
contents), `TypeCorrect`, `RecordsOneVersion`, `EntriesCoherent`, `FingerprintOrReason` and
`CorruptReplaced`.  The run has one file and the theorems any number, which is what the
sharing of the cache needs.  The invariant `IInv` has five parts for each file:

* `Started`: what a thread has filled in by each position, and that the modification time it
  read first is one the file has had;
* `Reads`: while no write has come since (`Current`), the digest and the fingerprint are those of
  what the file holds now, and whoever has it open has this version open;
* `Checked`: a record that is stored or finished has been looked at again, and is
  `Verified`: of the version whose time was read first.  It stays so because the history of a file
  only grows (`Untouched`);
* `Reasons`: why there is no fingerprint, and which errors reach the handler;
* `Stored`: a fingerprint that was loaded is still the entry of its digest.  It needs
  `CacheCoherent`, and this needs `Checked`, so that they are proved together.

`FingerprintCacheProofs` proves, for any number of threads, keys, staging names and calls,
under the assumption of `FingerprintCache` (the marks for what is no file are no contents, and
there is a key and a value), `TypeCorrect`, `ExclusiveStaging`, `RenameMeetsNoReader`,
`StoresCleanUp` and `FilesAreAtomicMap`: that every step of the files is a step of
`AtomicCache` or leaves it alone.  `IInv` is

* `Staging`: a thread at a position of `store` between making its directory and removing it,
  and no other, has a name, and the directory is there;
* `StagingExclusive`: no two threads have one name, and what a store publishes is what it wrote;
* `Reading` and `Locking`: an open entry is a file, and on Windows whoever looks at the
  entries or replaces one is the lock's owner;
* `OnlyCrashLeaks`: a staging directory without an owner is one that a fault left.

The refinement adds `Calling`: a position of `load` or of `store` is that of a call of this kind,
and an idle thread has no result.

`ImageDecodeProofs` proves, for any number of threads, images and calls, `DiagnosticsOwn`,
`VerdictOwn` and `RetryExclusive`, that no other thread is inside libvips during a retry.  The
invariant adds to the types `Locks` (who is at a position under the lock held alone is its
holder, and then no thread is at one under the shared lock), `CleanBuffer` (during a
retry the buffer has messages about the image of the writer only) and `Passed` (what an attempt has
found out about its image by each position).  `CleanBuffer` is where the two are needed together:
it is cleared by a statement and kept clean only because of the lock.

`VideoProofs` proves, for any file, codec, interval and number of calls, `TypeCorrect`,
`SampleGiven`, `OrderKept` and `EndStays` of the decoder; `DecoderWithin`, that
`fingerprint_video` runs it as its own specification allows, so that these hold there too; and
`SignatureReturned` and `PruningAgrees`.  The invariant of the decoder is `Stages` (the
members by position), `Flow` (each packet read is dropped, held, or its frame has been seen, in
order), `Marks` (`previous` and `selected` are the times of the last frames seen and given) and
`Sampling` (what is given is the sample of what is seen).  That of the composition adds
`Outcomes`, `Selection` and `Retention`, by which the signature is what pruning leaves of the frames
decided on so far.  The gap that wraps is exact for all pairs of timestamps, by its arithmetic.
TLC checked the second invariant on the run's 1,529,128 states.

`ScanPathsProofs` proves, for any tree, roots, cache, budget and changes, `FoundWanted` and
`MissingReported`, under `TreeAssumption` (every path but the top has a parent, in finitely many
steps) and `CacheAssumption` (the cache's directory was resolved when the cache was opened, and may
be gone or a file by now, as in `tests/scan/scanner_cache_test.cpp`).  The invariant is `Stages`,
`CacheReal`, `RootsReal`, `RootOutside`, `Listed` and
`Inspected` (what was listed or inspected is what an untouched entry is) and `Pursued`: of
each wanted file that is not found, something on the way to it still waits in the iterator, or its
root is yet to come, or there is an issue.  `SettledFrame` says that changes leave alone what is said
of paths that do not change.

`IndexProofs` proves, for any identifiers, hashes, capacities, budget and failing
allocations, `IndexStaysConsistent`, `SearchesAreExact` and the refinement `IndexIsMap`.
The invariant is `Linking` (the tables are those of the records linked so far), `Identifiers`
and `Rooms` (each statement of an insertion finds the room that an earlier one made sure of, so that
the linking, which must not fail, cannot).  The recall of the search is a pigeonhole argument,
`SlotWithin`: hashes within a distance have a slot within the radius of this slot, for every number of
slots and for the wider radius of the first few.  The same lemma gives `FoundNear` for the byte index of
`VpdqCoverage`, whose theorem `CountsAreExact` says, for any lists, sizes of chunk and sample and
any estimated cost, that the count is that of the hashes with a neighbour.  Its invariant,
`CoverageInv`, says that the bitmap has those with a neighbour among the hashes taken so far, and that
the count is its cardinality; `SamplesApart`, `RangesCover` and `SumOfSets` show that samples
and the ranges between them go over a list once.  TLC checked it on the run's 72,273 states.

`FingerprintProofs` proves `RoundTrip`: for fields and bytes of any width and any
fingerprint, stored bytes are read as the fingerprint they were made from unless they were damaged or are
over the budget, and accepted bytes are those their fingerprint is written as.  Numbers are digits
to a base; that `Number` and `Bytes` are inverse is an induction on the digits, and that pieces of equal
length come back one on the lengths.  `CodecInv`, the invariant (`Stored`, `Read`, `Compared`), was
checked by TLC on the states of the run.  `CodecAssumption` says that a byte has more than two values and that
the fields fit their widths.  `KeyInjective` says that settings with the same words are the
same, for all settings and not only valid ones, and `DistinctSettings` that `SettingsDistinct` holds in
every execution.

The same module proves `MatchesAreBest` of `ImageMatch` and `MatchesAreExact` of `VideoMatch`, for
any catalogue, query, policy and identifiers a caller adds, under `ImageAssumption` and
`VideoAssumption` (the types of records, queries and policies, minima between 0 and 1 as `Coverage`
demands, and one identifier that no record has).  The invariants are

* `ImageInv`: no two records have one identifier (`OneOfEach`), the index has the entries of these
  records (`IndexFollows`), and every record near a variant is among the candidates (`NearOffered`),
  which are otherwise identifiers of records or the caller's.  `SetUnionIs` says that the merge loses
  nothing, by counting its steps; `SameNearest` and `FirstOfEachIs` that the nearest pair of each
  image is what sorting by image and distance and keeping the first leaves;
* `VideoInv`: the catalogue is the records given, each once, with their frames (`Built`), and every
  record that matches is among the candidates.  `FlattenBoth` says that hashes and frames, put together
  in two lists, have equal positions; `EligibleIs` that the first frame of a hash decides, in the code
  and in the definition; `MatchedIs` that the counts at both ends of the distance are those in between;
  and `CoversSome` that a positive minimum needs a near pair, which is why the search can leave out a
  video and why, without a minimum, it must not search.

The identifier that no record has is in the invariants because a call with it must fail, and one
without it must not.  TLC checked the invariants on the 271,656 and 546,840 states of the two runs.
`StrictOrder` and `InOrder` carry the argument on sorted lists: a finite set has exactly one list in a
strict total order.

`ScanMediaProofs` also has `EveryFileCounted` and `ReportsMonotonic`.  They need two further
invariants: `Counting`, that `completed` and the threads about to count are as many as
the finished files, an argument on cardinalities, and `Reporting`, that the last report is the count, or
one less while the thread that counted holds the lock.

Where a proof needs induction, on the length of a list or the number of digits, it takes the least
counterexample: the library's theorem that `<` on the naturals is well-founded gives each
non-empty set of naturals a least element, and from this follow, once in each module,
an induction over sets and the defining equation of a recursive function.  Operators that were
defined with a fold of the community modules are recursive functions where a theorem is about
them.

Only model-checked: the liveness properties `Terminates`, `Answered` and both `Returns`, which
need fairness and `ENABLED`.

## 6. Abstractions and what they hide

* A write to a file gives it a modification time that no earlier version had.
  With a file system whose clock is coarser, two writes of the same size within
  one tick escape `process_file`, as they escape the code.
* BLAKE3 is injective; a serialized fingerprint is what it was made from, and its
  checksum finds every truncation.
* One process uses the cache.  Several processes on one directory are not
  modelled; the lock of the Windows build does not cover them.
* `Disturb` only damages: nobody forges an entry.
* A warning of libvips is noted by the thread that gives it.  For images that the pool of libvips
  evaluates this is another thread, and `Warnings` does not see it (trouble `pool`); the model
  has this behaviour, and takes such an image for a good one, as the code does.
* An image's trouble is the image's own: decodes of one file that differ from one time to the
  next are not modelled, except for failures another decode may cause (`Disturbed`).
* Checks that come before any step, as those of the options and the file in `decode_image`, are left
  out, and so is a refused insertion into the index of `ImageMatch` (a step that changes nothing;
  `MihIndex` has it).
* Coverages and their minima are compared as exact rationals in `VideoMatch`; the code compares
  doubles, and the two differ only where a quotient is rounded on to the minimum.
* The numbers of lists, chunks and probes, and the estimated cost, are constants of `VpdqCoverage`;
  the run has them small.  The value 0 for both terms of the cost makes the index pay early.
* `ScanPaths`: an iterator that cannot open a directory, or read on, ends the
  enumeration of its root with one issue, as libstdc++ has it.  A root that is gone, or whose
  parent is gone or no directory any more (`Gone`), gets such an issue too; an error of another kind is
  thrown by `is_regular_file`.  Behind a link anything may be found, and the root's name is taken to be unresolvable if its path has come to lie behind
  a link before it was resolved.
* In `FingerprintCodec` magic and version are one byte, and an allocation beyond the memory is
  left out: a count is compared with the bytes there are before anything is reserved.
* After an observer has thrown, `progress_mutex` is released before the other
  threads are told to stop, so another report may still be delivered; the model
  has this behaviour and no property excludes it.

## 7. Plan

1. `exact_duplicate_groups`, as a grouping against its definition.
2. `VideoMatch` with `MihIndex` in the place of its search, so that `SearchesAreExact` carries over
   to the matches.

## 8. Not modelled

PDQ hashing, tone mapping and the vector kernels are numerical code; pixel
conversion in the decoders is data, and so are the orientation and the dimensions of video
frames.  `image/fingerprint.cpp` calls the decoder and the hash for each transform and has no
state.  `exact_duplicate_groups` groups by digest.  libvips, FFmpeg and the BLAKE3 library appear
as what their callers can see of them.   The build, the
tests, the benchmarks and the vendored code are not part of the library.
