# Verification of xet

TLA+ models of the parts of xet where concurrency, crashes, retries and stale
state make correctness hard to test, TLC runs that check them on small
instances, and TLAPS proofs that hold for every instance.  `PROJECT.json` lists
the components, the runs and their properties, the map from definitions to
source lines, one defect per property, the findings, the hazards of the code
and the theorems.

## The system

xet stores files as content-addressed objects.  A *xorb* packs chunks; a
*shard* describes files as terms (chunk ranges) over xorbs; three indexes
(`index/files`, `index/sha256`, `index/chunks`) lead from a hash to a shard.  A
CAS server takes uploads of xorbs and shards and answers reconstruction queries;
a client uploads with deduplication and downloads through an on-disk chunk
cache; a mirror fetches files of an upstream hub, ingests them and serves
followers meanwhile; a garbage collector sweeps what nothing anchors.

| part of the code | module | what is hard about it |
|---|---|---|
| objects and indexes of the backends | `Store` | S3 overwrites an entry, the others keep the first |
| `storage/putfile.go`, `putshard.go` | `Commit` | many calls, no transaction, a crash in between, cached answers |
| `storage/gc.go` | `Sweep`, `StoreGC`, `Reclaim` | judges from earlier walks and deletes while uploads run |
| `storage/cache.go` and its callers | `IndexCache` | a load outside the lock overlaps a delete and its eviction |
| `internal/xorbmap`, `internal/lru`, `storage/s3/xorb_cache.go` | `XorbMap` | eviction, deletion and re-download of a hash that readers hold |
| `storage/reconstructed_*.go` | `Pipeline` | fetcher, workers, reader and closer; teardown at any step |
| `mirror/spool`, `mirror/task.go`, `mirror/fetch.go` | `Spool`, `Delivery` | followers of a writer that may fail; spool files outlive a crash |
| `mirror/resolve.go`, `branch.go`, `index.go`, `sweep.go` | `Mirror` | one index in memory and on disk, many writers of a manifest |
| `download/chunk_cache.go`, `cache_manager.go`, `cache_merge.go` | `ChunkCache` | several processes, file locks, crashes |
| `download/prefetcher.go`, `decode_v1.go`, `decode_v2.go` | `Prefetch` | workers ahead of a reader that may close at any time |
| `upload` | `Upload`, `Grouping` | first error of concurrent workers; locations that went stale |
| `client` retries | `Retry` | attempts share one body reader |
| `client/shard.go`, `server/shard_v2.go` | `ShardStream` | heartbeats, lost frames, a handler whose client is gone |
| `client/idle.go`, `client/download.go` | `IdleBody`, `Resume` | a timer races the read it guards; a file that already has bytes |
| reconstruction of either version | `Reconstruct` | offsets and ranges inside chunks, terms cut into pieces |
| `server/internalapi` gc handler | `GCRequest` | one budget over three passes, overlapping requests |

## Modules

The state of a module is that of the Go objects it names, one variable per
field or per table; a stage variable (`pc`, `upc`, `task[t].pc`, ...) says which
call or critical section an actor is at.  One action is one storage call, one
file operation or one critical section, so that everything another goroutine or
process can do in between is a step of its own.

**Storage and collection.**  `Store` keeps objects with modification times and
one index function over file hashes, digests and chunks; which files, chunks
and xorbs a shard has is a constant catalogue, since content addressing makes
it a function of the hash.  `Commit` is an upload, one storage call per step,
which may fail or crash between any two; with `Stale` the caches may still
answer for what was deleted.  `Sweep` is one pass: index walks, the judgement of
shards, the checks and deletes of `sweepShard` in six stages, bounds, dry runs,
the second walk and the xorbs.  `StoreGC` runs them together and records in three
history variables the races the code does not close: `raced` (an entry came to
point at a shard while it was swept), `bypassed` (a shard deleted under a
commit that had found it stored) and `atRisk` (xorbs reused by a shard written
behind the second walk).  `Reclaim` repeats sweeps on a store at rest.
`GCRequest` is the HTTP request above it: storage pass, spool pass and mirror
pass under one budget, with the verdict "done", "more" or a failure.

**Reads.**  `IndexCache` has lookups, deletes and commits around the caches of
both backends.  `XorbMap` has readers (hit, flight, open, rename, map, add,
evict, share, close), one deleter and an uploader; a mapping is an identity with
a count, and `backend.remote` selects S3 with its copies on disk and `xorbLive`.
The LRU's mutex is held while a mapping evicted from it is unmapped.  `Pipeline`
is `reconstructedFile`: a byte is known by its chunk, and terms carry declared
sizes and real chunks, which may disagree.

**Mirror.**  `Spool` has the tasks that attach to a flight as writer or follower,
the spool that starts in memory and spills to a file, clients that stream from
it, the idle sweep and a restart that finds the files again.  `Delivery` is what
it promises: a caller asks and is settled once, with a failure or with stored
content that fits its own source.  `Mirror` has requests, the branch pointer,
manifests in memory and on disk with their temporary files, the failure table,
reloads after a crash and the sweep; the download is a success or a failure.

**Client.**  `ChunkCache` has the cache directory of several processes: names,
inodes, flocks, sealing, adoption, verification, the managers' LRU and the
merger; a file is how many chunks were written and whether the trailer fits.
`Prefetch` is one reader with its workers and the shared entries.  `Upload` has
processes over one cache directory of locations, with query, grouping
(`Grouping`), staging, workers and the shard.  `Retry`, `ShardStream`, `IdleBody`
and `Resume` are the client's calls with the server's side of them.
`Reconstruct` takes a file from its chunks through shard, query, response and
split to the bytes a reader delivers, for every range header.

`MC*` modules hold instances.  `MCReads` and `MCApi` put together mechanisms that
share no state: a behaviour follows one of them.  Definitions under a comment
that starts with "Defect:" are wrong on purpose: each changes a definition as a
plausible bug would, and the property named in `PROJECT.json` then fails.  No
specification uses them.

## Runs

Ten runs pass and two are expected to fail.  A run's composite property is the
conjunction of named invariants, each commented in its module.

| run | property | what it says |
|---|---|---|
| `gc_race` | NoDangling | an index entry points at a stored shard, outside the two recorded races |
| | GraceShields | nothing a running upload wrote is missing or condemned |
| `gc_shards` | ShardsWhole | a stored shard has its xorbs, except those `atRisk` |
| | ReadableKept | a readable file becomes unreadable only by an unlink, an entitled sha256 sweep or a recorded race |
| `gc_reclaim` | Reclaimed | repeated bounded sweeps leave nothing dead, although one shard never loads |
| | DeletesOnlyDead | a sweep deletes only what is dead then, and a complete dry run had listed it |
| `reads` | CachedCurrent | a cached index value is the stored one, except in the re-cache window the code's comment admits |
| | MappingsSound | a mapping's count is the holds on it, nothing mapped is without an owner, held bytes stay mapped, the LRU is exact and bounded, one fill per hash |
| | CopiesCounted | `xorbLive` is the mappings of a hash and the fills about to make one; a copy is on disk only while it is positive |
| | FramesSound | buffers go back once, a free slot is nobody else's, no send blocks |
| | OrderedBytes | Read copies from the chunk of the file that holds its position |
| | FinalWithheld | the last byte is delivered only if the last term's size was checked |
| | AcquireReturns, FileReturns | Acquire, Read and Close return |
| `spool` | SpoolSound | who finds a flight can hold it, follows the length it expects and reads what its writer appended |
| | SweepSparesFlights | the sweep unlinks no file of a registered flight |
| | Delivers | `Spool` implements `Delivery` |
| | Settles | every task settles |
| `mirror` | IndexSound | entries, commit state and failure table agree; one ingest per key |
| | DiskSound | nothing dropped comes back from disk, nothing served is missing there, a pointer never outruns its commit, no write loses its temporary file |
| | SweepSparesNew | a sweep drops nothing published after it judged the manifest |
| | Answered | every request is answered |
| `chunkcache` | AdoptsSealed | what a session adopts is sealed and stays so, with the exception below |
| | WritersSound | a writer's name leads to its file, and a manager's total is the sum of what it tracks |
| | QuietMerged | at rest no two sealed entries touch: none was forgotten by the mergers |
| | LastDoneEvicts | the last user of a process leaves its cache within its capacity |
| `prefetch` | ReadsExact | planned chunks, in order, from the offset on; an end of file means all of them, undamaged |
| | CachesSound | no leak after Close, a fetch read to its end is sealed, held caches stay open, writes happen under the lock |
| | AllReturn | Close, the workers after it and reads return |
| `upload` | ShardSound | every location is true wherever it is kept, and no shard is built with a missing one |
| | CallSettled | no staging left, managers within capacity, only accepted locations cached, success means committed |
| | CancelReturns | a cancelled or failed upload returns even if the server is silent |
| `api` | XorbUploadSound | the server stores the xorb or nothing, success means stored, attempts start over, at most one attempt after the context ended |
| | ShardUploadSound | success means committed, a terminal frame is the last, a returned handler has stopped its heartbeat |
| | DownloadSound | a resumed or restarted download that succeeds leaves the file; timeouts stick; contexts are released |
| | ResponsesSound | shards are accepted, every term can be fetched, no chunk is asked for in vain, splits reach their target and keep the floor |
| | DeliveredExact | the header's range is the range delivered |
| | NeverStalls | a response that says "more" has swept something |
| | DoneSwept | a response that says "done" has left only what cannot be swept |
| | CallsReturn | a streamed upload ends, and so does a call on a silent server |

The two runs that fail show where a comment says more than the code does:

* `gc_recommit` (UploadsShielded): the comment on `Sweep` says the grace window
  shields uploads mid-commit.  An upload whose shard is already stored does not
  refresh the object, so a sweep may delete it before the upload's entries land.
* `gc_lfs_shared_file` (LiveFileResolvable): the same comment says a live file
  that shares entries with a dead shard stays file-hash resolvable.  Under the
  sha256 anchor its files entry goes with the dead shard.

AdoptsSealed has an exception that is real behaviour.  `newLockedChunkCache`
truncates the entry it has locked, "which readers never adopt"
(`src/download/chunk_cache.go:251`).  A session that waited for the lock looks
again first; when that look stops at another entry, complete by its size but
unsound, it goes on to truncate its own entry without having looked at it, and
another session may have sealed and adopted that one meanwhile.  `Blindly` names
this step, and nothing else may change an adopted entry.

## Bounds

Every bound is a constant named in the configuration.

* Collection: one or two shards, uploads and files, since each race needs one
  deletion and one commit, and sharing needs two owners.  `Grace` is one tick of
  `MaxTime` 2, so an object can be inside the window, at the cutoff and outside.
  `gc_race` sweeps under both anchors, `gc_shards` under sha256 alone, the one
  that can take an entry from a readable file; `gc_reclaim` under each.
* `reads`: two entries and two shards under two lookups, a cache of one and
  `MaxChanges` 2, so that a load can overlap a change and its eviction; two
  hashes and two readers over an LRU of one entry, so that a reader holds an
  evicted mapping while the other maps the hash again; a window of 3 instead of
  32 (at least 2 is assumed: with one slot `drain` would wait for the slot it
  holds) and five files with empty, oversized, short and corrupt terms.
* `spool`: two tasks over three sources of one body of two bytes, with and
  without a known length; one slot, two attempts, two accepts, and one event of
  crash or sweep.  `Inode` is a pool in which one identity is always free.
* `mirror`: two requests with two calls, one path, two commits, two versions,
  one failure kept, one event.
* `chunkcache`: two processes with a user and a merger each, two chunks (three
  ranges), a capacity of two chunks, two opens, one event.  The exception above
  takes three chunks and more sessions, and was seen outside this run.
* `prefetch`: three terms over two fetches, the third returning to the first's;
  two workers, one fault.
* `upload`: two processes with two workers; three chunks in files that overlap;
  xorbs of two bytes and a cache of two entries, both of which overflow.
* `api`: bodies of two blocks, two retries, two heartbeats and two troubles, a
  file of two chunks downloaded three times, four uploads under every range
  boundary of seven bytes and three split settings, two overlapping collection
  requests with a shard that cannot be read.

## Fairness

Weak fairness is assumed of what Go's scheduler, its mutexes and its channels
run on: a task, a worker, a reader inside a call, an unmap, a sweep's next step,
a handler's next step.  Nobody has to make a call, no fault has to happen, and in
`upload` and in the idle guard the server need not answer.  `mirror` and `spool`
assume that upstream requests return.  `gc_reclaim`
assumes in addition that the caller repeats the request until done (strong
fairness of `Repeat`), as the comment on `SweepStep` asks.  AcquireReturns rests
on `MaxAcquires`: a waiter retries when the mapping it was given died, so it is
bounded by the calls the others make.

## Proofs

TLAPS checks theorems about six components, for every value of their constants
under the assumptions the modules name.  Each rests on an inductive invariant.

### Store, uploads and sweep (`StoreGCInv`, `StoreGCStepProofs`, `StoreGCProofs`)

`TypeCorrect`, `IndexSound` (NoDangling), `XorbsKept` (ShardsWhole),
`WindowShields` (GraceShields) and the action property `FilesKept`
(ReadableKept), for every catalogue, backend, anchor, bound and number of
uploads.  NoDangling alone is not inductive: deleting a shard keeps it only if
every entry was checked before.  `IInv` adds what each actor relies on between its
steps: an upload's own objects are inside the window (`OwnObjects`), its shard is
stored or bypassed (`CommitInv`), entries belong to the shard they point at
(`OwnEntries`), a key of the shard being swept that no check is left for does not
point at it unless it raced (`ChecksInv`), what an anchor check has ruled out
(`AnchorInv`, `DropInv`), and what the second walk has marked (`MarkInv`).
Assumed: the catalogue is well formed, kinds of keys are disjoint, and, in
`Tick`, an upload ends within the window, as the comment on `Sweep` says.

### Spool (`SpoolSteps`, `SpoolProofs`)

`SpoolIsSound` (SpoolSound), the action property `SweepSpares`
(SweepSparesFlights) and the refinement `SpoolDelivers` (Delivers), for any
tasks, sources, bodies, slots and attempts.  `SpoolInv` consists of

* `Types` and `Stages`, what a task knows of itself at each stage;
* `Leaders`: a flight is written by the task it is named after, and a task that
  writes none has an empty one, so that a restart of a task finds a fresh record;
* `Flights`: registered flights are the ones being written, under their own
  path; only unfinished ones are open; the outcome is there before it is
  announced; a spool nobody holds is retired.  RegisteredLive follows;
* `Sized`: a follower with a length has found its leader's, before it waits;
* `Locked`: one task at a time between opening a spool file and registering the
  flight, with no sweep then, and nothing to be swept is registered.  This is
  what `openMu` is for, and SweepSparesFlights follows;
* `OnePath`: a file, as an identity, belongs to one path, for its name, for every
  flight that has it open and for the task about to open it;
* `Contents`: a writer in memory has no file to spill over, one with a file has
  written all of it, and every holder's bytes are a prefix of the file.
  BytesStable follows; without `OnePath` an adopted file could have a second
  writer.

A new file's identity is `Fresh`.  `FreshIsFree` shows that there always is one:
names, flights and tasks use fewer identities than the pool has, by
`SpoolAssumption`.

The refinement maps a task's source to `asked`, its outcome to `got` and the
stored contents to `kept`.  Step by step: the first stage of Accept is `Ask`
(`AcceptAsks`); a refusal or a completed wait is `Settle` (`RefuseSettles`,
`WaitSettles`: a flight's outcome is stored by `Flights`, and fits the caller's
source because the wait checks the length and digest of that source); the ingest
is `Keep` or nothing (`IngestKeepsBody`); a crash is `Restart` (`CrashRestarts`);
all other steps stutter (`GotoUnseen`, `RetryUnseen`, `AcceptUnseen`,
`CopyUnseen`).

### Mapping cache (`XorbMapSteps`, `XorbMapProofs`)

`MapsAreSound` (MappingsSound) and `CopiesAreCounted` (CopiesCounted), for any
readers, hashes, LRU bound and calls, on both backends and with failures.
`XorbMapInv` adds to the properties themselves

* `Wants` and `Sees`: who is at work has a hash, and a reader has a mapping in
  exactly the stages that use one;
* `Flights`: the flight of a hash is led by the one reader inside the fill
  (OneFill follows), and `Misses`: while it fills, the entry of its hash stays
  empty.  Together they show that `lru.Add` never overwrites an entry, which
  would leave a mapping counted and without an owner, since `OnEvicted` is not
  called then;
* `Drops`: whoever is to unmap a mapping is the only one, and nobody holds it;
* `Mapped`: counts, entries and holds are of mappings that exist, of their hash.

A step changes one reader's holds, one entry or one mapping, so each proof comes
down to sets that differ in one element.  What that says of their sizes is the
predicate `Counting`; the step lemmas assume it, and `CountingHolds` proves it
from the library's theorems on finite sets.  `FreshMapping` shows that Map always
finds an identity: those cached, seen or being dropped are fewer than the pool
has by `XorbMapAssumption`.

### Collection requests and uploads (`ApiProofs`)

`RequestsProgress` (NeverStalls) and `DoneIsSwept` (DoneSwept), for any requests,
garbage, bounds and configured passes.  `GCInv` says of each request what its
flags stand for: whatever counts or takes "done" away without a failure has
swept something (`Progressing`), and while a request is still done, the passes
behind it have left only what they cannot sweep and the queue of the one it is
in holds the rest (`Swept`).  `OthersKept` shows that deletions by other requests
undo neither.

`XorbUploads` (XorbUploadSound), for any blocks and retries.  `RetryInv` adds that
a success was answered by a server that stores the xorb (`AnsweredStored`), that
the shared reader stands where the only sender that has read from it does
(`OffsetShared`), and that an attempt begun after its context ended is the last
(`LateLast`).  `ShardUploads` (ShardUploadSound), for any blocks, attempts and
heartbeats.  `StreamInv` says of each attempt's stream (`Sound`) that the
heartbeat has only progress frames to repeat until the handler is done, that the
handler is done only after the heartbeat, and that a result is announced only
once the shard is kept.

### Only model-checked

* Liveness, outside the prover's reach: Reclaimed, AcquireReturns, FileReturns,
  Settles, Answered, AllReturn, CancelReturns, CallsReturn.
* Properties whose operators are folds or recursive functions over data, which
  would need induction: CachedCurrent (filters of the LRU), ReadsExact and
  CachesSound (flattened plans and queues), ShardSound and CallSettled (grouping,
  located chunks), WritersSound and QuietMerged (sums over tracked entries),
  OrderedBytes and FinalWithheld (sums of chunk lengths), ResponsesSound and
  DeliveredExact (recursive definitions against reference definitions).
* AdoptsSealed, LastDoneEvicts, FramesSound, IndexSound, DiskSound,
  SweepSparesNew, DownloadSound and DeletesOnlyDead: no induction is in the way,
  their invariants have not been worked out.

## Not modelled

Compression and hash kernels and content-defined chunking (numeric, without
state), byte layouts of shards and xorbs, listing and usage (they read only),
routing, token signing and refresh, the Hugging Face client, the LFS adapters,
command line and progress output.  Several sweeping processes on one store are
excluded, as the comment on `Sweep` asks; within a process the GC's mutex
excludes them.  File locks, the file system's renames and unlinks, S3 and the
HTTP transport are modelled from how the code uses them.
