------------------------------- MODULE Upload -------------------------------
(***************************************************************************)
(* UploadFiles: chunks located through the cached locations and the dedup  *)
(* index, the new ones encoded into staging files and uploaded as xorbs by *)
(* concurrent workers, then the shard.  Every process has its own cache    *)
(* manager over one directory that all share.                              *)
(*                                                                         *)
(* A xorb is the sequence of its chunks (its hash is its content), a map   *)
(* of locations a function on the chunks it holds.                         *)
(***************************************************************************)
EXTENDS Grouping, FiniteSetsExt

CONSTANTS
    Session,     \* processes that upload
    Worker,      \* concurrency of one upload
    Chunk,
    File,        \* a file is the sequence of its chunks
    Files,       \* Files[s]: the files s uploads, a sequence
    Sampled,     \* chunks eligible for the dedup index by their hash
    Capacity,    \* entries one manager tracks, capacity / entryCost
    MaxUploads,  \* bound: calls of UploadFiles
    MaxEvents    \* bound: faults, cancellations, crashes, days and collections

ASSUME UploadAssumption ==
    /\ Worker # {} /\ Capacity \in Nat \ {0} /\ MaxXorbSize \in Nat
    /\ \A s \in Session : Files[s] # <<>> /\ \A i \in DOMAIN Files[s] : Files[s][i] \in File

VARIABLES
    \* the server
    xorbs,    \* stored xorbs
    index,    \* index[c]: the locations the shard indexed for c lists, or <<>>
    files,    \* files it resolves
    \* the shared cache directory
    disk,     \* chunks/: entries [key, loc], oldest first
    staging,  \* staging/: files [owner, xorb, old]
    \* the processes
    lru,      \* lru[s]: keys its manager tracks, oldest first
    scanned,  \* scanned[s]: its manager walked the directory
    up,       \* up[s]: the call of UploadFiles
    \* history and bounds
    told,     \* locations of the shards the server accepted
    ever,     \* files the server has committed
    uploads, events

server == <<xorbs, index, files, told, ever>>
caches == <<disk, staging, lru, scanned>>
bounds == <<uploads, events>>
vars == <<server, caches, up, bounds>>

Nobody == "nobody"
None == <<>>

\* The chunks of all files in order of first appearance.
AllChunks ==
    [s \in Session |-> FoldLeft(LAMBDA all, c : IF Contains(all, c) THEN all ELSE Append(all, c), <<>>, FlattenSeq(Files[s]))]
Wanted == [s \in Session |-> ToSet(AllChunks[s])]

\* Of the few chunks a file has here, only its first is asked for.
Probes == [s \in Session |-> {Files[s][i][1] : i \in DOMAIN Files[s]}]

MergeAll(maps) == FoldSet(LAMBDA m, acc : Merge(acc, m), <<>>, maps)
Only(map, keys) == [c \in DOMAIN map \cap keys |-> map[c]]

Idle(result) == [pc |-> "idle", result |-> result, live |-> TRUE, err |-> FALSE, local |-> <<>>, located |-> <<>>,
                 queue |-> <<>>, prepared |-> <<>>, uploaded |-> <<>>, at |-> [w \in Worker |-> "exit"],
                 xorb |-> [w \in Worker |-> <<>>]]

Init ==
    /\ xorbs = {} /\ files = {} /\ told = {} /\ ever = {}
    /\ index = [c \in Chunk |-> None]
    /\ disk = <<>> /\ staging = {}
    /\ lru = [s \in Session |-> <<>>] /\ scanned = [s \in Session |-> FALSE]
    /\ up = [s \in Session |-> Idle("none")]
    /\ uploads = 0 /\ events = 0

Event == events < MaxEvents /\ events' = events + 1
Calm == UNCHANGED events

-----------------------------------------------------------------------------
(* The cache manager; every operation holds its mutex.                      *)

Keys(d) == {d[i].key : i \in DOMAIN d}

\* lru.Add: the keys become the most recently used ones.
Touched(m, keys) == SelectSeq(m, LAMBDA k : k \notin ToSet(keys)) \o keys
Put(d, map, keys) == SelectSeq(d, LAMBDA e : e.key \notin ToSet(keys)) \o [i \in DOMAIN keys |-> [key |-> keys[i], loc |-> map[keys[i]]]]

\* Tracked keys still on disk keep their order, the others are adopted in the
\* order of their modification times; staging files a day old are removed.
reconcileLocked(m) ==
    LET tracked == SelectSeq(m.lru, LAMBDA k : k \in Keys(m.disk))
        others == SelectSeq(m.disk, LAMBDA e : e.key \notin ToSet(tracked))
    IN [lru |-> tracked \o [i \in DOMAIN others |-> others[i].key], disk |-> m.disk,
        staging |-> {f \in m.staging : ~f.old}]

\* The least recently used go until 90% of the capacity is left.
evictLocked(m) ==
    LET kept == Capacity - Capacity \div 10
        over == IF Len(m.lru) > kept THEN Len(m.lru) - kept ELSE 0
    IN [m EXCEPT !.lru = SubSeq(@, over + 1, Len(@)),
                 !.disk = SelectSeq(@, LAMBDA e : e.key \notin {m.lru[i] : i \in 1 .. over})]

Manager(s) == [lru |-> lru[s], disk |-> disk, staging |-> staging]
SetManager(s, m) == /\ lru' = [lru EXCEPT ![s] = m.lru]
                    /\ disk' = m.disk /\ staging' = m.staging

\* due: a minute has passed since the last reconciliation.
evaluateLocked(s, m, due) ==
    IF Len(m.lru) < Capacity
    THEN SetManager(s, m)
    ELSE \E r \in {IF due THEN reconcileLocked(m) ELSE m} :
         \E e \in {evictLocked(r)} : SetManager(s, e)

prepare(s) ==
    /\ \E m \in {IF scanned[s] THEN Manager(s) ELSE reconcileLocked(Manager(s))} :
       \E due \in IF scanned[s] THEN BOOLEAN ELSE {FALSE} : evaluateLocked(s, m, due)
    /\ scanned' = [scanned EXCEPT ![s] = TRUE]

\* Store: the entries whose file could be written, in any order.
Store(s, map, kept) ==
    \E keys \in SetToSeqs(kept), due \in BOOLEAN :
    \E m \in {[Manager(s) EXCEPT !.lru = Touched(@, keys), !.disk = Put(@, map, keys)]} :
        evaluateLocked(s, m, due)

-----------------------------------------------------------------------------
(* UploadFiles.                                                             *)

Goto(s, pc) == up' = [up EXCEPT ![s].pc = pc]

\* The call returns; uploadXorbs' deferred function removed every staged file.
Return(s, result) ==
    /\ up' = [up EXCEPT ![s] = Idle(result)]
    /\ staging' = {f \in staging : f.owner # s}

Failed(s) == Return(s, "error") /\ UNCHANGED <<server, disk, lru, scanned, uploads>>

Begin(s) ==
    /\ up[s].pc = "idle" /\ uploads < MaxUploads
    /\ uploads' = uploads + 1
    /\ prepare(s)
    /\ up' = [up EXCEPT ![s] = [Idle("none") EXCEPT !.pc = "lookup"]]
    /\ UNCHANGED server /\ Calm

\* Lookup: the cached locations of all the chunks, none once ctx ended.
Lookup(s) ==
    /\ up[s].pc = "lookup"
    /\ \E entries \in {{e \in ToSet(disk) : up[s].live /\ e.key \in Wanted[s]}} :
       \E found \in {[c \in {e.key : e \in entries} |-> (CHOOSE e \in entries : e.key = c).loc]} :
          /\ \E keys \in SetToSeqs(DOMAIN found) : lru' = [lru EXCEPT ![s] = Touched(@, keys)]
          /\ up' = [up EXCEPT ![s].local = found, ![s].located = found,
                              ![s].pc = IF DOMAIN found = Wanted[s] THEN "group" ELSE "query"]
    /\ UNCHANGED <<server, disk, staging, scanned, uploads>> /\ Calm

\* fetchHitShards: the shards behind the hits and behind the cached probes, of
\* which any may fail to be fetched.
FetchHitShards(s, known, hits) ==
    \E fetched \in SUBSET hits :
        up' = [up EXCEPT ![s].pc = "learn",
                         ![s].located = Merge(known, MergeAll({Only(index[c], Wanted[s]) : c \in fetched}))]

\* QueryDedupShards: one batch for the probes the cache does not know, or the
\* shard of each of them from a server without the batch endpoint.
Query(s) ==
    /\ up[s].pc = "query" /\ up[s].live
    /\ LET local == up[s].local
           cached == Probes[s] \cap DOMAIN local
           remaining == Probes[s] \ DOMAIN local
           hits == {c \in remaining : c \in DOMAIN index[c]}
       IN \/ FetchHitShards(s, Merge(local, [c \in hits |-> index[c][c]]), hits \cup cached)
          \/ FetchHitShards(s, Merge(local, MergeAll({Only(index[c], Wanted[s]) : c \in remaining})), cached)
    /\ UNCHANGED <<server, caches, uploads>> /\ Calm

QueryFails(s) == up[s].pc = "query" /\ up[s].live /\ Event /\ Failed(s)
QueryAborted(s) == up[s].pc = "query" /\ ~up[s].live /\ Calm /\ Failed(s)

\* What the query learned is cached; an entry that cannot be written is not.
Learn(s) ==
    /\ up[s].pc = "learn"
    /\ \E learned \in {DOMAIN up[s].located \ DOMAIN up[s].local} :
          \/ Store(s, up[s].located, learned) /\ Calm
          \/ learned # {} /\ Event /\ \E kept \in SUBSET learned \ {learned} : Store(s, up[s].located, kept)
    /\ Goto(s, "group")
    /\ UNCHANGED <<server, scanned, uploads>>

Group(s) ==
    /\ up[s].pc = "group"
    /\ \E new \in {SelectSeq(AllChunks[s], LAMBDA c : c \notin DOMAIN up[s].located)} :
       \E groups \in {GroupChunkIndicesBySize(new)} :
          up' = [up EXCEPT ![s].pc = IF new = <<>> THEN "shard" ELSE "prepare", ![s].queue = groups,
                           ![s].at = [w \in Worker |-> "take"]]
    /\ UNCHANGED <<server, caches, uploads>> /\ Calm

-----------------------------------------------------------------------------
(* uploadXorbs.                                                             *)

\* Defect: the first error does not cancel the others.
FailAlone(s, w) == up' = [up EXCEPT ![s].err = TRUE, ![s].at[w] = "exit"]

\* errOnce: the first error is kept and ends the context of all.
Fail(s, w) == up' = [up EXCEPT ![s].err = TRUE, ![s].live = FALSE, ![s].at[w] = "exit"]

Staged(s, x) == {f \in staging : f.owner = s /\ f.xorb = x}

\* A worker finds the queue empty, or takes a group and finds ctx ended.
Leave(s, w) ==
    /\ up[s].pc \in {"prepare", "upload"} /\ up[s].at[w] = "take"
    /\ up[s].queue = <<>> \/ ~up[s].live
    /\ up' = [up EXCEPT ![s].at[w] = "exit", ![s].queue = IF @ = <<>> THEN @ ELSE Tail(@)]
    /\ UNCHANGED <<server, caches, uploads>> /\ Calm

TakesGroup(s, w, pc) ==
    up[s].pc = pc /\ up[s].at[w] = "take" /\ up[s].queue # <<>> /\ up[s].live

Stage(s, w) ==
    /\ TakesGroup(s, w, "prepare")
    /\ LET x == Head(up[s].queue)
       IN \/ /\ staging' = staging \cup {[owner |-> s, xorb |-> x, old |-> FALSE]}
             /\ up' = [up EXCEPT ![s].queue = Tail(@), ![s].at[w] = "probe", ![s].xorb[w] = x]
             /\ Calm
          \/ /\ Event /\ Fail(s, w) /\ UNCHANGED staging
    /\ UNCHANGED <<server, disk, lru, scanned, uploads>>

\* The group is encoded into the file and the server asked for the xorb.
HasXorb(s, w) ==
    /\ up[s].pc = "prepare" /\ up[s].at[w] = "probe" /\ up[s].live
    /\ LET x == up[s].xorb[w]
       IN \/ /\ x \in xorbs
             /\ staging' = staging \ Staged(s, x)
             /\ up' = [up EXCEPT ![s].at[w] = "take", ![s].uploaded = Merge(Locations(x), @)]
             /\ Calm
          \/ /\ x \notin xorbs
             /\ up' = [up EXCEPT ![s].at[w] = "take", ![s].prepared = Append(@, x)]
             /\ UNCHANGED staging /\ Calm
          \/ /\ Event /\ Fail(s, w) /\ UNCHANGED staging
    /\ UNCHANGED <<server, disk, lru, scanned, uploads>>

\* Defect: workers that left because ctx ended go unnoticed.
BrokenByError(s) == up[s].err

\* Workers leave silently when ctx ends.
Broken(s) == up[s].err \/ ~up[s].live

\* wg.Wait, after the preparing workers and after the uploading ones.
Barrier(s, pc) ==
    /\ up[s].pc = pc /\ \A w \in Worker : up[s].at[w] = "exit"
    /\ IF Broken(s)
       THEN Return(s, "error")
       ELSE IF pc = "prepare"
       THEN /\ up' = [up EXCEPT ![s].pc = "upload", ![s].queue = up[s].prepared, ![s].at = [w \in Worker |-> "take"]]
            /\ UNCHANGED staging
       ELSE /\ Goto(s, "shard")
            /\ staging' = {f \in staging : f.owner # s}
    /\ UNCHANGED <<server, disk, lru, scanned, uploads>> /\ Calm

\* The staged file is opened; a manager may have removed it as a leftover.
Open(s, w) ==
    /\ TakesGroup(s, w, "upload")
    /\ LET x == Head(up[s].queue)
       IN IF Staged(s, x) = {}
          THEN Fail(s, w)
          ELSE up' = [up EXCEPT ![s].queue = Tail(@), ![s].at[w] = "send", ![s].xorb[w] = x]
    /\ UNCHANGED <<server, caches, uploads>> /\ Calm

\* UploadXorb: the answer of a request that was served may be lost.
UploadXorb(s, w) ==
    /\ up[s].pc = "upload" /\ up[s].at[w] = "send" /\ up[s].live
    /\ LET x == up[s].xorb[w]
       IN /\ staging' = staging \ Staged(s, x)
          /\ \/ /\ xorbs' = xorbs \cup {x}
                /\ up' = [up EXCEPT ![s].at[w] = "take", ![s].uploaded = Merge(Locations(x), @)]
                /\ Calm
             \/ /\ xorbs' \in {xorbs, xorbs \cup {x}}
                /\ Event /\ Fail(s, w)
    /\ UNCHANGED <<index, files, told, ever, disk, lru, scanned, uploads>>

\* A request under way when ctx ends returns its error, served or not.
Aborted(s, w) ==
    /\ up[s].at[w] \in {"probe", "send"} /\ ~up[s].live
    /\ Fail(s, w)
    /\ IF up[s].at[w] = "send"
       THEN /\ staging' = staging \ Staged(s, up[s].xorb[w])
            /\ xorbs' \in {xorbs, xorbs \cup {up[s].xorb[w]}}
       ELSE UNCHANGED <<staging, xorbs>>
    /\ UNCHANGED <<index, files, told, ever, disk, lru, scanned, uploads>> /\ Calm

-----------------------------------------------------------------------------
(* The shard.                                                               *)

\* Chunks this upload stored first, then the located ones; a chunk that is
\* neither has the zero location.
ChunkInfos(s) ==
    [c \in Wanted[s] |-> IF c \in DOMAIN up[s].uploaded THEN up[s].uploaded[c]
                         ELSE IF c \in DOMAIN up[s].located THEN up[s].located[c]
                         ELSE [xorb |-> <<>>, at |-> 0]]

\* The server resolves every term against the xorbs it stores.
Valid(infos) == \A c \in DOMAIN infos : infos[c].xorb \in xorbs /\ Holds(infos[c], c)

\* storeUploadedShard and PutShard.  A shard whose files are all known changes
\* nothing; otherwise its eligible chunks are indexed where no entry is yet.
PutShard(s) ==
    LET new == up[s].uploaded
        eligible == {c \in DOMAIN new : c \in Sampled \/ c \in Probes[s]}
    IN /\ IF ToSet(Files[s]) \subseteq files
          THEN UNCHANGED index
          ELSE index' = [c \in Chunk |-> IF c \in eligible /\ index[c] = None THEN new ELSE index[c]]
       /\ files' = files \cup ToSet(Files[s])
       /\ ever' = ever \cup ToSet(Files[s])
       /\ told' = told \cup {<<c, new[c]>> : c \in DOMAIN new}
       /\ UNCHANGED xorbs

\* UploadShard: stored, or refused as invalid.
UploadShard(s) ==
    /\ up[s].pc = "shard" /\ up[s].live
    /\ IF Valid(ChunkInfos(s))
       THEN PutShard(s) /\ Goto(s, "cache") /\ UNCHANGED staging
       ELSE Return(s, "error") /\ UNCHANGED server
    /\ UNCHANGED <<disk, lru, scanned, uploads>> /\ Calm

\* Defect: the locations are cached whatever becomes of the shard.
UploadShardFailsCached(s) ==
    /\ up[s].pc = "shard" /\ up[s].live /\ Event
    /\ Store(s, up[s].uploaded, DOMAIN up[s].uploaded)
    /\ up' = [up EXCEPT ![s] = Idle("error")]
    /\ UNCHANGED <<server, scanned, uploads>>

\* The request or its answer is lost for good.
UploadShardFails(s) ==
    /\ up[s].pc = "shard" /\ up[s].live /\ Event
    /\ \/ Valid(ChunkInfos(s)) /\ PutShard(s)
       \/ UNCHANGED server
    /\ Return(s, "error")
    /\ UNCHANGED <<disk, lru, scanned, uploads>>

UploadShardAborted(s) == up[s].pc = "shard" /\ ~up[s].live /\ Calm /\ Failed(s)

\* The locations of the new chunks are cached and the call succeeds.
CacheLocations(s) ==
    /\ up[s].pc = "cache"
    /\ LET new == up[s].uploaded
       IN \/ Store(s, new, DOMAIN new) /\ Calm
          \/ new # <<>> /\ Event /\ \E kept \in SUBSET DOMAIN new \ {DOMAIN new} : Store(s, new, kept)
    /\ up' = [up EXCEPT ![s] = Idle("ok")]
    /\ UNCHANGED <<server, scanned, uploads>>

-----------------------------------------------------------------------------
(* The environment.                                                         *)

Cancel(s) ==
    /\ up[s].pc # "idle" /\ up[s].live /\ Event
    /\ up' = [up EXCEPT ![s].live = FALSE]
    /\ UNCHANGED <<server, caches, uploads>>

\* The process dies; its staging files stay and its manager is lost.
Crash(s) ==
    /\ up[s].pc # "idle" /\ Event
    /\ up' = [up EXCEPT ![s] = Idle("none")]
    /\ staging' = {IF f.owner = s THEN [f EXCEPT !.owner = Nobody] ELSE f : f \in staging}
    /\ lru' = [lru EXCEPT ![s] = <<>>] /\ scanned' = [scanned EXCEPT ![s] = FALSE]
    /\ UNCHANGED <<server, disk, uploads>>

\* leftoverAge passes.
Day ==
    /\ staging # {} /\ Event
    /\ staging' = {[f EXCEPT !.old = TRUE] : f \in staging}
    /\ UNCHANGED <<server, disk, lru, scanned, up, uploads>>

\* The server's files are removed and collected.
Collect ==
    /\ files # {} /\ Event
    /\ files' = {} /\ xorbs' = {} /\ index' = [c \in Chunk |-> None]
    /\ UNCHANGED <<told, ever, caches, up, uploads>>

\* Steps that wait for nothing outside the process.
Local(s) ==
    \/ Lookup(s) \/ QueryAborted(s) \/ Learn(s) \/ Group(s)
    \/ \E w \in Worker : Leave(s, w) \/ Stage(s, w) \/ Open(s, w) \/ Aborted(s, w)
    \/ \E pc \in {"prepare", "upload"} : Barrier(s, pc)
    \/ UploadShardAborted(s) \/ CacheLocations(s)

\* Steps the server takes part in.
Remote(s) ==
    \/ Query(s) \/ QueryFails(s) \/ UploadShard(s) \/ UploadShardFails(s)
    \/ \E w \in Worker : HasXorb(s, w) \/ UploadXorb(s, w)

Next ==
    \/ \E s \in Session : Begin(s) \/ Local(s) \/ Remote(s) \/ Cancel(s) \/ Crash(s)
    \/ Day \/ Collect

Spec == Init /\ [][Next]_vars /\ \A s \in Session : WF_vars(Local(s))

-----------------------------------------------------------------------------
Location == [xorb : Seq(Chunk), at : Nat]
IsMap(m) == DOMAIN m \subseteq Chunk /\ \A c \in DOMAIN m : m[c] \in Location

\* The cache directory, the managers and the calls are well formed: a manager
\* tracks a key once, and every staging file holds a xorb of its owner's.
TypeOK ==
    /\ xorbs \subseteq Seq(Chunk) /\ files \subseteq ever
    /\ \A c \in Chunk : IsMap(index[c])
    /\ \A i, j \in DOMAIN disk : disk[i].key = disk[j].key => i = j
    /\ \A s \in Session :
          /\ IsInjective(lru[s])
          /\ IsMap(up[s].located) /\ IsMap(up[s].uploaded)
          /\ up[s].at \in [Worker -> {"take", "probe", "send", "exit"}]
    /\ uploads \in 0 .. MaxUploads /\ events \in 0 .. MaxEvents

\* A location names a xorb that holds the chunk at that position, wherever it
\* is kept: in an upload, in the cache directory or in the server's index,
\* whatever was evicted, adopted or collected in between.
LocationsTrue ==
    /\ \A e \in ToSet(disk) : Holds(e.loc, e.key)
    /\ \A c \in Chunk : \A d \in DOMAIN index[c] : Holds(index[c][d], d)
    /\ \A s \in Session : /\ \A c \in DOMAIN up[s].located : Holds(up[s].located[c], c)
                          /\ \A c \in DOMAIN up[s].uploaded : Holds(up[s].uploaded[c], c)

\* No shard is built with the zero location: when uploadXorbs reports success
\* every chunk was located or uploaded, though workers leave silently once ctx
\* ends.
ShardComplete ==
    \A s \in Session : up[s].pc = "shard" => Wanted[s] = DOMAIN up[s].located \cup DOMAIN up[s].uploaded

\* A call that returned, with an error or not, has left no staging file of its
\* own; only a dead process does.
StagingRemoved ==
    \A f \in staging : f.owner # Nobody => up[f.owner].pc # "idle"

\* Only locations of a shard the server accepted are cached: an upload that fails between its
\* xorbs and its shard teaches later uploads nothing.
CacheAccepted == \A e \in ToSet(disk) : <<e.key, e.loc>> \in told

\* UploadFiles reports success only for files the server has committed, also
\* when it relied on locations that were stale by then.
SuccessCommitted ==
    \A s \in Session : up[s].result = "ok" => ToSet(Files[s]) \subseteq ever

\* A manager that prepared an upload or finished one tracks no more entries
\* than its capacity, although a lookup adds to them without evicting.
ManagersBounded ==
    \A s \in Session : up[s].result = "ok" \/ up[s].pc = "lookup" => Len(lru[s]) <= Capacity

\* Once an upload's context has ended, by cancellation or by a worker's error,
\* UploadFiles returns even if the server never answers again.
CancelReturns == \A s \in Session : up[s].err \/ ~up[s].live ~> up[s].pc = "idle"

\* The shard an upload sends locates every chunk, and where the chunk is.
ShardSound == TypeOK /\ LocationsTrue /\ ShardComplete

\* What a call leaves behind: no staging file, no more cache entries than the
\* capacity, none of a shard the server refused, and no success it did not have.
CallSettled == StagingRemoved /\ ManagersBounded /\ CacheAccepted /\ SuccessCommitted
=============================================================================
