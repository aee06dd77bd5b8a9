----------------------------- MODULE IndexCache -----------------------------
(***************************************************************************)
(* storage.IndexCaches as storage/local and storage/s3 use them: lookups   *)
(* load outside the lock what they then cache, and deletes and commits     *)
(* change the store before they evict.  The index entries (files, sha256,  *)
(* chunks) are kept alike and are one kind of key here; the shard objects  *)
(* are the other.                                                          *)
(***************************************************************************)
EXTENDS Integers, SequencesExt

CONSTANTS
    Entry,       \* the keys of the index
    Object,      \* shard hashes: the values of entries, and keys themselves
    EntriesOf,   \* shard -> the entries PutShardIndexes writes for it, in order
    Lookup,      \* goroutines that resolve keys
    Absent,      \* no value
    MaxCached,   \* the size of each cache
    MaxChanges   \* bound on deletes and commits

ASSUME IndexCacheAssumption ==
    /\ Absent \notin Object /\ Entry \cap Object = {}
    /\ EntriesOf \in [Object -> Seq(Entry)]
    /\ MaxCached \in Nat \ {0} /\ MaxChanges \in Nat

VARIABLES
    bucket,    \* TRUE: storage/s3; FALSE: storage/local
    store,     \* key -> the stored value, Absent when there is none
    entries, objects_,  \* the caches: <<key, value>> pairs, most recent first
    lpc, lkey, lval,    \* where a lookup is, the key it resolves, what it loaded
    dpc, dkey,          \* where a delete is, and the key it deletes
    wpc, wshard, widx,  \* where PutShard is, its shard, its place in EntriesOf
    changes,
    late,      \* lookups whose loaded value was deleted or overwritten, and
               \* evicted, before they cached it
    excused    \* keys a late lookup cached, or whose failed delete or put took effect

cachesVars == <<entries, objects_>>
lookupVars == <<lpc, lkey, lval>>
deleteVars == <<dpc, dkey>>
writeVars == <<wpc, wshard, widx>>
indexVars == <<bucket, store, cachesVars, lookupVars, deleteVars, writeVars, changes, late, excused>>

Keys == Entry \cup Object

IndexInit ==
    /\ bucket \in BOOLEAN
    /\ store = [k \in Keys |-> Absent]
    /\ entries = <<>> /\ objects_ = <<>>
    /\ lpc = [l \in Lookup |-> "idle"] /\ lkey = [l \in Lookup |-> Absent]
    /\ lval = [l \in Lookup |-> Absent]
    /\ dpc = "idle" /\ dkey = Absent
    /\ wpc = "idle" /\ wshard = Absent /\ widx = 0
    /\ changes = 0 /\ late = {} /\ excused = {}

-----------------------------------------------------------------------------
\* internal/lru.

CacheOf(k) == IF k \in Entry THEN entries ELSE objects_
Cached(k) == \E i \in DOMAIN CacheOf(k) : CacheOf(k)[i][1] = k
ValueOf(k) == CacheOf(k)[CHOOSE i \in DOMAIN CacheOf(k) : CacheOf(k)[i][1] = k][2]
Without(k) == SelectSeq(CacheOf(k), LAMBDA pair : pair[1] # k)

\* The cache of k becomes c, and keys it no longer has need no excuse.
SetCache(k, c, pardoned) ==
    /\ entries' = IF k \in Entry THEN c ELSE entries
    /\ objects_' = IF k \in Entry THEN objects_ ELSE c
    /\ LET gone == {x \in Keys : Cached(x) /\ ~ \E i \in DOMAIN c : c[i][1] = x}
                     \cap (IF k \in Entry THEN Entry ELSE Object)
       IN  excused' = (excused \ gone) \cup pardoned

\* Get: a hit moves to the front.
Get(k) ==
    IF Cached(k) THEN SetCache(k, <<<<k, ValueOf(k)>>>> \o Without(k), {})
    ELSE UNCHANGED <<cachesVars, excused>>

\* Add: to the front, the oldest entries leaving a cache that is full.
AddCached(k, v, pardoned) ==
    LET c == <<<<k, v>>>> \o Without(k)
    IN  SetCache(k, SubSeq(c, 1, IF Len(c) < MaxCached THEN Len(c) ELSE MaxCached), pardoned)

\* Remove, after which the loads of k still to be cached are late.
Evict(k) ==
    /\ SetCache(k, Without(k), {})
    /\ late' = late \cup {l \in Lookup : lpc[l] = "add" /\ lkey[l] = k /\ lval[l] # store[k]}

-----------------------------------------------------------------------------
\* getShard and its siblings: GetOrLoad of the entry, then of the shard.

BeginLookup(l) ==
    /\ lpc[l] = "idle"
    /\ \E k \in Keys : lkey' = [lkey EXCEPT ![l] = k]
    /\ lpc' = [lpc EXCEPT ![l] = "get"]
    /\ UNCHANGED <<bucket, store, cachesVars, lval, deleteVars, writeVars, changes, late, excused>>

\* The lookup of an entry goes on with the shard it names.
Resolved(l, v) ==
    IF lkey[l] \in Entry
      THEN lkey' = [lkey EXCEPT ![l] = v] /\ lpc' = [lpc EXCEPT ![l] = "get"]
      ELSE lkey' = [lkey EXCEPT ![l] = Absent] /\ lpc' = [lpc EXCEPT ![l] = "idle"]

CacheGet(l) ==
    /\ lpc[l] = "get"
    /\ Get(lkey[l])
    /\ IF Cached(lkey[l]) THEN Resolved(l, ValueOf(lkey[l]))
       ELSE lpc' = [lpc EXCEPT ![l] = "load"] /\ UNCHANGED lkey
    /\ UNCHANGED <<bucket, store, lval, deleteVars, writeVars, changes, late>>

\* The load, outside the lock: an absent object, or a failure, is returned.
CacheLoad(l) ==
    /\ lpc[l] = "load"
    /\ \/ /\ store[lkey[l]] # Absent
          /\ lval' = [lval EXCEPT ![l] = store[lkey[l]]]
          /\ lpc' = [lpc EXCEPT ![l] = "add"]
          /\ UNCHANGED lkey
       \/ /\ lpc' = [lpc EXCEPT ![l] = "idle"] /\ lkey' = [lkey EXCEPT ![l] = Absent]
          /\ UNCHANGED lval
    /\ UNCHANGED <<bucket, store, cachesVars, deleteVars, writeVars, changes, late, excused>>

CacheAdd(l) ==
    /\ lpc[l] = "add"
    /\ AddCached(lkey[l], lval[l], IF l \in late THEN {lkey[l]} ELSE {})
    /\ late' = late \ {l}
    /\ lval' = [lval EXCEPT ![l] = Absent]
    /\ Resolved(l, lval[l])
    /\ UNCHANGED <<bucket, store, deleteVars, writeVars, changes>>

-----------------------------------------------------------------------------
\* DeleteFileIndexEntry, DeleteSHA256IndexEntry, DeleteChunkIndexEntry and
\* DeleteShard.

BeginRemove(k) ==
    /\ dpc = "idle" /\ changes < MaxChanges
    /\ dkey' = k /\ dpc' = "remove" /\ changes' = changes + 1
    /\ UNCHANGED <<bucket, store, cachesVars, lookupVars, writeVars, late, excused>>

\* Nothing evicts k: what is cached of it, or about to be, may stay stale.
Forgo(k, v) ==
    /\ late' = late \cup {l \in Lookup : lpc[l] = "add" /\ lkey[l] = k /\ lval[l] # v}
    /\ excused' = IF Cached(k) /\ ValueOf(k) # v THEN excused \cup {k} ELSE excused

\* A failed request may have taken effect.  S3's entry deletes then return
\* before they evict; the others evict whatever the outcome.
RemoveStored ==
    /\ dpc = "remove"
    /\ store' \in {store, [store EXCEPT ![dkey] = Absent]}
    /\ \/ dpc' = "evict" /\ UNCHANGED <<dkey, late, excused>>
       \/ /\ bucket /\ dkey \in Entry
          /\ Forgo(dkey, store'[dkey])
          /\ dpc' = "idle" /\ dkey' = Absent
    /\ UNCHANGED <<bucket, cachesVars, lookupVars, writeVars, changes>>

EvictRemoved ==
    /\ dpc = "evict"
    /\ Evict(dkey)
    /\ dpc' = "idle" /\ dkey' = Absent
    /\ UNCHANGED <<bucket, store, lookupVars, writeVars, changes>>
-----------------------------------------------------------------------------
\* PutShard.

Writing(pc, i) == wpc' = pc /\ widx' = i

EndWrite == wpc' = "idle" /\ wshard' = Absent /\ widx' = 0

BeginWrite(s) ==
    /\ wpc = "idle" /\ changes < MaxChanges
    /\ wshard' = s /\ Writing("has", 1) /\ changes' = changes + 1
    /\ UNCHANGED <<bucket, store, cachesVars, lookupVars, deleteVars, late, excused>>

\* hasFile of every file: a cached entry is taken at its word.  A shard whose
\* entries all exist is a no-op, and a check that fails ends the call.
HasEntry ==
    LET k == EntriesOf[wshard][widx]
    IN  /\ wpc = "has"
        /\ Get(k)
        /\ \/ CASE ~Cached(k) /\ store[k] = Absent -> Writing("object", 1) /\ UNCHANGED wshard
               [] widx < Len(EntriesOf[wshard])    -> Writing("has", widx + 1) /\ UNCHANGED wshard
               [] OTHER                            -> EndWrite
           \/ ~Cached(k) /\ EndWrite
        /\ UNCHANGED <<bucket, store, lookupVars, deleteVars, changes, late>>

\* The shard object, unless it is stored.  A request that fails, here or below,
\* ends the call and may have taken effect.
WriteObject ==
    /\ wpc = "object"
    /\ \/ /\ store' = [store EXCEPT ![wshard] = wshard]
          /\ Writing("entry", 1) /\ UNCHANGED wshard
       \/ /\ store' \in {store, [store EXCEPT ![wshard] = wshard]}
          /\ EndWrite
    /\ UNCHANGED <<bucket, cachesVars, lookupVars, deleteVars, changes, late, excused>>

NextEntry ==
    IF widx < Len(EntriesOf[wshard]) THEN Writing("entry", widx + 1) /\ UNCHANGED wshard
    ELSE EndWrite

\* writeIndexFile keeps an entry that exists; putIndexObject overwrites it and
\* goes on to evict it, unless it fails.
WriteEntry ==
    LET k == EntriesOf[wshard][widx]
        put == IF bucket \/ store[k] = Absent THEN [store EXCEPT ![k] = wshard] ELSE store
    IN  /\ wpc = "entry"
        /\ \/ /\ store' = put
              /\ IF bucket THEN Writing("evict", widx) /\ UNCHANGED wshard ELSE NextEntry
              /\ UNCHANGED <<late, excused>>
           \/ /\ store' \in {store, put}
              /\ Forgo(k, store'[k])
              /\ EndWrite
        /\ UNCHANGED <<bucket, cachesVars, lookupVars, deleteVars, changes>>

\* Defect: a mapping that an upload replaced is left in the cache.
EvictWrittenNever ==
    /\ wpc = "evict"
    /\ NextEntry
    /\ UNCHANGED <<bucket, store, cachesVars, lookupVars, deleteVars, changes, late, excused>>

\* evictIndexEntry.
EvictWritten ==
    /\ wpc = "evict"
    /\ Evict(EntriesOf[wshard][widx])
    /\ NextEntry
    /\ UNCHANGED <<bucket, store, lookupVars, deleteVars, changes>>

-----------------------------------------------------------------------------
IndexNext ==
    \/ \E l \in Lookup : BeginLookup(l) \/ CacheGet(l) \/ CacheLoad(l) \/ CacheAdd(l)
    \/ \E k \in Keys : BeginRemove(k)
    \/ RemoveStored \/ EvictRemoved
    \/ \E s \in Object : BeginWrite(s)
    \/ HasEntry \/ WriteObject \/ WriteEntry \/ EvictWritten

\* "Evicting after the delete narrows but does not close the re-cache window":
\* a cached value is the stored one unless its eviction is still to come, a
\* load that overlapped the change and its eviction put it back, or S3 failed
\* to answer a delete or a put that took effect, after which nothing is evicted.
\* In all other orders of lookups, deletes, commits and LRU evictions a warm
\* process serves what a restarted one would.
CachedCurrent ==
    \A k \in Keys :
        Cached(k) =>
            \/ ValueOf(k) = store[k]
            \/ k \in excused
            \/ dpc = "evict" /\ dkey = k
            \/ wpc = "evict" /\ EntriesOf[wshard][widx] = k
=============================================================================
