------------------------------ MODULE XorbMap ------------------------------
(***************************************************************************)
(* internal/xorbmap: an LRU of reference-counted memory mappings of xorb   *)
(* files, filled once per hash at a time, and its two users: storage/local *)
(* maps the stored file itself, storage/s3 a local copy it downloads and   *)
(* removes when the last mapping of it is gone.  Readers, one deleter and  *)
(* one uploader run concurrently; a step is one critical section or one    *)
(* atomic operation.                                                       *)
(***************************************************************************)
EXTENDS Integers, FiniteSets, Sequences

CONSTANTS
    Hash,        \* xorb hashes
    Reader,      \* goroutines that call Acquire and Close
    Mapping,     \* identities of mappings
    None,
    MaxEntries,  \* the LRU's bound, unbounded below one
    Backends,    \* the stores looked at: [remote, mayFail]
    MaxAcquires  \* reader -> bound on the calls it makes

Deleter == "deleter"

ASSUME XorbMapAssumption ==
    /\ IsFiniteSet(Hash) /\ IsFiniteSet(Reader) /\ IsFiniteSet(Mapping)
    /\ None \notin Hash \cup Mapping \cup Reader /\ Deleter \notin Reader
    /\ MaxEntries \in Int /\ MaxAcquires \in [Reader -> Nat]
    /\ Backends \subseteq [remote : BOOLEAN, mayFail : BOOLEAN]
    \* Some identity is always free: the others are cached, seen or dropped.
    /\ Cardinality(Mapping) > Cardinality(Hash) + 2 * Cardinality(Reader) + 1

VARIABLES
    backend,  \* remote: S3, mappings are of local copies, else the local store;
              \* mayFail: opening and mapping a file may fail
    objects,  \* the stored xorb objects
    lru,      \* the cached hashes, most recently used first
    entry,    \* hash -> its cached mapping
    refs,     \* mapping -> its holds
    hashOf,   \* mapping -> the hash it maps, None when it is no mapping
    flight,   \* hash -> the reader leading a fill of it (singleflight.Group)
    copies,   \* hashes with a local copy
    live,     \* xorbLive
    pc,       \* what a reader, or the deleter, is about to do
    want,     \* the hash a reader or the deleter works on
    seen,     \* the mapping a reader has got hold of, or of a pointer to
    drop,     \* the mapping whose last hold a reader or the deleter dropped
    calls     \* the calls a reader has made

cacheVars == <<lru, entry>>
fileVars == <<copies, live>>
mapVars == <<backend, objects, cacheVars, refs, hashOf, flight, fileVars, pc, want, seen, drop, calls>>

Actor == Reader \cup {Deleter}

ReaderStage ==
    {"idle", "hit", "acquire", "do", "wait", "share", "fillHit", "fillAcquire", "open", "rename",
     "map", "add", "evict", "return", "held", "unmap"}

DeleterStage == {"idle", "remove", "evict", "object"}

MapInit ==
    /\ backend \in Backends
    /\ objects \in SUBSET Hash
    /\ lru = <<>> /\ entry = [h \in Hash |-> None]
    /\ refs = [m \in Mapping |-> 0] /\ hashOf = [m \in Mapping |-> None]
    /\ flight = [h \in Hash |-> None]
    /\ copies = {} /\ live = [h \in Hash |-> 0]
    /\ pc = [a \in Actor |-> "idle"]
    /\ want = [a \in Actor |-> None]
    /\ seen = [r \in Reader |-> None]
    /\ drop = [a \in Actor |-> None]
    /\ calls = [r \in Reader |-> 0]

MapTypeOK ==
    /\ objects \subseteq Hash
    /\ lru \in Seq(Hash) /\ entry \in [Hash -> Mapping \cup {None}]
    /\ refs \in [Mapping -> Nat] /\ hashOf \in [Mapping -> Hash \cup {None}]
    /\ flight \in [Hash -> Reader \cup {None}]
    /\ copies \subseteq Hash /\ live \in [Hash -> Nat]
    /\ \A r \in Reader : pc[r] \in ReaderStage
    /\ pc[Deleter] \in DeleterStage
    /\ want \in [Actor -> Hash \cup {None}]
    /\ seen \in [Reader -> Mapping \cup {None}]
    /\ drop \in [Actor -> Mapping \cup {None}]

\* The LRU's mutex is held across OnEvicted, and so across the unmapping it
\* may lead to.
Unlocked == \A a \in Actor : pc[a] # "evict"

Goto(a, stage) == pc' = [pc EXCEPT ![a] = stage]

\* A list of the LRU: whether it has h, and what is left without element i.
Lists(l, h) == \E i \in DOMAIN l : l[i] = h
Removed(l, i) == SubSeq(l, 1, i - 1) \o SubSeq(l, i + 1, Len(l))

\* The list without the element of h.
Unlisted(h) == IF Lists(lru, h) THEN Removed(lru, CHOOSE i \in DOMAIN lru : lru[i] = h) ELSE lru

\* lru.Get: the mapping, marked most recently used.
Touch(h) ==
    IF entry[h] = None THEN lru ELSE <<h>> \o Unlisted(h)

-----------------------------------------------------------------------------
Begin(r, h) ==
    /\ pc[r] = "idle" /\ calls[r] < MaxAcquires[r]
    /\ Goto(r, "hit")
    /\ want' = [want EXCEPT ![r] = h]
    /\ calls' = [calls EXCEPT ![r] = @ + 1]
    /\ UNCHANGED <<objects, cacheVars, refs, hashOf, flight, fileVars, seen, drop>>

\* Defect: a fill trusts the miss its caller saw.
HitOnce(r) ==
    /\ pc[r] \in {"hit", "fillHit"} /\ Unlocked
    /\ lru' = Touch(want[r])
    /\ seen' = [seen EXCEPT ![r] = IF pc[r] = "hit" THEN entry[want[r]] ELSE None]
    /\ Goto(r, CASE pc[r] = "fillHit"                          -> "open"
                 [] entry[want[r]] # None /\ pc[r] = "hit"     -> "acquire"
                 [] entry[want[r]] = None /\ pc[r] = "hit"     -> "do")
    /\ UNCHANGED <<objects, entry, refs, hashOf, flight, fileVars, want, drop, calls>>

\* hit, first half, by Acquire or by a fill: the look into the LRU.
Hit(r) ==
    /\ pc[r] \in {"hit", "fillHit"} /\ Unlocked
    /\ lru' = Touch(want[r])
    /\ seen' = [seen EXCEPT ![r] = entry[want[r]]]
    /\ Goto(r, CASE entry[want[r]] # None /\ pc[r] = "hit"     -> "acquire"
                 [] entry[want[r]] # None /\ pc[r] = "fillHit" -> "fillAcquire"
                 [] entry[want[r]] = None /\ pc[r] = "hit"     -> "do"
                 [] entry[want[r]] = None /\ pc[r] = "fillHit" -> "open")
    /\ UNCHANGED <<objects, entry, refs, hashOf, flight, fileVars, want, drop, calls>>

\* acquire, the second half of a hit and the last step of a waiter: a hold,
\* unless the mapping died first.
Acquire(r) ==
    /\ pc[r] \in {"acquire", "fillAcquire", "share"}
    /\ \/ /\ refs[seen[r]] > 0
          /\ refs' = [refs EXCEPT ![seen[r]] = @ + 1]
          /\ Goto(r, IF pc[r] = "fillAcquire" THEN "return" ELSE "held")
          /\ UNCHANGED seen
       \/ /\ refs[seen[r]] = 0
          /\ Goto(r, CASE pc[r] = "acquire"     -> "do"
                       [] pc[r] = "fillAcquire" -> "open"
                       [] pc[r] = "share"       -> "hit")
          /\ seen' = [seen EXCEPT ![r] = None]
          /\ UNCHANGED refs
    /\ UNCHANGED <<objects, cacheVars, hashOf, flight, fileVars, want, drop, calls>>

\* fills.Do: lead a fill of the hash, or wait for the one in flight.
Do(r) ==
    /\ pc[r] = "do"
    /\ \/ /\ flight[want[r]] = None
          /\ flight' = [flight EXCEPT ![want[r]] = r]
          /\ Goto(r, "fillHit")
       \/ /\ flight[want[r]] # None
          /\ Goto(r, "wait")
          /\ UNCHANGED flight
    /\ UNCHANGED <<objects, cacheVars, refs, hashOf, fileVars, want, seen, drop, calls>>

\* c.open: the stored file, or the start of a download.  A mapping outlives
\* the removal of its file.
Open(r) ==
    /\ pc[r] = "open"
    /\ \/ want[r] \in objects /\ Goto(r, IF backend.remote THEN "rename" ELSE "map")
       \/ (want[r] \notin objects \/ backend.mayFail) /\ Goto(r, "return")
    /\ UNCHANGED <<objects, cacheVars, refs, hashOf, flight, fileVars, want, seen, drop, calls>>

\* The end of downloadXorb, under xorbFiles: a copy that cannot be opened is
\* removed, whoever else maps one of the same hash.
Rename(r) ==
    /\ pc[r] = "rename"
    /\ \/ /\ Goto(r, "map")
          /\ copies' = copies \cup {want[r]}
          /\ live' = [live EXCEPT ![want[r]] = @ + 1]
       \/ /\ backend.mayFail /\ Goto(r, "return")
          /\ copies' \in {copies, copies \ {want[r]}}
          /\ UNCHANGED live
    /\ UNCHANGED <<objects, cacheVars, refs, hashOf, flight, want, seen, drop, calls>>

\* Defect: the local copy goes with the first mapping of it that dies.
ReleaseHookUncounted(h) ==
    IF backend.remote
      THEN /\ live' = [live EXCEPT ![h] = 0]
           /\ copies' = copies \ {h}
      ELSE UNCHANGED fileVars

\* The release hook: removeXorbFile on S3, none on a local store.
ReleaseHook(h) ==
    IF backend.remote
      THEN /\ live' = [live EXCEPT ![h] = @ - 1]
           /\ copies' = IF live[h] > 1 THEN copies ELSE copies \ {h}
      ELSE UNCHANGED fileVars

\* The rest of fill up to the LRU: a mapping with one hold for the cache and
\* one for the caller.
Map(r) ==
    /\ pc[r] = "map"
    /\ \/ LET m == CHOOSE n \in Mapping : hashOf[n] = None /\ \A q \in Reader : seen[q] # n
          IN  /\ hashOf' = [hashOf EXCEPT ![m] = want[r]]
              /\ refs' = [refs EXCEPT ![m] = 2]
              /\ seen' = [seen EXCEPT ![r] = m]
              /\ Goto(r, "add")
              /\ UNCHANGED fileVars
       \/ /\ backend.mayFail /\ Goto(r, "return")
          /\ ReleaseHook(want[r])
          /\ UNCHANGED <<hashOf, refs, seen>>
    /\ UNCHANGED <<objects, cacheVars, flight, want, drop, calls>>

\* Mapping.Release up to its decrement; the last hold leaves the unmapping
\* to the actor, at stage last.
Release(a, m, last, next) ==
    /\ refs' = [refs EXCEPT ![m] = @ - 1]
    /\ drop' = [drop EXCEPT ![a] = IF refs[m] = 1 THEN m ELSE None]
    /\ Goto(a, IF refs[m] = 1 THEN last ELSE next)

\* lru.Add, with the eviction of the least recently used entry.
Add(r) ==
    /\ pc[r] = "add" /\ Unlocked
    /\ LET all == <<want[r]>> \o Unlisted(want[r])
           added == [entry EXCEPT ![want[r]] = seen[r]]
           oldest == Len(all)
       IN  IF MaxEntries > 0 /\ Len(all) > MaxEntries
             THEN /\ lru' = Removed(all, oldest)
                  /\ entry' = [added EXCEPT ![all[oldest]] = None]
                  /\ Release(r, added[all[oldest]], "evict", "return")
             ELSE /\ lru' = all /\ entry' = added
                  /\ Goto(r, "return")
                  /\ UNCHANGED <<refs, drop>>
    /\ UNCHANGED <<objects, hashOf, flight, fileVars, want, seen, calls>>

\* Defect: a fill that fails leaves its waiters asleep.
ReturnFailedAlone(r) ==
    /\ pc[r] = "return"
    /\ LET waiters == {q \in Reader : pc[q] = "wait" /\ want[q] = want[r]}
       IN  IF seen[r] = None
             THEN Goto(r, "idle") /\ UNCHANGED seen
             ELSE /\ pc' = [a \in Actor |-> CASE a = r         -> "held"
                                              [] a \in waiters -> "share"
                                              [] OTHER         -> pc[a]]
                  /\ seen' = [q \in Reader |-> IF q \in waiters THEN seen[r] ELSE seen[q]]
    /\ flight' = [flight EXCEPT ![want[r]] = None]
    /\ UNCHANGED <<objects, cacheVars, refs, hashOf, fileVars, want, drop, calls>>

\* The end of fills.Do: the leader has its hold, the waiters a pointer; an
\* error goes to all of them.
Return(r) ==
    /\ pc[r] = "return"
    /\ LET waiters == {q \in Reader : pc[q] = "wait" /\ want[q] = want[r]}
           failed == seen[r] = None
       IN  /\ pc' = [a \in Actor |-> CASE a = r       -> IF failed THEN "idle" ELSE "held"
                                       [] a \in waiters -> IF failed THEN "idle" ELSE "share"
                                       [] OTHER         -> pc[a]]
           /\ seen' = [q \in Reader |-> IF q \in waiters THEN seen[r] ELSE seen[q]]
    /\ flight' = [flight EXCEPT ![want[r]] = None]
    /\ UNCHANGED <<objects, cacheVars, refs, hashOf, fileVars, want, drop, calls>>

\* reader.Close, once: Swap(nil) makes the second call an error.
Close(r) ==
    /\ pc[r] = "held"
    /\ Release(r, seen[r], "unmap", "idle")
    /\ seen' = [seen EXCEPT ![r] = None]
    /\ UNCHANGED <<objects, cacheVars, hashOf, flight, fileVars, want, calls>>

\* The end of Mapping.Release by the actor that dropped the last hold.
Unmap(a) ==
    /\ pc[a] \in {"evict", "unmap"}
    /\ hashOf' = [hashOf EXCEPT ![drop[a]] = None]
    /\ drop' = [drop EXCEPT ![a] = None]
    /\ ReleaseHook(hashOf[drop[a]])
    /\ Goto(a, CASE pc[a] = "unmap"                 -> "idle"
                 [] a # Deleter /\ pc[a] = "evict"  -> "return"
                 [] a = Deleter /\ backend.remote           -> "idle"
                 [] a = Deleter /\ ~backend.remote          -> "object")
    /\ UNCHANGED <<objects, cacheVars, refs, flight, want, seen, calls>>

-----------------------------------------------------------------------------
\* DeleteXorb: a local store drops the cached mapping, then the file; S3
\* deletes the object, then drops the mapping.
BeginDelete(h) ==
    /\ pc[Deleter] = "idle"
    /\ want' = [want EXCEPT ![Deleter] = h]
    /\ Goto(Deleter, IF backend.remote THEN "object" ELSE "remove")
    /\ UNCHANGED <<objects, cacheVars, refs, hashOf, flight, fileVars, seen, drop, calls>>

\* xorbCache.Remove.
RemoveCached ==
    /\ pc[Deleter] = "remove" /\ Unlocked
    /\ LET h == want[Deleter]
           next == IF backend.remote THEN "idle" ELSE "object"
       IN  IF entry[h] = None
             THEN /\ Goto(Deleter, next)
                  /\ UNCHANGED <<cacheVars, refs, drop>>
             ELSE /\ lru' = Unlisted(h)
                  /\ entry' = [entry EXCEPT ![h] = None]
                  /\ Release(Deleter, entry[h], "evict", next)
    /\ UNCHANGED <<objects, hashOf, flight, fileVars, want, seen, calls>>

\* os.Remove or DeleteObject; a failure is reported after the other half.
RemoveObject ==
    /\ pc[Deleter] = "object"
    /\ objects' \in {objects \ {want[Deleter]}} \cup (IF backend.mayFail THEN {objects} ELSE {})
    /\ Goto(Deleter, IF backend.remote THEN "remove" ELSE "idle")
    /\ UNCHANGED <<cacheVars, refs, hashOf, flight, fileVars, want, seen, drop, calls>>

\* PutXorb of a xorb that is not stored; of one that is, it does nothing.
PutXorb(h) ==
    /\ h \notin objects
    /\ objects' = objects \cup {h}
    /\ UNCHANGED <<cacheVars, refs, hashOf, flight, fileVars, pc, want, seen, drop, calls>>

\* HasXorb answers from a cached mapping or the stored object; its look into the
\* cache counts as a use.
HasXorb(h) ==
    /\ Unlocked
    /\ lru' = Touch(h)
    /\ UNCHANGED <<objects, entry, refs, hashOf, flight, fileVars, pc, want, seen, drop, calls>>

-----------------------------------------------------------------------------
ReaderStep(r) ==
    \/ Hit(r) \/ Acquire(r) \/ Do(r) \/ Open(r) \/ Rename(r) \/ Map(r) \/ Add(r) \/ Return(r)

MapNext ==
    /\ \/ \E r \in Reader : ReaderStep(r) \/ Close(r) \/ \E h \in Hash : Begin(r, h)
       \/ \E a \in Actor : Unmap(a)
       \/ \E h \in Hash : BeginDelete(h) \/ PutXorb(h) \/ HasXorb(h)
       \/ RemoveCached \/ RemoveObject
    /\ UNCHANGED backend

MapSpec == MapInit /\ [][MapNext]_mapVars

-----------------------------------------------------------------------------
\* The readers that own a hold on m, and how many holds each stage owns: a
\* fill that has not reached the LRU still has the cache's.
Holds(r, m) ==
    IF seen[r] # m THEN 0
    ELSE CASE pc[r] = "add"                          -> 2
           [] pc[r] \in {"evict", "return", "held"}  -> 1
           [] OTHER                                  -> 0

CacheHolds(m) == Cardinality({h \in Hash : entry[h] = m})

OwnedHolds(m) == Cardinality({r \in Reader : Holds(r, m) = 1}) + 2 * Cardinality({r \in Reader : Holds(r, m) = 2})

\* Every hold on a mapping is owned: its count is the number of readers that
\* hold it, plus one while the LRU has it.  So no mapping is ever leaked
\* (lru.Add overwriting a live entry would do it without an OnEvicted call)
\* and none is unmapped under a reader.
RefsExact ==
    \A m \in Mapping :
        /\ refs[m] = CacheHolds(m) + OwnedHolds(m)
        /\ hashOf[m] # None => refs[m] > 0 \/ \E a \in Actor : drop[a] = m

\* A reader's bytes are those of the xorb it asked for, and stay mapped until
\* it closes, whatever is evicted, deleted or filled again meanwhile.
HeldMapped ==
    \A r \in Reader : pc[r] = "held" => refs[seen[r]] > 0 /\ hashOf[seen[r]] = want[r]

MapsOf(h) == Cardinality({m \in Mapping : hashOf[m] = h})
FillsOf(h) == Cardinality({r \in Reader : pc[r] = "map" /\ want[r] = h})

\* xorbLive counts the mappings of a hash and the fills about to make one, and
\* a local copy is on disk only while that count is positive: overlapping
\* fills and releases of one hash neither leak a copy nor remove one in use.
CopiesCounted ==
    backend.remote => \A h \in Hash :
        /\ live[h] = MapsOf(h) + FillsOf(h)
        /\ h \in copies => live[h] > 0
        /\ live[h] > 0 /\ ~backend.mayFail => h \in copies

\* The LRU lists the hashes that have an entry, each once and no more than
\* MaxEntries of them, even with eviction interleaved with fills and removals.
LRUBounded ==
    /\ \A h \in Hash : Lists(lru, h) <=> entry[h] # None
    /\ \A i, j \in DOMAIN lru : lru[i] = lru[j] => i = j
    /\ MaxEntries > 0 => Len(lru) <= MaxEntries

\* "fills each hash at most once at a time": no two readers are inside a fill
\* of the same hash, however their misses, waits and retries interleave.
OneFill ==
    \A q, r \in Reader :
        /\ {pc[q], pc[r]} \subseteq {"fillHit", "fillAcquire", "open", "rename", "map", "add", "evict"}
        /\ want[q] = want[r]
        => q = r

\* Acquire returns: a waiter is always woken, and its retries end once the others
\* have made their last call, so that in the end no reader is inside a call.
AcquireReturns == <>[](\A r \in Reader : pc[r] \in {"idle", "held"})

\* Whatever readers, fills, evictions and deletes do to each other, the holds
\* are accounted for, readers keep what they hold, and the LRU is filled once
\* per hash and kept within its bound.
MappingsSound == MapTypeOK /\ RefsExact /\ HeldMapped /\ LRUBounded /\ OneFill
=============================================================================
