----------------------------- MODULE ChunkCache -----------------------------
(***************************************************************************)
(* The download chunk cache on disk (download/chunk_cache.go,              *)
(* cache_manager.go, cache_merge.go): sessions of several processes look   *)
(* for a chunk range of one xorb in the cache directory, and write it      *)
(* under the entry file's flock when it is not there; each process's       *)
(* manager tracks, evicts and reconciles entries, and its merger compacts  *)
(* the directory.  Processes and the machine may die at any step.  A step  *)
(* is one system call or one critical section of a manager; what happens   *)
(* under one flock between two of them is a step of its own.               *)
(***************************************************************************)
EXTENDS Integers, FiniteSets, SequencesExt

CONSTANTS
    Proc,         \* processes, each with one CacheManager
    User,         \* download sessions
    Owner,        \* session or merger -> its process
    N,            \* the xorb's chunks are 0 .. N - 1
    Small,        \* the chunks exactly as long as the checksum trailer
    Wanted,       \* session -> the ranges it may ask for
    Inode,        \* inodes at hand
    Capacity,     \* the managers' capacity, in chunks
    None,
    MaxOpens,     \* bound on the sessions started
    MaxEvents     \* bound on crashes and power losses

Range2 == {r \in (0 .. N) \X (0 .. N) : r[1] < r[2]}  \* validChunkRange; an entry's name
Merger == Proc
Session == User \cup Merger

ASSUME ChunkCacheAssumption ==
    /\ N \in Nat \ {0} /\ Small \subseteq 0 .. N - 1 /\ Capacity \in Nat \ {0}
    /\ Wanted \in [User -> SUBSET Range2] /\ Owner \in [Session -> Proc] /\ \A p \in Proc : Owner[p] = p

VARIABLES
    names,     \* the directory: entry name -> inode
    files,     \* inode -> what the file holds
    ses,       \* session or merger -> what it does
    lru,       \* manager -> tracked entries, least recently used first
    total,     \* manager -> tracked bytes
    verified,  \* manager -> names whose checksum has passed
    paused,    \* manager -> lastEvictFailed is set
    scanned,   \* manager -> the directory has been read
    pending,   \* manager -> the xorb has a merge hint
    adrift,    \* history: entries were left to no merge pass since the last one began
    opens, events

mgr == <<lru, total, verified, paused, scanned>>
vars == <<names, files, ses, mgr, pending, adrift, opens, events>>

Size(r) == r[2] - r[1]
Blank == [chunks |-> 0, head |-> "none", trailer |-> FALSE, ok |-> TRUE, lock |-> None]
Idle == [pc |-> "idle", range |-> None, fd |-> None, list |-> <<>>, covered |-> 0, held |-> <<>>,
         refs |-> <<>>, source |-> <<>>, run |-> <<>>, rest |-> <<>>, kept |-> FALSE,
         misled |-> FALSE]

Init ==
    /\ names = [r \in Range2 |-> None]
    /\ files = [i \in Inode |-> Blank]
    /\ ses = [s \in Session |-> Idle]
    /\ lru = [p \in Proc |-> <<>>] /\ total = [p \in Proc |-> 0]
    /\ verified = [p \in Proc |-> {}] /\ paused = [p \in Proc |-> FALSE]
    /\ scanned = [p \in Proc |-> FALSE] /\ pending = [p \in Proc |-> FALSE]
    /\ adrift = FALSE /\ opens = 0 /\ events = 0

\* readCacheFileLayout: the file has exactly the size its header implies.  A
\* placeholder header implies no data at all.
Complete(r, f) ==
    \/ f.head = "patched" /\ f.trailer
    \/ f.head = "placeholder" /\ ~f.trailer /\ f.chunks = 1 /\ r[1] \in Small

\* verifyCacheFileCRC.
CRC(f) == f.head = "patched" /\ f.trailer /\ f.ok

\* The whole entry, as its writer left it.
Sealed(r, f) == CRC(f) /\ f.chunks = Size(r)

\* A file nobody can reach any more is gone.
Handles(s) == {s.fd} \cup {s.held[i].inode : i \in DOMAIN s.held} \cup {s.source[i].inode : i \in DOMAIN s.source}
Reachable(ns, ss) == {ns[r] : r \in Range2} \cup UNION {Handles(ss[s]) : s \in Session}
Reclaimed(fs, live) == [i \in Inode |-> IF i \in live THEN fs[i] ELSE Blank]
Unlocked(fs, i) == IF i = None THEN fs ELSE [fs EXCEPT ![i].lock = None]

-----------------------------------------------------------------------------
\* A manager's state as a value, so that the calls of one step compose.
M(p) == [lru |-> lru[p], total |-> total[p], verified |-> verified[p], paused |-> paused[p],
         scanned |-> scanned[p], names |-> names, files |-> files]

Tracked(l, r) == \E i \in DOMAIN l : l[i].path = r
At(l, r) == CHOOSE i \in DOMAIN l : l[i].path = r
Others(l, r) == SelectSeq(l, LAMBDA e : e.path # r)

Bytes(paths) == MapThenSumSet(Size, paths)

\* acquire.
Acquire(m, r) ==
    LET refs == IF Tracked(m.lru, r) THEN m.lru[At(m.lru, r)].refs + 1 ELSE 1
    IN  [m EXCEPT !.lru = Append(Others(m.lru, r), [path |-> r, refs |-> refs]),
                  !.total = IF Tracked(m.lru, r) THEN @ ELSE @ + Size(r)]

\* Defect: the references of a session of several entries are given back for
\* the first one alone.
ReleaseFirst(m, paths) ==
    LET mine == SelectSeq(paths, LAMBDA r : r = paths[1] /\ Tracked(m.lru, r))
        left(e) == IF e.refs > 0 THEN e.refs - 1 ELSE 0
        released == [i \in DOMAIN mine |-> LET e == m.lru[At(m.lru, mine[i])] IN [e EXCEPT !.refs = left(e)]]
        last == \E i \in DOMAIN mine : m.lru[At(m.lru, mine[i])].refs = 1
    IN  [m EXCEPT !.lru = SelectSeq(m.lru, LAMBDA e : ~Contains(mine, e.path)) \o released,
                  !.paused = @ /\ ~last]
\* release, for every path of a session; the last user lifts the eviction pause.
ReleaseAll(m, paths) ==
    LET mine == SelectSeq(paths, LAMBDA r : Tracked(m.lru, r))
        left(e) == IF e.refs > 0 THEN e.refs - 1 ELSE 0
        released == [i \in DOMAIN mine |-> LET e == m.lru[At(m.lru, mine[i])] IN [e EXCEPT !.refs = left(e)]]
        last == \E i \in DOMAIN mine : m.lru[At(m.lru, mine[i])].refs = 1
    IN  [m EXCEPT !.lru = SelectSeq(m.lru, LAMBDA e : ~Contains(mine, e.path)) \o released,
                  !.paused = @ /\ ~last]

\* removeCacheEntry: the name goes unless somebody holds the entry's flock.
RemoveEntry(m, r) ==
    IF m.names[r] # None /\ m.files[m.names[r]].lock # None THEN m ELSE [m EXCEPT !.names[r] = None]
Gone(m, r) == m.names[r] = None

\* evictLocked: from the oldest on, entries are unlinked until the rest fits; one
\* in use, or locked, is kept as the most recently used.
Evict(m) ==
    LET removable(e) == e.refs = 0 /\ (Gone(m, e.path) \/ m.files[m.names[e.path]].lock = None)
        unlinked(k) == {m.lru[i].path : i \in {j \in 1 .. k : removable(m.lru[j])}}
        enough == {k \in 0 .. Len(m.lru) : m.total - Bytes(unlinked(k)) <= Capacity}
        k == IF enough = {} THEN Len(m.lru) ELSE Min(enough)
        visited == SelectSeq(SubSeq(m.lru, 1, k), LAMBDA e : e.path \notin unlinked(k))
        total2 == m.total - Bytes(unlinked(k))
    IN  [m EXCEPT !.lru = SubSeq(m.lru, k + 1, Len(m.lru)) \o visited, !.total = total2,
                  !.names = [r \in Range2 |-> IF r \in unlinked(k) THEN None ELSE m.names[r]],
                  !.verified = @ \ unlinked(k), !.paused = total2 > Capacity]

\* reconcileLocked: incomplete entries nobody writes go, tracked entries whose
\* names are gone are dropped, and unknown entries adopted.
Reconcile(m) ==
    LET ondisk == {r \in Range2 : m.names[r] # None}
        whole == {r \in ondisk : Complete(r, m.files[m.names[r]])}
        leftover == {r \in ondisk \ whole : m.files[m.names[r]].lock = None}
        kept == SelectSeq(m.lru, LAMBDA e : e.path \in whole)
        adopted == SetToSortSeq({r \in whole : ~Tracked(kept, r)}, LAMBDA a, b : a[1] < b[1] \/ (a[1] = b[1] /\ a[2] < b[2]))
    IN  [m EXCEPT !.names = [r \in Range2 |-> IF r \in leftover THEN None ELSE m.names[r]],
                  !.lru = kept \o [i \in DOMAIN adopted |-> [path |-> adopted[i], refs |-> 0]],
                  !.total = Bytes(whole),
                  !.scanned = TRUE,
                  !.verified = {r \in @ : ~Tracked(m.lru, r) \/ r \in whole}]

\* evaluateLocked: what it may return, by whether the backoff has run out and
\* the last reconcile is old.
Evaluate(m) ==
    IF m.total < Capacity THEN {m}
    ELSE (IF m.paused THEN {m} ELSE {}) \cup {Evict(seen) : seen \in {m, Reconcile(m)}}

\* The state after a step of p whose manager ends as after and sessions as ss.
Set(p, after, ss) ==
    \E m \in {after} :
      /\ lru' = [lru EXCEPT ![p] = m.lru] /\ total' = [total EXCEPT ![p] = m.total]
      /\ verified' = [verified EXCEPT ![p] = m.verified] /\ paused' = [paused EXCEPT ![p] = m.paused]
      /\ scanned' = [scanned EXCEPT ![p] = m.scanned]
      /\ names' = m.names /\ ses' = ss
      /\ \E live \in {Reachable(names', ses')} : files' = Reclaimed(m.files, live)

\* A step of session s that leaves it as new and its manager as m.
Goes(s, m, new) == Set(Owner[s], m, [ses EXCEPT ![s] = new]) /\ UNCHANGED <<opens, events>>
To(s, m, new) == Goes(s, m, new) /\ UNCHANGED adrift
Hint(p) == pending' = [pending EXCEPT ![p] = TRUE]

-----------------------------------------------------------------------------
\* NewReader: prepare, whose first call reads the directory, then the plan's
\* look into the cache.
Start(u, r) ==
    LET p == Owner[u]
        known == IF scanned[p] THEN M(p) ELSE Reconcile(M(p))
    IN  /\ ses[u].pc = "idle" /\ opens < MaxOpens
        /\ opens' = opens + 1
        /\ \E m \in {known} : \E e \in Evaluate(m) : Set(p, e, [ses EXCEPT ![u] = [Idle EXCEPT !.pc = "list", !.range = r]])
        /\ UNCHANGED <<pending, adrift, events>>

\* openCachedRange lists the entries that overlap the range, by their start.
Before(a, b) == a[1] < b[1] \/ (a[1] = b[1] /\ a[2] < b[2])
List(s) ==
    LET r == ses[s].range
        cands == {c \in Range2 : names[c] # None /\ c[2] > r[1] /\ c[1] < r[2]}
    IN  /\ ses[s].pc = "list"
        /\ To(s, M(Owner[s]), [ses[s] EXCEPT !.pc = "visit", !.list = SetToSortSeq(cands, Before), !.covered = r[1]])
        /\ UNCHANGED pending

\* A merger done with one run.
NextRun(x) == [Idle EXCEPT !.pc = "run", !.rest = x.rest, !.kept = x.kept]

\* A miss, everything given back: the first look goes on to the lock, the
\* second, under it, to the download; a merger discards its placeholder and
\* leaves what is left of the run.
Miss(s, m, x) ==
    LET none == [x EXCEPT !.list = <<>>, !.covered = 0, !.held = <<>>, !.refs = <<>>]
    IN  IF x.fd = None THEN To(s, m, [none EXCEPT !.pc = "lock"])
        ELSE IF s \in User THEN To(s, m, [none EXCEPT !.pc = "truncate"])
        ELSE /\ Goes(s, [m EXCEPT !.files = Unlocked(@, x.fd), !.names[x.range] = None], NextRun(x))
             /\ adrift' = TRUE

Pending(x) == x.list # <<>> /\ x.covered < x.range[2] /\ Head(x.list)[1] <= x.covered

\* Defect: the size is taken for the checksum.
SoundBySize(m, c, i) == TRUE
\* An entry's checksum is verified once per manager.
Sound(m, c, i) == c \in m.verified \/ CRC(m.files[i])

\* The next entry that may extend the cover: opened, its layout read,
\* its checksum verified.  A corrupted one is removed, and the
\* whole look is a miss.
Visit(s) ==
    LET x == ses[s]
        m == M(Owner[s])
        c == Head(x.list)
        i == names[c]
        skip == [x EXCEPT !.list = Tail(@)]
        useful == c[2] > x.covered /\ i # None /\ Complete(c, files[i])
    IN  /\ x.pc = "visit" /\ Pending(x)
        /\ \/ /\ ~useful
              /\ To(s, m, skip)
           \/ /\ useful /\ Sound(m, c, i)
              /\ To(s, [m EXCEPT !.verified = @ \cup {c}],
                    [skip EXCEPT !.pc = "acquire", !.held = Append(@, [path |-> c, inode |-> i])])
           \/ /\ useful /\ ~Sound(m, c, i)
              /\ Miss(s, RemoveEntry(ReleaseAll(m, x.refs), c), [x EXCEPT !.misled = x.fd # None])
        /\ UNCHANGED pending

\* The manager is told of the entry opened.
Track(s) ==
    LET x == ses[s]
        c == Last(x.held).path
    IN  /\ x.pc = "acquire"
        /\ To(s, Acquire(M(Owner[s]), c),
              [x EXCEPT !.pc = "visit", !.refs = Append(@, c),
                        !.covered = IF c[2] < x.range[2] THEN c[2] ELSE x.range[2]])
        /\ UNCHANGED pending

\* The range is covered, or it is not and everything is given back.  Under the
\* flock a hit gives the lock back, unless a merger is about to write.
Look(s) ==
    LET x == ses[s]
        m == M(Owner[s])
        hit == [x EXCEPT !.list = <<>>, !.covered = 0]
        free == [m EXCEPT !.files = Unlocked(@, x.fd)]
    IN  /\ x.pc = "visit" /\ ~Pending(x)
        /\ IF x.covered < x.range[2]
             THEN /\ Miss(s, ReleaseAll(m, x.refs), x)
                  /\ UNCHANGED pending
             ELSE /\ IF s \in Merger
                       THEN To(s, m, [hit EXCEPT !.source = x.held, !.held = <<>>, !.pc = "truncate"])
                       ELSE To(s, free, [hit EXCEPT !.fd = None, !.pc = "read"])
                  /\ IF Len(x.held) > 1 THEN Hint(Owner[s]) ELSE UNCHANGED pending

\* lockChunkCache: the entry file is opened, or created.
LockOpen(s) ==
    LET x == ses[s]
        fresh == CHOOSE i \in Inode : i \notin Reachable(names, ses)
        i == IF names[x.range] # None THEN names[x.range] ELSE fresh
    IN  /\ x.pc = "lock"
        /\ names[x.range] # None \/ Inode \ Reachable(names, ses) # {}
        /\ To(s, [M(Owner[s]) EXCEPT !.names[x.range] = i], [x EXCEPT !.fd = i, !.pc = "flock"])
        /\ UNCHANGED pending

\* Defect: the handle is trusted to back the name still.
LockTakeUnchecked(s) ==
    LET x == ses[s]
        m == M(Owner[s])
    IN  /\ x.pc = "flock" /\ files[x.fd].lock = None
        /\ \/ /\ s \in User
              /\ To(s, [m EXCEPT !.files[x.fd].lock = s], [x EXCEPT !.pc = "list"])
           \/ /\ s \in Merger
              /\ To(s, [m EXCEPT !.files[x.fd].lock = s], [x EXCEPT !.pc = "check"])
        /\ UNCHANGED pending
\* The flock is taken once free; a handle the name no longer leads to is given
\* up, and the name opened again.
LockTake(s) ==
    LET x == ses[s]
        m == M(Owner[s])
    IN  /\ x.pc = "flock" /\ files[x.fd].lock = None
        /\ \/ /\ names[x.range] = x.fd
              /\ To(s, [m EXCEPT !.files[x.fd].lock = s], [x EXCEPT !.pc = IF s \in User THEN "list" ELSE "check"])
           \/ /\ names[x.range] # x.fd
              /\ To(s, m, [x EXCEPT !.fd = None, !.pc = "lock"])
        /\ UNCHANGED pending

\* The context ends the wait, or the retries run out.
LockGiveUp(u) ==
    /\ u \in User /\ ses[u].pc = "flock"
    /\ To(u, M(Owner[u]), Idle)
    /\ UNCHANGED pending

-----------------------------------------------------------------------------
\* newLockedChunkCache: the leftover is truncated, a placeholder header written.
Truncate(s) ==
    LET x == ses[s]
        m == M(Owner[s])
    IN  /\ x.pc = "truncate"
        /\ To(s, [m EXCEPT !.files[x.fd] = [Blank EXCEPT !.head = "placeholder", !.lock = s]],
              [x EXCEPT !.pc = "load", !.misled = FALSE])
        /\ UNCHANGED pending

\* load: one more chunk, from the download or from the source of a merge.
Load(s) ==
    LET x == ses[s]
        m == M(Owner[s])
    IN  /\ x.pc = "load"
        /\ To(s, [m EXCEPT !.files[x.fd].chunks = @ + 1],
              [x EXCEPT !.pc = IF files[x.fd].chunks + 1 = Size(x.range) THEN "seal" ELSE "load"])
        /\ UNCHANGED pending

\* The download fails, before it starts or between two chunks: Done discards
\* the unfinished entry under its lock.
LoadFails(u) ==
    LET x == ses[u]
        m == M(Owner[u])
    IN  /\ u \in User /\ x.pc \in {"truncate", "load"}
        /\ To(u, [m EXCEPT !.files[x.fd] = IF x.pc = "load" THEN Blank ELSE [@ EXCEPT !.lock = None]], Idle)
        /\ UNCHANGED pending

\* seal: the header is patched and the trailer written,
Seal(s) ==
    LET x == ses[s]
    IN  /\ x.pc = "seal"
        /\ To(s, [M(Owner[s]) EXCEPT !.files[x.fd] = [@ EXCEPT !.head = "patched", !.trailer = TRUE]],
              [x EXCEPT !.pc = "publish"])
        /\ UNCHANGED pending

\* the entry tracked before its lock is released,
SealTrack(s) ==
    LET x == ses[s]
        m == Acquire(M(Owner[s]), x.range)
    IN  /\ x.pc = "publish"
        /\ To(s, [m EXCEPT !.verified = @ \cup {x.range}],
              [x EXCEPT !.pc = "unlock", !.refs = Append(@, x.range), !.held = <<[path |-> x.range, inode |-> x.fd]>>])
        /\ UNCHANGED pending

\* and the lock released, overage evicted and the merger told.
SealUnlock(s) ==
    LET x == ses[s]
        free == [M(Owner[s]) EXCEPT !.files = Unlocked(@, x.fd)]
    IN  /\ x.pc = "unlock"
        /\ \E m \in {free} : \E e \in Evaluate(m) : To(s, e, [x EXCEPT !.fd = None, !.pc = "read"])
        /\ Hint(Owner[s])

\* Done: the references go, and what they kept is evicted.
Done(u) ==
    LET x == ses[u]
    IN  /\ u \in User /\ x.pc = "read"
        /\ \E m \in {ReleaseAll(M(Owner[u]), x.refs)} : \E e \in Evaluate(m) : To(u, e, Idle)
        /\ UNCHANGED pending

-----------------------------------------------------------------------------
\* mergeWorker, after the quiet period, and mergeHashDir: the sealed entries.
MergeScan(p) ==
    LET cands == {r \in Range2 : names[r] # None /\ Complete(r, files[names[r]])}
        order(a, b) == a[1] < b[1] \/ (a[1] = b[1] /\ a[2] > b[2])
    IN  /\ ses[p].pc = "idle" /\ pending[p]
        /\ pending' = [pending EXCEPT ![p] = FALSE] /\ adrift' = FALSE
        /\ Goes(p, M(p), [Idle EXCEPT !.pc = "run",
                                    !.rest = IF Cardinality(cands) < 2 THEN <<>> ELSE SetToSortSeq(cands, order)])

\* The maximal runs of touching or overlapping entries: how many entries the
\* first one has, and where it ends.
RunEnd(l, k) == Max({l[i][2] : i \in 1 .. k})
RunLen(l) == CHOOSE k \in DOMAIN l : /\ \A j \in 2 .. k : l[j][1] <= RunEnd(l, j - 1)
                                     /\ k = Len(l) \/ l[k + 1][1] > RunEnd(l, k)

\* mergeRun: a run of one is left alone, a covering entry is reused.  A source
\* that was kept re-arms the hint.
MergeRun(p) ==
    LET x == ses[p]
        k == RunLen(x.rest)
        run == SubSeq(x.rest, 1, k)
        range == <<x.rest[1][1], RunEnd(x.rest, k)>>
        then == [x EXCEPT !.rest = SubSeq(@, k + 1, Len(@))]
    IN  /\ x.pc = "run"
        /\ \/ /\ x.rest = <<>>
              /\ To(p, M(p), Idle)
              /\ IF x.kept THEN Hint(p) ELSE UNCHANGED pending
           \/ /\ x.rest # <<>>
              /\ To(p, M(p), IF k = 1 THEN then
                             ELSE [then EXCEPT !.run = run, !.range = range,
                                               !.pc = IF Contains(run, range) THEN "forget" ELSE "lock"])
              /\ UNCHANGED pending

\* writeMergedEntry: a contender may have sealed the entry meanwhile.
MergeCheck(p) ==
    LET x == ses[p]
        m == M(p)
    IN  /\ x.pc = "check"
        /\ IF Complete(x.range, files[x.fd])
             THEN To(p, [m EXCEPT !.files = Unlocked(@, x.fd)], [x EXCEPT !.fd = None, !.pc = "forget"])
             ELSE To(p, m, [x EXCEPT !.pc = "list"])
        /\ UNCHANGED pending

\* Done of the merged entry and of its source.
MergeDone(p) ==
    LET x == ses[p]
    IN  /\ p \in Merger /\ x.pc = "read"
        /\ \E m \in {ReleaseAll(M(p), x.refs)} : \E e \in Evaluate(m) :
             To(p, e, [x EXCEPT !.held = <<>>, !.source = <<>>, !.refs = <<>>, !.pc = "forget"])
        /\ UNCHANGED pending

\* Defect: a source that is still in use is left behind for good.
ForgetQuietly(p) ==
    LET x == ses[p]
        m == M(p)
        c == Head(x.run)
        used == Tracked(m.lru, c) /\ m.lru[At(m.lru, c)].refs > 0
    IN  /\ x.pc = "forget"
        /\ To(p, m, IF x.run = <<>> THEN NextRun(x)
                    ELSE IF c = x.range \/ used THEN [x EXCEPT !.run = Tail(@)]
                    ELSE [x EXCEPT !.pc = "remove"])
        /\ UNCHANGED pending
\* forgetIfIdle: a source in use is kept,
Forget(p) ==
    LET x == ses[p]
        m == M(p)
        c == Head(x.run)
        used == Tracked(m.lru, c) /\ m.lru[At(m.lru, c)].refs > 0
    IN  /\ x.pc = "forget"
        /\ To(p, m, IF x.run = <<>> THEN NextRun(x)
                    ELSE IF c = x.range THEN [x EXCEPT !.run = Tail(@)]
                    ELSE IF used THEN [x EXCEPT !.run = Tail(@), !.kept = TRUE]
                    ELSE [x EXCEPT !.pc = "remove"])
        /\ UNCHANGED pending

\* any other unlinked, outside the manager's lock,
ForgetRemove(p) ==
    LET x == ses[p]
        m == RemoveEntry(M(p), Head(x.run))
    IN  /\ x.pc = "remove"
        /\ To(p, m, IF Gone(m, Head(x.run)) THEN [x EXCEPT !.pc = "drop"]
                    ELSE [x EXCEPT !.run = Tail(@), !.kept = TRUE, !.pc = "forget"])
        /\ UNCHANGED pending

\* and then dropped from tracking.
ForgetDrop(p) ==
    LET x == ses[p]
        m == M(p)
        c == Head(x.run)
        size == IF Tracked(m.lru, c) THEN Size(c) ELSE 0
    IN  /\ x.pc = "drop"
        /\ To(p, [m EXCEPT !.lru = Others(@, c), !.total = @ - size, !.verified = @ \ {c}],
              [x EXCEPT !.run = Tail(@), !.pc = "forget"])
        /\ UNCHANGED pending

-----------------------------------------------------------------------------
\* Processes die: their locks are released, their memory is gone.
Die(ps) ==
    LET ss == [s \in Session |-> IF Owner[s] \in ps THEN Idle ELSE ses[s]]
    IN  /\ events < MaxEvents
        /\ events' = events + 1
        /\ ses' = ss
        /\ lru' = [p \in Proc |-> IF p \in ps THEN <<>> ELSE lru[p]]
        /\ total' = [p \in Proc |-> IF p \in ps THEN 0 ELSE total[p]]
        /\ verified' = [p \in Proc |-> IF p \in ps THEN {} ELSE verified[p]]
        /\ paused' = [p \in Proc |-> p \notin ps /\ paused[p]]
        /\ scanned' = [p \in Proc |-> p \notin ps /\ scanned[p]]
        /\ pending' = [p \in Proc |-> p \notin ps /\ pending[p]]
        /\ adrift' = TRUE
        /\ UNCHANGED <<names, opens>>
Freed(ps, fs) ==
    [i \in Inode |-> IF \E s \in Session : Owner[s] \in ps /\ fs[i].lock = s THEN [fs[i] EXCEPT !.lock = None] ELSE fs[i]]

Crash(p) == Die({p}) /\ files' = Reclaimed(Freed({p}, files), Reachable(names, ses'))

\* Nothing is synced: a power loss may leave any files with the right size and
\* the wrong bytes.
Damaged == [Blank EXCEPT !.head = "patched", !.trailer = TRUE, !.ok = FALSE]
PowerLoss ==
    /\ Die(Proc)
    /\ \E hit \in SUBSET {names[r] : r \in Range2} \ {None} :
         files' = [i \in Inode |-> IF i \in hit THEN Damaged
                                  ELSE Reclaimed(Freed(Proc, files), Reachable(names, ses'))[i]]

Step(s) ==
    \/ List(s) \/ Visit(s) \/ Track(s) \/ Look(s) \/ LockOpen(s) \/ LockTake(s) \/ Truncate(s)
    \/ Load(s) \/ Seal(s) \/ SealTrack(s) \/ SealUnlock(s) \/ Done(s)
MergeStep(p) ==
    \/ MergeScan(p) \/ MergeRun(p) \/ MergeCheck(p) \/ MergeDone(p) \/ Forget(p) \/ ForgetRemove(p) \/ ForgetDrop(p)

Next ==
    \/ \E u \in User : LockGiveUp(u) \/ LoadFails(u) \/ \E r \in Wanted[u] : Start(u, r)
    \/ \E s \in Session : Step(s)
    \/ \E p \in Proc : MergeStep(p) \/ Crash(p)
    \/ PowerLoss

Spec == Init /\ [][Next]_vars

-----------------------------------------------------------------------------
TypeOK ==
    /\ \A r \in Range2 : names[r] \in Inode \cup {None}
    /\ \A i \in Inode : files[i].chunks \in 0 .. N /\ files[i].lock \in Session \cup {None}
    /\ \A p \in Proc : total[p] \in 0 .. Cardinality(Range2) * N /\ verified[p] \subseteq Range2

\* What a session has adopted; an entry truncated by a session that has not
\* looked at it; an unsealed entry under a name its manager has verified before.
Adopted(s) == ToSet(ses[s].held \o ses[s].source)
Blindly(i) == \E s \in Session : ses[s].pc = "truncate" /\ ses[s].misled /\ ses[s].fd = i
Trusted(s, h) == h.path \in verified[Owner[s]] /\ files[h.inode].head = "placeholder"

\* "Readers never adopt incomplete files" (chunkCache): a reader adopts only
\* entries that are sealed and sound, and what it has adopted stays so, but for
\* two steps of the code.  A manager verifies a name once (wasVerified), so it
\* takes over the file somebody else unlinked and is writing anew while that is
\* complete by its size.  And a session whose look under its lock stopped at
\* another entry, complete by its size and unsound, truncates its own entry
\* (newLockedChunkCache) without having looked at it.
AdoptsSealed ==
    [][\A s \in Session : \A h \in Adopted(s)' :
         \/ Sealed(h.path, files'[h.inode])
         \/ h \notin Adopted(s) /\ Trusted(s, h)
         \/ h \in Adopted(s) /\ (Blindly(h.inode) \/ ~Sealed(h.path, files[h.inode]))]_vars

\* An active writer is never disturbed: the name it writes leads to its file.
WriterNamed ==
    \A s \in Session : ses[s].pc \in {"load", "seal", "publish", "unlock"}
                         => names[ses[s].range] = ses[s].fd /\ files[ses[s].fd].lock = s

\* A manager's total is the sum of what it tracks.
TotalExact ==
    \A p \in Proc : total[p] = Bytes({lru[p][i].path : i \in DOMAIN lru[p]})

\* The last user of a process leaves its manager within its capacity.  Two
\* things stand in the way: an entry that is being written or checked by
\* somebody, and an eviction pause no release lifted, because a merger or a
\* reconcile had dropped what the user held (forgetIfIdle looks at the references
\* before it unlinks).
LastDoneEvicts ==
    [][\A u \in User :
         LET p == Owner[u] IN
         /\ ses[u].pc = "read" /\ ses'[u].pc = "idle"
         /\ \A s \in Session \ {u} : Owner[s] = p => ses[s].pc = "idle"
         => \/ total'[p] <= Capacity
            \/ \E r \in Range2 : names[r] # None /\ files[names[r]].lock # None
            \/ paused[p] /\ \A r \in ToSet(ses[u].refs) : ~Tracked(lru[p], r)]_vars

\* Two complete entries overlap or are adjacent.
Touching == \E a, b \in Range2 : /\ a # b /\ a[1] <= b[1] /\ b[1] <= a[2]
                                 /\ names[a] # None /\ names[b] # None
                                 /\ Complete(a, files[names[a]]) /\ Complete(b, files[names[b]])

\* At rest, with no hint left, the directory holds no two sealed entries that
\* touch: every seal and every kept source has told a merger
\* (noteMergeCandidate), which merged them or was told again.  The exceptions
\* last until the next pass: a process died with its hints, or a source vanished
\* while its run was merged, and the rest of the run is left to eviction
\* (mergeHashDir).
QuietMerged ==
    (\A s \in Session : ses[s].pc = "idle") /\ (\A p \in Proc : ~pending[p]) /\ ~adrift => ~Touching

\* Writers are left alone, and each manager's account of the directory adds up.
WritersSound == TypeOK /\ WriterNamed /\ TotalExact
=============================================================================
