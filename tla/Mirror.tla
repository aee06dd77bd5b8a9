------------------------------- MODULE Mirror -------------------------------
(***************************************************************************)
(* The mirror's index (mirror/resolve.go, branch.go, task.go, index.go,    *)
(* sweep.go): requests pin a branch to its upstream commit, find or ingest *)
(* the file's entry and keep the manifests and the branch pointer on disk  *)
(* in step, while files are unlinked from storage, the upstream moves, a   *)
(* sweep drops dead entries, and the process dies.  One repository with    *)
(* one branch; the download itself is Spool's and is a success or a        *)
(* failure here.  A step is one critical section of mu, one file           *)
(* operation, one probe or one look into storage.                          *)
(***************************************************************************)
EXTENDS Integers, FiniteSets, SequencesExt

CONSTANTS
    MaxReq,       \* bound on concurrent Resolve calls
    Path,         \* file paths of the repository
    Real,         \* the upstream's commits
    Pseudo,       \* pseudoCommit: stands in for an upstream without commits
    Version,      \* what a branch without commits serves over time
    Branch,       \* the branch's name
    None,
    MaxFailed,    \* maxFailedEntries
    MaxCalls,     \* bound on the calls made
    MaxEvents     \* bound on what happens around the mirror

ASSUME MirrorAssumption ==
    /\ Branch \notin Real \cup {Pseudo} /\ Pseudo \notin Real
    /\ MaxReq \in Nat /\ MaxFailed \in Nat \ {0} /\ MaxCalls \in Nat /\ MaxEvents \in Nat

Req == 1 .. MaxReq
Commit == Real \cup {Pseudo}
Rev == Commit \cup {Branch}
Key == Rev \X Path  \* resolveKey

VARIABLES
    head,       \* the commit the upstream's branch is at, Pseudo when it has none
    version,    \* the branch's contents
    stored,     \* the contents in storage
    entries, tasks, commits, branch, failed,  \* the index in memory
    manifest,   \* commit -> its manifest on disk
    pointer,    \* the branch pointer on disk
    temps,      \* the temp files on disk
    unread,     \* the manifests that cannot be read,
    lapsed,     \* and those that could not at some time
    dirty,      \* the files known to differ from memory: their last write failed or was
                \* refused, or memory outranked them; "source" once a source was not written
    swept,      \* the entries a sweep dropped from disk alone
    persistMu,  \* the holder of persistMu
    req,        \* request -> what it does
    sweep,      \* what the sweeper does
    ids,        \* identities given to entries
    calls, events

mem == <<entries, tasks, commits, branch, failed>>
disk == <<manifest, pointer, temps, unread, lapsed, dirty, swept>>
upstream == <<head, version>>
vars == <<upstream, stored, mem, disk, persistMu, req, sweep, ids, calls, events>>

Sweeper == 0  \* among the holders of persistMu

\* fileEntry: a pointer is its id.  "old" entries are due for revalidation,
\* "due" failures for a retry.
Ready(h, i) == [state |-> "ready", hash |-> h, id |-> i, old |-> FALSE, due |-> FALSE, source |-> None]
Failure(i, src) == [state |-> "failed", hash |-> None, id |-> i, old |-> FALSE, due |-> FALSE, source |-> src]
IsReady(e) == e # None /\ e.state = "ready"
IsFailed(e) == e # None /\ e.state = "failed"
InBackoff(e) == IsFailed(e) /\ ~e.due

\* Two pointers to entries are equal.
Same(e, f) == IF e = None \/ f = None THEN e = f ELSE e.id = f.id

NoFiles == [p \in Path |-> None]
Empty(m) == m.files = NoFiles /\ m.source = None

Idle == [pc |-> "idle", key |-> None, src |-> None, path |-> None, pre |-> None, e |-> None,
         prev |-> None, flight |-> None, image |-> None, then |-> None, dead |-> {}]

\* What the upstream serves for a revision: commits never change.
Upstream(rev) == IF rev \in Real THEN rev ELSE IF head \in Real THEN head ELSE version
Content == Real \cup Version

\* A new index, or one a process left that had pinned the branch and ingested
\* files that storage has since lost, perhaps dying in a write and with its
\* manifest out of reach for now.
Init ==
    /\ head \in {Pseudo, CHOOSE c \in Real : TRUE} /\ version = CHOOSE v \in Version : TRUE
    /\ \/ /\ manifest = [c \in Commit |-> None] /\ pointer = None /\ stored = {} /\ ids = 0
       \/ /\ manifest = [c \in Commit |-> IF c # head THEN None ELSE
                           [source |-> IF c = Pseudo THEN Branch ELSE None,
                            files |-> [p \in Path |-> [Ready(Upstream(Branch), 0) EXCEPT !.old = TRUE]]]]
          /\ pointer = [commit |-> head, old |-> TRUE] /\ stored = {} /\ ids = 1
    /\ entries = [k \in Key |-> None] /\ tasks = [k \in Key |-> None]
    /\ commits = [c \in Commit |-> None] /\ branch = None /\ failed = <<>>
    /\ temps \in {{}, IF pointer = None THEN {} ELSE {Branch}}
    /\ unread = (IF temps = {} THEN {} ELSE {head}) /\ lapsed = unread
    /\ dirty = {} /\ swept = {}
    /\ persistMu = None
    /\ req = [r \in Req |-> Idle] /\ sweep = Idle
    /\ calls = 0 /\ events = 0

Goto(r, stage) == req' = [req EXCEPT ![r].pc = stage]
Answer(r) == req' = [req EXCEPT ![r] = Idle]

-----------------------------------------------------------------------------
\* The failure LRU: touching a key evicts the least recently used past the cap,
\* and an evicted failure leaves the index.
Touched(lru, k) ==
    LET moved == <<k>> \o SelectSeq(lru, LAMBDA q : q # k)
    IN  SubSeq(moved, 1, IF Len(moved) < MaxFailed THEN Len(moved) ELSE MaxFailed)
Forgotten(lru, k) == SelectSeq(lru, LAMBDA q : q # k)

\* Defect: an evicted failure stays in the index.
EvictedLeak(es, lru) == es
\* OnEvicted.
Evicted(es, lru) ==
    [k \in Key |-> IF IsFailed(es[k]) /\ \A i \in DOMAIN lru : lru[i] # k THEN None ELSE es[k]]

\* loadCommit: a manifest on disk becomes resident; memory, an ingest in
\* flight included, outranks what it holds.  One that cannot be read leaves the
\* state as it was, to be tried again.
NoState == [source |-> None, files |-> NoFiles, loaded |-> FALSE]
Load(c, held, es) ==
    LET cs == IF held # None THEN held ELSE NoState
        man == manifest[c]
        new(p) == man.files[p] # None /\ es[<<c, p>>] = None /\ tasks[<<c, p>>] = None
        behind == \E p \in Path : man.files[p] # None /\ ~new(p)
    IN  IF cs.loaded \/ man = None \/ c \in unread
          THEN [cs |-> [cs EXCEPT !.loaded = @ \/ man = None], entries |-> es, resident |-> held # None, dirty |-> dirty]
          ELSE [cs |-> [source |-> IF cs.source = None THEN man.source ELSE cs.source,
                        files |-> [p \in Path |-> IF new(p) THEN man.files[p] ELSE cs.files[p]], loaded |-> TRUE],
                entries |-> [k \in Key |-> IF k[1] = c /\ new(k[2]) THEN man.files[k[2]] ELSE es[k]],
                resident |-> TRUE, dirty |-> IF behind THEN dirty \cup {c} ELSE dirty]
Loaded(c) == Load(c, commits[c], entries)

\* lookup: a newly discovered source invalidates source-less failures.
Lookup(es, key, src) ==
    IF src # key /\ IsFailed(es[key]) /\ es[key].source # src[1] THEN src ELSE key

\* loadBranch.
Pin == IF branch # None THEN branch
       ELSE IF pointer # None THEN [commit |-> pointer.commit, old |-> pointer.old, backoff |-> FALSE]
       ELSE None

\* recordFailure and failTask: the failure of a pinned key is also its
\* branch's, unless the branch has moved on.
FailTask(key, src) ==
    LET shared == src # key /\ (Pin = None \/ Pin.commit = key[1])
        f == Failure(ids, src[1])
        lru1 == Touched(failed, IF shared THEN src ELSE key)
        lru2 == IF shared THEN Touched(lru1, key) ELSE lru1
        es == [entries EXCEPT ![key] = f, ![src] = IF shared \/ src = key THEN f ELSE @]
    IN  /\ entries' = Evicted(es, lru2)
        /\ failed' = lru2
        /\ branch' = IF src # key THEN Pin ELSE branch
        /\ ids' = ids + 1

-----------------------------------------------------------------------------
\* A call, under the first number that is free.
Resolve(r, rev, p) ==
    /\ req[r].pc = "idle" /\ calls < MaxCalls
    /\ \A q \in 1 .. r - 1 : req[q].pc # "idle"
    /\ calls' = calls + 1
    /\ req' = [req EXCEPT ![r] = [Idle EXCEPT !.key = <<rev, p>>, !.path = p,
                                              !.pc = IF rev = Branch THEN "branch" ELSE "acquire"]]
    /\ UNCHANGED <<upstream, stored, mem, disk, persistMu, sweep, ids, events>>

\* A pin that needs no probe.
Usable(k) == Pin # None /\ (~Pin.old \/ (entries[k] = None /\ Pin.backoff))

\* What a flight ended with, for the request that led it and those that joined.
Share(r, f, upd(_)) ==
    req' = [q \in Req |-> IF q = r \/ (req[q].pc = "join" /\ req[q].flight = f) THEN upd(q) ELSE req[q]]
Flying(f) == \E q \in Req : req[q].flight = f /\ req[q].pc # "join"

\* branchCommit, before and inside its flight: a failure in backoff answers,
\* a usable pin is taken, else the upstream is probed once for all.
BranchCommit(r) ==
    /\ req[r].pc = "branch"
    /\ LET k == req[r].key
           f == <<"branch", k>>
       IN  \/ /\ InBackoff(entries[k])
              /\ failed' = Touched(failed, k) /\ entries' = Evicted(entries, failed')
              /\ Answer(r)
              /\ UNCHANGED branch
           \/ /\ ~InBackoff(entries[k])
              /\ branch' = Pin
              /\ \/ /\ Usable(k)
                    /\ req' = [req EXCEPT ![r].key = <<Pin.commit, req[r].path>>, ![r].pc = "acquire"]
                 \/ /\ ~Usable(k) /\ ~Flying(f)
                    /\ req' = [req EXCEPT ![r].flight = f, ![r].prev = entries[k], ![r].pc = "probe"]
                 \/ /\ ~Usable(k) /\ Flying(f)
                    /\ req' = [req EXCEPT ![r].flight = f, ![r].pc = "join"]
              /\ UNCHANGED <<entries, failed>>
    /\ UNCHANGED <<upstream, stored, tasks, commits, disk, persistMu, sweep, ids, calls, events>>

\* The probe of the branch failed: a transient fault keeps an existing pin
\* between bounded retries, anything else is the branch's failure.
BranchFails(r) ==
    /\ req[r].pc = "probe"
    /\ LET k == req[r].key
           f == req[r].flight
       IN  \/ /\ branch # None /\ req[r].prev = None
              /\ branch' = [branch EXCEPT !.backoff = TRUE]
              /\ Share(r, f, LAMBDA q : [req[q] EXCEPT !.key = <<branch.commit, req[q].path>>,
                                                       !.flight = None, !.pc = "acquire"])
              /\ UNCHANGED <<entries, failed, ids>>
           \/ /\ failed' = Touched(failed, k)
              /\ entries' = Evicted([entries EXCEPT ![k] = Failure(ids, None)], failed')
              /\ ids' = ids + 1
              /\ Share(r, f, LAMBDA q : Idle)
              /\ UNCHANGED branch
    /\ UNCHANGED <<upstream, stored, tasks, commits, disk, persistMu, sweep, calls, events>>

\* The probe answered: the commit it names, kept with the request.
BranchAnswers(r) ==
    /\ req[r].pc = "probe"
    /\ req' = [req EXCEPT ![r].e = head, ![r].pre = Upstream(Branch), ![r].pc = IF head = Pseudo THEN "source" ELSE "pin"]
    /\ UNCHANGED <<upstream, stored, mem, disk, persistMu, sweep, ids, calls, events>>

\* The branch is pinned in memory, the failure this probe retried retired.
SetPin(r) ==
    /\ req[r].pc = "pin"
    /\ LET k == req[r].key
           same == Same(entries[k], req[r].prev)
       IN  /\ entries' = IF same THEN [entries EXCEPT ![k] = None] ELSE entries
           /\ failed' = IF same THEN Forgotten(failed, k) ELSE failed
    /\ branch' = [commit |-> req[r].e, old |-> FALSE, backoff |-> FALSE]
    /\ Goto(r, "pointer")
    /\ UNCHANGED <<upstream, stored, tasks, commits, disk, persistMu, sweep, ids, calls, events>>

\* The end of a branch flight: its probe stands in for the ingest's.
Pinned(r) ==
    /\ req[r].pc = "pinned"
    /\ Share(r, req[r].flight,
             LAMBDA q : [req[q] EXCEPT !.key = <<req[r].e, req[q].path>>, !.flight = None, !.prev = None,
                                       !.e = None, !.pre = req[r].pre, !.pc = "acquire"])
    /\ UNCHANGED <<upstream, stored, mem, disk, persistMu, sweep, ids, calls, events>>

-----------------------------------------------------------------------------
\* Writes of the index, under persistMu: a snapshot taken under mu, a temp file
\* and its rename.  An image is [name, man]; what follows is req[r].then.

\* snapshotCommit, whose state a writer may have to load first.
Snapshot(c, cs) == [name |-> c, man |-> [source |-> cs.source, files |-> cs.files]]

\* errManifestUnread: nothing is written over a manifest that was never read.
Refused(c) == {c} \cup (IF c = Pseudo /\ manifest[c].source = None THEN {"source"} ELSE {})

\* The caller goes on with what follows the write, or without one.
After(r) == [req EXCEPT ![r] = IF @.then = None THEN Idle
                               ELSE [@ EXCEPT !.pc = req[r].then, !.image = None, !.then = None]]

\* persistCommit.
Persist(r) ==
    /\ req[r].pc = "persist" /\ persistMu = None
    /\ LET c == req[r].key[1]
           l == Loaded(c)
       IN  /\ commits' = IF l.resident THEN [commits EXCEPT ![c] = l.cs] ELSE commits
           /\ entries' = l.entries
           /\ \/ /\ l.cs.loaded
                 /\ persistMu' = r
                 /\ req' = [req EXCEPT ![r].pc = "write", ![r].image = Snapshot(c, l.cs)]
                 /\ dirty' = l.dirty
              \/ /\ ~l.cs.loaded
                 /\ req' = After(r)
                 /\ dirty' = dirty \cup Refused(c)
                 /\ UNCHANGED persistMu
    /\ UNCHANGED <<upstream, stored, tasks, branch, failed, manifest, pointer, temps, unread, lapsed, swept, sweep, ids, calls, events>>

\* ensureSource: the pseudo commit's source, written only when it is new.
EnsureSource(r) ==
    /\ req[r].pc = "source" /\ persistMu = None
    /\ LET l == Loaded(Pseudo)
           cs == [l.cs EXCEPT !.source = Branch]
       IN  /\ commits' = [commits EXCEPT ![Pseudo] = cs]
           /\ entries' = l.entries
           /\ \/ /\ l.cs.source = None /\ cs.loaded
                 /\ persistMu' = r
                 /\ req' = [req EXCEPT ![r].pc = "write", ![r].then = "pin", ![r].image = Snapshot(Pseudo, cs)]
                 /\ dirty' = l.dirty
              \/ /\ l.cs.source # None \/ ~cs.loaded
                 /\ Goto(r, "pin")
                 /\ dirty' = IF l.cs.source = None THEN dirty \cup Refused(Pseudo) ELSE l.dirty
                 /\ UNCHANGED persistMu
    /\ UNCHANGED <<upstream, stored, tasks, branch, failed, manifest, pointer, temps, unread, lapsed, swept, sweep, ids, calls, events>>

\* persistBranch.
PersistBranch(r) ==
    /\ req[r].pc = "pointer" /\ persistMu = None
    /\ persistMu' = r
    /\ req' = [req EXCEPT ![r].pc = "write", ![r].then = "pinned",
                          ![r].image = [name |-> Branch, man |-> [commit |-> branch.commit, old |-> branch.old]]]
    /\ UNCHANGED <<upstream, stored, mem, disk, sweep, ids, calls, events>>

\* writeCommit: an empty manifest without a source goes, and its state with it.
RemoveManifest(c) ==
    /\ manifest' = [manifest EXCEPT ![c] = None] /\ unread' = unread \ {c}
    /\ commits' = IF commits[c] # None /\ Empty(commits[c]) THEN [commits EXCEPT ![c] = None] ELSE commits

\* Defect: persistMu stays locked.
WrittenLocked(r) ==
    /\ UNCHANGED persistMu
    /\ req' = After(r)
\* The write is over.
Written(r) ==
    /\ persistMu' = IF persistMu = r THEN None ELSE persistMu
    /\ req' = After(r)

\* writeJSON, first half; or the removal, which may fail.
Write(r) ==
    /\ req[r].pc = "write"
    /\ LET image == req[r].image
           gone == image.name # Branch /\ Empty(image.man)
       IN  \/ /\ gone
              /\ \/ /\ RemoveManifest(image.name)
                    /\ dirty' = dirty \ {image.name}
                    /\ UNCHANGED events
                 \/ /\ events < MaxEvents /\ events' = events + 1
                    /\ dirty' = dirty \cup {image.name}
                    /\ UNCHANGED <<manifest, commits, unread>>
              /\ Written(r)
              /\ UNCHANGED temps
           \/ /\ ~gone
              /\ temps' = temps \cup {image.name}
              /\ Goto(r, "rename")
              /\ UNCHANGED <<manifest, commits, unread, dirty, persistMu, events>>
    /\ UNCHANGED <<upstream, stored, entries, tasks, branch, failed, pointer, lapsed, swept, sweep, ids, calls>>

\* writeJSON, second half.
Renamed(image) ==
    /\ temps' = temps \ {image.name} /\ dirty' = dirty \ {image.name} /\ unread' = unread \ {image.name}
    /\ IF image.name = Branch
         THEN pointer' = image.man /\ UNCHANGED manifest
         ELSE manifest' = [manifest EXCEPT ![image.name] = image.man] /\ UNCHANGED pointer

\* A failing write leaves the old file, and goes unreported.
RenameFails(image) ==
    /\ temps' = temps \ {image.name}
    /\ dirty' = dirty \cup {image.name} \cup (IF image.name = Pseudo THEN {"source"} ELSE {})
    /\ UNCHANGED <<manifest, pointer, unread>>

Rename(r) ==
    /\ req[r].pc = "rename"
    /\ \/ Renamed(req[r].image) /\ UNCHANGED events
       \/ RenameFails(req[r].image) /\ events < MaxEvents /\ events' = events + 1
    /\ Written(r)
    /\ UNCHANGED <<upstream, stored, mem, lapsed, swept, sweep, ids, calls>>

-----------------------------------------------------------------------------
\* acquire under mu: the ingest in flight, the entry, or a new ingest.
Acquire(r) ==
    /\ req[r].pc = "acquire"
    /\ LET key == req[r].key
           l == Loaded(key[1])
           src == IF l.cs.source # None THEN <<l.cs.source, key[2]>> ELSE key
           at == Lookup(l.entries, key, src)
           e == l.entries[at]
           stale == /\ IsReady(e) /\ src # key /\ e.old
                    /\ ~InBackoff(l.entries[src]) /\ (branch = None \/ ~branch.backoff)
       IN  /\ commits' = IF l.resident THEN [commits EXCEPT ![key[1]] = l.cs] ELSE commits
           /\ failed' = IF IsFailed(e) THEN Touched(failed, at) ELSE failed
           /\ entries' = Evicted(l.entries, failed')
           /\ dirty' = l.dirty
           /\ IF tasks[key] # None \/ InBackoff(e)
                THEN Answer(r)
                ELSE req' = [req EXCEPT ![r].src = src, ![r].e = e,
                                        ![r].pc = CASE stale                    -> "revalidate"
                                                    [] IsReady(e) /\ ~stale -> "live"
                                                    [] ~IsReady(e)              -> "start"]
    /\ UNCHANGED <<upstream, stored, tasks, branch, manifest, pointer, temps, unread, lapsed, swept, persistMu, sweep, ids, calls, events>>

\* The content a probe names, the branch flight's when it made one.
Probed(r) == IF req[r].pre # None THEN req[r].pre ELSE Upstream(req[r].src[1])

\* revalidate: a changed etag drops the entry, an upstream error keeps it.
Revalidate(r) ==
    /\ req[r].pc = "revalidate"
    /\ LET key == req[r].key
           same == req[r].e.hash = Probed(r)
           fresh == [req[r].e EXCEPT !.old = FALSE]
       IN  \/ /\ req[r].pre = None /\ Goto(r, "live")
              /\ UNCHANGED <<entries, commits>>
           \/ /\ ~same /\ Goto(r, "drop")
              /\ UNCHANGED <<entries, commits>>
           \/ /\ same
              /\ entries' = [k \in Key |-> IF Same(entries[k], req[r].e) THEN fresh ELSE entries[k]]
              /\ commits' = [c \in Commit |->
                   IF commits[c] = None THEN None
                   ELSE [commits[c] EXCEPT !.files =
                          [p \in Path |-> IF Same(@[p], req[r].e) THEN fresh ELSE @[p]]]]
              /\ req' = [req EXCEPT ![r].e = fresh, ![r].pc = "persist", ![r].then = "live"]
    /\ UNCHANGED <<upstream, stored, tasks, branch, failed, disk, persistMu, sweep, ids, calls, events>>

\* entryLive.
Live(r) ==
    /\ req[r].pc = "live"
    /\ IF req[r].e.hash \in stored THEN Answer(r) ELSE Goto(r, "drop")
    /\ UNCHANGED <<upstream, stored, mem, disk, persistMu, sweep, ids, calls, events>>

\* Defect: the drop is not written out.
DropEntryUnwritten(r) ==
    /\ req[r].pc = "drop"
    /\ LET key == req[r].key
           l == Loaded(key[1])
       IN  IF Same(entries[key], req[r].e)
             THEN /\ entries' = [l.entries EXCEPT ![key] = None]
                  /\ commits' = IF l.resident THEN [commits EXCEPT ![key[1]] = [l.cs EXCEPT !.files[key[2]] = None]]
                                ELSE commits
                  /\ dirty' = l.dirty
             ELSE UNCHANGED <<entries, commits, dirty>>
    /\ Goto(r, "start")
    /\ UNCHANGED <<upstream, stored, tasks, branch, failed, manifest, pointer, temps, unread, lapsed, swept, persistMu, sweep, ids, calls, events>>
\* dropEntry.
DropEntry(r) ==
    /\ req[r].pc = "drop"
    /\ LET key == req[r].key
           l == Loaded(key[1])
       IN  IF Same(entries[key], req[r].e)
             THEN /\ entries' = [l.entries EXCEPT ![key] = None]
                  /\ commits' = IF l.resident THEN [commits EXCEPT ![key[1]] = [l.cs EXCEPT !.files[key[2]] = None]]
                                ELSE commits
                  /\ dirty' = l.dirty
             ELSE UNCHANGED <<entries, commits, dirty>>
    /\ req' = [req EXCEPT ![r].pc = "persist", ![r].then = "start"]
    /\ UNCHANGED <<upstream, stored, tasks, branch, failed, manifest, pointer, temps, unread, lapsed, swept, persistMu, sweep, ids, calls, events>>

\* startTask: one flight per key looks again before it probes.
StartTask(r) ==
    /\ req[r].pc = "start"
    /\ LET key == req[r].key
           f == <<"file", key>>
           at == Lookup(entries, key, req[r].src)
           e == entries[at]
       IN  \/ /\ Flying(f)
              /\ req' = [req EXCEPT ![r].flight = f, ![r].pc = "join"]
              /\ UNCHANGED <<entries, failed>>
           \/ /\ ~Flying(f)
              /\ failed' = IF IsFailed(e) THEN Touched(failed, at) ELSE failed
              /\ entries' = Evicted(entries, failed')
              /\ IF tasks[key] # None \/ IsReady(e) \/ InBackoff(e)
                   THEN Answer(r)
                   ELSE req' = [req EXCEPT ![r].flight = f, ![r].prev = entries'[req[r].src], ![r].pc = "ingest"]
    /\ UNCHANGED <<upstream, stored, tasks, commits, branch, disk, persistMu, sweep, ids, calls, events>>

\* The flight's probe: a failure, content storage holds, or a task that is
\* registered, handed to every request of the flight, and runs.
Ingest(r) ==
    /\ req[r].pc = "ingest"
    /\ LET h == Probed(r)
       IN  \/ /\ req[r].pre = None
              /\ FailTask(req[r].key, req[r].src)
              /\ Share(r, req[r].flight, LAMBDA q : Idle)
              /\ UNCHANGED <<stored, tasks>>
           \/ /\ req' = [req EXCEPT ![r].e = h, ![r].pc = "publish"]
              /\ h \in stored
              /\ UNCHANGED <<stored, entries, tasks, branch, failed, ids>>
           \/ /\ tasks' = [tasks EXCEPT ![req[r].key] = r]
              /\ Share(r, req[r].flight,
                       LAMBDA q : IF q = r THEN [req[r] EXCEPT !.e = h, !.flight = None, !.pc = "run"] ELSE Idle)
              /\ UNCHANGED <<stored, entries, branch, failed, ids>>
    /\ UNCHANGED <<upstream, commits, disk, persistMu, sweep, calls, events>>

\* runTask: the download and its ingest, or its failure.
RunTask(r) ==
    /\ req[r].pc = "run"
    /\ \/ /\ stored' = stored \cup {req[r].e}
          /\ Goto(r, "publish")
          /\ UNCHANGED <<entries, tasks, branch, failed, ids>>
       \/ /\ FailTask(req[r].key, req[r].src)
          /\ tasks' = [tasks EXCEPT ![req[r].key] = None]
          /\ Answer(r)
          /\ UNCHANGED stored
    /\ UNCHANGED <<upstream, commits, disk, persistMu, sweep, calls, events>>

\* publish under mu: the failure this ingest retried is retired.
Publish(r) ==
    /\ req[r].pc = "publish"
    /\ LET key == req[r].key
           src == req[r].src
           l == Loaded(key[1])
           e == Ready(req[r].e, ids)
           same == Same(l.entries[src], req[r].prev)
       IN  /\ entries' = [l.entries EXCEPT ![src] = IF same THEN None ELSE @, ![key] = e]
           /\ failed' = Forgotten(IF same THEN Forgotten(failed, src) ELSE failed, key)
           /\ commits' = [commits EXCEPT ![key[1]] = [l.cs EXCEPT !.files[key[2]] = e]]
           /\ tasks' = [tasks EXCEPT ![key] = None]
           /\ dirty' = l.dirty
    /\ ids' = ids + 1
    /\ Share(r, req[r].flight,
             LAMBDA q : IF q = r THEN [req[r] EXCEPT !.flight = None, !.pc = "persist"] ELSE Idle)
    /\ UNCHANGED <<upstream, stored, branch, manifest, pointer, temps, unread, lapsed, swept, persistMu, sweep, calls, events>>

-----------------------------------------------------------------------------
\* sweepManifest: the entries memory holds of a manifest, or, when no state
\* is resident, those on disk.  One that cannot be read, or whose state could
\* not be loaded, is left alone.
SweepRead(c) ==
    /\ sweep.pc = "idle" /\ manifest[c] # None /\ events < MaxEvents
    /\ c \notin unread /\ (commits[c] # None => commits[c].loaded)
    /\ events' = events + 1
    /\ sweep' = [Idle EXCEPT !.pc = "judge", !.key = c,
                             !.src = IF commits[c] # None THEN "memory" ELSE "disk",
                             !.image = IF commits[c] # None THEN commits[c].files ELSE manifest[c].files]
    /\ UNCHANGED <<upstream, stored, mem, disk, persistMu, req, ids, calls>>

\* Their liveness, judged without a lock.
SweepJudge ==
    /\ sweep.pc = "judge"
    /\ sweep' = [sweep EXCEPT !.pc = "lock", !.prev = ids,
                              !.dead = {p \in Path : sweep.image[p] # None /\ sweep.image[p].hash \notin stored}]
    /\ UNCHANGED <<upstream, stored, mem, disk, persistMu, req, ids, calls, events>>

\* The manifest without the files of dropped.
Without(man, dropped) == [man EXCEPT !.files = [p \in Path |-> IF p \in dropped THEN None ELSE @[p]]]

\* Defect: a dead entry is dropped although it was ingested again.
DroppedByPath(c) == {p \in sweep.dead : IsReady(entries[<<c, p>>])}
\* Only the entry that was judged is dropped.
Dropped(c) == {p \in sweep.dead : Same(entries[<<c, p>>], sweep.image[p])}

\* Under persistMu, the state resident: dead entries leave memory; entries only
\* an earlier failed rewrite left on disk go too.
SweepMemory ==
    /\ sweep.pc = "lock" /\ sweep.src = "memory" /\ persistMu = None
    /\ LET c == sweep.key
           cs == Without(commits[c], Dropped(c))
           es == [k \in Key |-> IF k[1] = c /\ k[2] \in Dropped(c) THEN None ELSE entries[k]]
           l == Load(c, cs, es)
           stale == \E p \in Path :
                      /\ manifest[c].files[p] # None /\ sweep.image[p] = None /\ cs.files[p] = None
                      /\ es[<<c, p>>] = None /\ tasks[<<c, p>>] = None
       IN  IF manifest[c] = None \/ c \in unread \/ commits[c] = None
             THEN sweep' = Idle /\ UNCHANGED <<entries, commits, dirty, persistMu>>
             ELSE /\ entries' = l.entries /\ commits' = [commits EXCEPT ![c] = l.cs] /\ dirty' = l.dirty
                  /\ IF Dropped(c) = {} /\ ~stale /\ ~Empty(l.cs)
                       THEN sweep' = Idle /\ UNCHANGED persistMu
                       ELSE /\ sweep' = [sweep EXCEPT !.pc = "write", !.image = Snapshot(c, l.cs)]
                            /\ persistMu' = Sweeper
    /\ UNCHANGED <<upstream, stored, tasks, branch, failed, manifest, pointer, temps, unread, lapsed, swept, req, ids, calls, events>>

\* sweepDiskManifest: no state is resident, disk is judged by its hashes.
SweepDisk ==
    /\ sweep.pc = "lock" /\ sweep.src = "disk" /\ persistMu = None
    /\ LET c == sweep.key
           dropped == {p \in sweep.dead : manifest[c].files[p] # None /\ manifest[c].files[p].hash = sweep.image[p].hash}
           man == Without(manifest[c], dropped)
       IN  IF commits[c] # None \/ manifest[c] = None \/ c \in unread \/ (dropped = {} /\ ~Empty(man))
             THEN sweep' = Idle /\ UNCHANGED <<swept, persistMu>>
             ELSE /\ sweep' = [sweep EXCEPT !.pc = "write", !.image = Snapshot(c, man)]
                  /\ swept' = swept \cup {manifest[c].files[p].id : p \in dropped}
                  /\ persistMu' = Sweeper
    /\ UNCHANGED <<upstream, stored, mem, manifest, pointer, temps, unread, lapsed, dirty, req, ids, calls, events>>

SweepWrite ==
    /\ sweep.pc = "write"
    /\ LET image == sweep.image
       IN  \/ /\ Empty(image.man)
              /\ \/ /\ sweep.src = "memory"
                    /\ RemoveManifest(image.name)
                    /\ dirty' = dirty \ {image.name}
                 \/ /\ sweep.src = "disk"
                    /\ manifest' = [manifest EXCEPT ![image.name] = None] /\ unread' = unread \ {image.name}
                    /\ dirty' = dirty \ {image.name}
                    /\ UNCHANGED commits
                 \/ dirty' = dirty \cup {image.name} /\ UNCHANGED <<manifest, commits, unread>>
              /\ persistMu' = None /\ sweep' = Idle
              /\ UNCHANGED temps
           \/ /\ ~Empty(image.man)
              /\ temps' = temps \cup {image.name}
              /\ sweep' = [sweep EXCEPT !.pc = "rename"]
              /\ UNCHANGED <<manifest, commits, unread, dirty, persistMu>>
    /\ UNCHANGED <<upstream, stored, entries, tasks, branch, failed, pointer, lapsed, swept, req, ids, calls, events>>

SweepRename ==
    /\ sweep.pc = "rename"
    /\ Renamed(sweep.image) \/ RenameFails(sweep.image)
    /\ persistMu' = None /\ sweep' = Idle
    /\ UNCHANGED <<upstream, stored, mem, lapsed, swept, req, ids, calls, events>>

\* sweepTempFile: under persistMu a temp file is a leftover.
SweepTemp ==
    /\ sweep.pc = "idle" /\ temps # {} /\ persistMu = None /\ events < MaxEvents
    /\ events' = events + 1
    /\ temps' = {}
    /\ UNCHANGED <<upstream, stored, mem, manifest, pointer, unread, dirty, lapsed, swept, persistMu, req, sweep, ids, calls>>

-----------------------------------------------------------------------------
\* A file is unlinked from storage, and collected.
Unlink(h) ==
    /\ h \in stored /\ events < MaxEvents
    /\ events' = events + 1
    /\ stored' = stored \ {h}
    /\ UNCHANGED <<upstream, mem, disk, persistMu, req, sweep, ids, calls>>

\* The upstream's branch moves.
Move ==
    /\ events < MaxEvents
    /\ events' = events + 1
    /\ IF head = Pseudo THEN version' \in Version \ {version} /\ UNCHANGED head
       ELSE head' \in Real \ {head} /\ UNCHANGED version
    /\ UNCHANGED <<stored, mem, disk, persistMu, req, sweep, ids, calls>>

\* A manifest becomes unreadable, or readable again.
Flicker(c) ==
    /\ manifest[c] # None /\ events < MaxEvents
    /\ events' = events + 1
    /\ unread' = IF c \in unread THEN unread \ {c} ELSE unread \cup {c}
    /\ lapsed' = lapsed \cup {c}
    /\ UNCHANGED <<upstream, stored, mem, manifest, pointer, temps, dirty, swept, persistMu, req, sweep, ids, calls>>

\* Time passes: checks become stale, retries due.
Aged(e) == IF e = None THEN None ELSE [e EXCEPT !.old = IsReady(e), !.due = IsFailed(e)]
AgedFiles(c, ms) == IF ms[c] = None THEN None ELSE [ms[c] EXCEPT !.files = [p \in Path |-> Aged(@[p])]]
Tick ==
    /\ events < MaxEvents
    /\ events' = events + 1
    /\ entries' = [k \in Key |-> Aged(entries[k])]
    /\ commits' = [c \in Commit |-> AgedFiles(c, commits)]
    /\ manifest' = [c \in Commit |-> AgedFiles(c, manifest)]
    /\ branch' = IF branch = None THEN None ELSE [branch EXCEPT !.old = TRUE, !.backoff = FALSE]
    /\ pointer' = IF pointer = None THEN None ELSE [pointer EXCEPT !.old = TRUE]
    /\ UNCHANGED <<upstream, stored, tasks, failed, temps, unread, dirty, lapsed, swept, persistMu, req, sweep, ids, calls>>

\* The process dies; the index on disk is all that is left.
Crash ==
    /\ events < MaxEvents
    /\ events' = events + 1
    /\ entries' = [k \in Key |-> None] /\ tasks' = [k \in Key |-> None]
    /\ commits' = [c \in Commit |-> None] /\ branch' = None /\ failed' = <<>>
    /\ persistMu' = None
    /\ req' = [r \in Req |-> Idle] /\ sweep' = Idle
    /\ dirty' = dirty \cap {"source"}
    /\ UNCHANGED <<upstream, stored, manifest, pointer, temps, unread, lapsed, swept, ids, calls>>

ReqStep(r) ==
    \/ BranchCommit(r) \/ BranchFails(r) \/ BranchAnswers(r) \/ EnsureSource(r) \/ SetPin(r)
    \/ PersistBranch(r) \/ Pinned(r) \/ Persist(r) \/ Write(r) \/ Rename(r) \/ Acquire(r)
    \/ Revalidate(r) \/ Live(r) \/ DropEntry(r) \/ StartTask(r) \/ Ingest(r) \/ RunTask(r) \/ Publish(r)

SweepStep == SweepJudge \/ SweepMemory \/ SweepDisk \/ SweepWrite \/ SweepRename

\* Requests name the branch or the commit it is at.
Next ==
    \/ \E r \in Req : ReqStep(r) \/ \E rev \in {Branch, head}, p \in Path : Resolve(r, rev, p)
    \/ \E c \in Commit : SweepRead(c) \/ Flicker(c)
    \/ SweepStep \/ SweepTemp \/ Move \/ Tick \/ Crash
    \/ \E h \in Content : Unlink(h)

Spec == Init /\ [][Next]_vars /\ (\A r \in Req : WF_vars(ReqStep(r))) /\ WF_vars(SweepStep)

-----------------------------------------------------------------------------
TypeOK ==
    /\ stored \subseteq Content
    /\ \A k \in Key : tasks[k] \in Req \cup {None}
    /\ temps \subseteq Rev /\ unread \subseteq {c \in Commit : manifest[c] # None} /\ dirty \subseteq Rev \cup {"source"}
    /\ persistMu \in Req \cup {Sweeper, None}
    /\ Len(failed) <= MaxFailed

\* A ready entry is in the index if and only if its commit's state has it, so
\* that what is served is what is persisted.  Where a manifest became readable
\* during an ingest, the ingest's failure may hide what was loaded meanwhile.
EntrySync ==
    \A c \in Commit, p \in Path :
      LET file == IF commits[c] = None THEN None ELSE commits[c].files[p]
          ready == IF IsReady(entries[<<c, p>>]) THEN entries[<<c, p>>] ELSE None
      IN  Same(ready, file) \/ (ready = None /\ c \in lapsed)

\* The failure LRU holds exactly the keys with a failed entry: none is kept
\* past its bound, none is evicted late.
FailedTracked == {k \in Key : IsFailed(entries[k])} = ToSet(failed)

\* At most one request at a time ingests a key.
OneIngest ==
    \A r, q \in Req :
      req[r].pc \in {"ingest", "run", "publish"} /\ req[q].pc \in {"ingest", "run", "publish"}
        /\ req[r].key = req[q].key => r = q

\* Nobody is writing, or about to write, the manifest of c, and it was not left
\* behind memory by a write that failed, one refused because the manifest could
\* not be read, or a load that memory outranked.
Settled(c) ==
    /\ c \notin dirty
    /\ \A r \in Req : req[r].pc = "persist" => req[r].key[1] # c
    /\ \A r \in Req : req[r].pc \in {"write", "rename"} => req[r].image.name # c
    /\ sweep.pc \in {"write", "rename"} => sweep.key # c

\* What memory has dropped or replaced does not come back from disk.
NoResurrection ==
    \A c \in Commit, p \in Path :
      Settled(c) /\ commits[c] # None /\ manifest[c] # None /\ manifest[c].files[p] # None
        => Same(manifest[c].files[p], commits[c].files[p])

\* What memory serves is on the disk of a settled commit, unless its file is gone
\* or a sweep dropped it from disk while it was being loaded.
PublishedOnDisk ==
    \A c \in Commit, p \in Path :
      Settled(c) /\ commits[c] # None /\ commits[c].files[p] # None /\ commits[c].files[p].hash \in stored
        /\ commits[c].files[p].id \notin swept
        => manifest[c] # None /\ Same(manifest[c].files[p], commits[c].files[p])

\* A branch pointer to a pseudo commit never outruns the commit's source, so
\* that a restart knows which branch the commit stands for.
SourceBeforePointer ==
    pointer # None /\ pointer.commit = Pseudo /\ "source" \notin dirty
      => manifest[Pseudo] # None /\ manifest[Pseudo].source = Branch

\* A temp file being renamed is there.
WritesKept ==
    /\ \A r \in Req : req[r].pc = "rename" => req[r].image.name \in temps
    /\ sweep.pc = "rename" => sweep.image.name \in temps

\* A sweep drops nothing the index serves, in memory or on disk, that was
\* published after it judged the manifest.
SweepSparesNew ==
    [][SweepStep =>
         /\ \A k \in Key : IsReady(entries[k]) /\ entries'[k] = None => entries[k].id < sweep.prev
         /\ \A c \in Commit, p \in Path :
              manifest[c] # None /\ manifest[c].files[p] # None
                /\ Same(manifest[c].files[p], entries[<<c, p>>])
                /\ (manifest'[c] = None \/ manifest'[c].files[p] = None)
              => manifest[c].files[p].id < sweep.prev]_vars

\* Every request is answered.
Answered == \A r \in Req : req[r].pc # "idle" ~> req[r].pc = "idle"

\* The index in memory agrees with itself, however requests, failures, sweeps
\* and reloads interleave, and a key is ingested by one request at a time.
IndexSound == TypeOK /\ EntrySync /\ FailedTracked /\ OneIngest

\* The index on disk is, for every commit whose writes have settled, what a
\* restart may serve: nothing dropped comes back, nothing published is missing.
\* No pointer outruns its commit and no write loses its temp file.
DiskSound == NoResurrection /\ PublishedOnDisk /\ SourceBeforePointer /\ WritesKept
=============================================================================
