------------------------------ MODULE Prefetch ------------------------------
(***************************************************************************)
(* A reconstruction reader (download/decode_v1.go and decode_v2.go, alike  *)
(* but for the response they plan from), its prefetcher (prefetcher.go)    *)
(* and the chunkCache of each fetch (chunk_cache.go): workers take the     *)
(* fetches in plan order, lock the cache entry, download and decode into   *)
(* it chunk by chunk, and the reader follows behind on a condition         *)
(* variable until it closes everything.  A step is one critical section or *)
(* one call that may wait.  What the cache directory holds is left to      *)
(* ChunkCache: here a fetch is found there or it is not.                   *)
(***************************************************************************)
EXTENDS Integers, FiniteSets, Sequences, SequencesExt

CONSTANTS
    Key,         \* the fetches
    Chunks,      \* fetch -> chunks expected of it
    Order,       \* the fetches in the order orderEntry gives them
    Opening,     \* ways to open it, [plan, skip, verify]: the terms, [key, from, to] with
                 \* chunk indexes local to the fetch, the leading chunks
                 \* OffsetIntoFirstRange covers, and whether a hash is expected
    Worker,
    None,
    MaxFaults    \* bound on faulty answers of the network and the disk

ASSUME PrefetchAssumption ==
    /\ Chunks \in [Key -> Nat \ {0}]
    /\ \A o \in Opening :
         /\ \A t \in Range(o.plan) : t.key \in Key /\ t.from < t.to /\ t.to <= Chunks[t.key]
         /\ o.skip < o.plan[1].to - o.plan[1].from

VARIABLES
    ctx,      \* the prefetcher's context is live
    queue,    \* fetches not handed to a worker
    entry,    \* fetch -> "open", "cache" or "failed": the result ready announces
    cc,       \* fetch -> its chunkCache
    flocked,  \* fetch -> this process holds the entry's flock
    body,     \* fetch -> "none", "open" or "closed": the response body
    work,     \* worker -> what it does
    rd,       \* the reader
    faults

vars == <<ctx, queue, entry, cc, flocked, body, work, rd, faults>>

\* A chunk as the reader hands it out.
Data(k, i, good) == [key |-> k, idx |-> i, good |-> good]
Plan == rd.how.plan
Planned == {t.key : t \in Range(Plan)}
Whole == FlattenSeq([i \in DOMAIN Plan |-> [j \in 1 .. Plan[i].to - Plan[i].from |->
                       Data(Plan[i].key, Plan[i].from + j - 1, TRUE)]])

NoCache == [made |-> FALSE, readonly |-> FALSE, metas |-> <<>>, shown |-> 0, done |-> FALSE,
            err |-> FALSE, sealed |-> FALSE, open |-> FALSE, loadMu |-> None]
Hit(k) == [NoCache EXCEPT !.made = TRUE, !.readonly = TRUE, !.open = TRUE,
                          !.metas = [i \in 1 .. Chunks[k] |-> TRUE], !.shown = Chunks[k]]
Rest == [pc |-> "idle", key |-> None, first |-> FALSE]

Init ==
    /\ ctx = TRUE /\ queue = <<>> /\ faults = 0
    /\ entry = [k \in Key |-> "open"] /\ cc = [k \in Key |-> NoCache]
    /\ flocked = [k \in Key |-> FALSE] /\ body = [k \in Key |-> "none"]
    /\ work = [w \in Worker |-> Rest]
    /\ \E o \in Opening :
         rd = [pc |-> "new", how |-> o, term |-> 1, idx |-> 0, held |-> None, skip |-> o.skip, asleep |-> FALSE,
               out |-> <<>>, seen |-> <<>>, left |-> {t.key : t \in Range(o.plan)}, after |-> "none", result |-> "none"]

\* A fault of the network or the disk.
Fault == faults < MaxFaults /\ faults' = faults + 1
Sound == UNCHANGED faults

\* changed.Broadcast of a cache: the reader waiting on it wakes.
Woken(k) == [rd EXCEPT !.asleep = @ /\ rd.held # k]

-----------------------------------------------------------------------------
\* newFileVerifier: a file's hash cannot be checked from the middle on.
Refused == rd.how.verify /\ rd.how.skip > 0

\* NewReader and start: what is in the cache is published at once, the rest goes
\* to the feeder.  A lookup that fails closes what was opened before it.
Open ==
    /\ rd.pc = "new" /\ ~Refused
    /\ \E hits \in SUBSET Planned :
         /\ cc' = [k \in Key |-> IF k \in hits THEN Hit(k) ELSE NoCache]
         /\ entry' = [k \in Key |-> IF k \in hits THEN "cache" ELSE "open"]
         /\ \/ Sound /\ queue' = SelectSeq(Order, LAMBDA k : k \in Planned \ hits) /\ rd' = [rd EXCEPT !.pc = "idle"]
            \/ Fault /\ queue' = <<>> /\ rd' = [rd EXCEPT !.pc = "cancel", !.after = "err"]
    /\ UNCHANGED <<ctx, flocked, body, work>>

\* NewReader fails before it starts anything.
OpenRefused ==
    /\ rd.pc = "new" /\ Refused
    /\ rd' = [rd EXCEPT !.pc = "refused"]
    /\ UNCHANGED <<ctx, queue, entry, cc, flocked, body, work, faults>>

\* The caller's context ends.
Cancel ==
    /\ ctx /\ rd.pc \notin {"new", "refused"}
    /\ ctx' = FALSE
    /\ UNCHANGED <<queue, entry, cc, flocked, body, work, rd, faults>>

-----------------------------------------------------------------------------
(* The workers. *)

\* Worker w goes on to pc, leaving everything else.
Goto(w, pc) == work' = [work EXCEPT ![w].pc = pc]

\* runJob returns: the body is closed and a lock the cache does not own released.
EndJob(w) ==
    LET k == work[w].key
    IN  /\ work' = [work EXCEPT ![w] = Rest]
        /\ body' = [body EXCEPT ![k] = IF @ = "open" THEN "closed" ELSE @]
        /\ flocked' = [flocked EXCEPT ![k] = @ /\ cc[k].made /\ ~cc[k].readonly]

\* completeEntry with an error.
FailEntry(k) == entry' = [entry EXCEPT ![k] = IF @ = "open" THEN "failed" ELSE @]

\* A worker takes the next fetch from the feeder.
Take(w) ==
    /\ work[w].pc = "idle" /\ queue # <<>>
    /\ queue' = Tail(queue)
    /\ work' = [work EXCEPT ![w] = [pc |-> "begin", key |-> Head(queue), first |-> TRUE]]
    /\ UNCHANGED <<ctx, entry, cc, flocked, body, rd, faults>>

\* A job of a context that has ended fails before it asks for anything.
JobCancelled(w) ==
    /\ work[w].pc \in {"begin", "lock", "download"} /\ ~ctx
    /\ FailEntry(work[w].key)
    /\ EndJob(w)
    /\ UNCHANGED <<ctx, queue, cc, rd, faults>>
JobBegin(w) ==
    /\ work[w].pc = "begin" /\ ctx
    /\ Goto(w, "lock")
    /\ UNCHANGED <<ctx, queue, entry, cc, flocked, body, rd, faults>>

\* lockChunkCache: another process may keep the lock as long as it likes.
JobLock(w) ==
    /\ work[w].pc = "lock"
    /\ \/ /\ Sound
          /\ flocked' = [flocked EXCEPT ![work[w].key] = TRUE]
          /\ Goto(w, "look")
          /\ UNCHANGED <<entry, body>>
       \/ Fault /\ FailEntry(work[w].key) /\ EndJob(w)
    /\ UNCHANGED <<ctx, queue, cc, rd>>

\* The second look, under the lock: another process may have filled the entry.
JobLook(w) ==
    LET k == work[w].key
    IN  /\ work[w].pc = "look"
        /\ \/ /\ Sound
              /\ Goto(w, "download")
              /\ UNCHANGED <<entry, cc, flocked, body>>
           \/ /\ Sound
              /\ cc' = [cc EXCEPT ![k] = Hit(k)]
              /\ Goto(w, "publish")
              /\ UNCHANGED <<entry, flocked, body>>
           \/ Fault /\ FailEntry(k) /\ EndJob(w) /\ UNCHANGED cc
        /\ UNCHANGED <<ctx, queue, rd>>

\* The download answers, and the cache is made over the locked file, which it
\* owns from there on.
JobDownload(w) ==
    LET k == work[w].key
    IN  /\ work[w].pc = "download"
        /\ \/ /\ Sound
              /\ body' = [body EXCEPT ![k] = "open"]
              /\ cc' = [cc EXCEPT ![k] = [NoCache EXCEPT !.made = TRUE, !.open = TRUE]]
              /\ Goto(w, "load")
              /\ UNCHANGED <<entry, flocked>>
           \/ Fault /\ FailEntry(k) /\ EndJob(w) /\ UNCHANGED cc
        /\ UNCHANGED <<ctx, queue, rd>>

\* context.AfterFunc closes the body of a running download.
CloseBody(k) ==
    /\ ~ctx /\ body[k] = "open"
    /\ body' = [body EXCEPT ![k] = "closed"]
    /\ UNCHANGED <<ctx, queue, entry, cc, flocked, work, rd, faults>>

-----------------------------------------------------------------------------
(* load, the loop that fills a cache: LoadTo(0) first, then LoadAll. *)

\* Where a load's result takes the worker.
AfterLoad(w, res) ==
    IF work[w].first THEN (IF res = "err" THEN "failing" ELSE "publish")
    ELSE CASE res = "ok" -> "load" [] res = "eof" -> "finalize" [] res = "err" -> "drop"

\* The load ends with loadMu released and the readers woken.
LoadReturns(w, c, res) ==
    LET k == work[w].key
    IN  /\ cc' = [cc EXCEPT ![k] = [c EXCEPT !.loadMu = None]]
        /\ rd' = Woken(k)
        /\ Goto(w, AfterLoad(w, res))

Load(w) ==
    LET k == work[w].key
        c == cc[k]
    IN  /\ work[w].pc = "load" /\ c.loadMu = None
        /\ \/ /\ ~c.done /\ ~c.err
              /\ cc' = [cc EXCEPT ![k].loadMu = w]
              /\ Goto(w, "read")
           \/ /\ c.done \/ c.err
              /\ Goto(w, AfterLoad(w, IF c.done THEN "eof" ELSE "err"))
              /\ UNCHANGED cc
        /\ UNCHANGED <<ctx, queue, entry, flocked, body, rd, faults>>

\* The decoder yields a chunk, perhaps not the right one; it is written, and
\* shown unless it is the last.
ReadChunk(w) ==
    LET k == work[w].key
        c == cc[k]
    IN  /\ work[w].pc = "read" /\ body[k] = "open"
        /\ Len(c.metas) < Chunks[k]
        /\ \E good \in BOOLEAN :
             LET more == [c EXCEPT !.metas = Append(@, good)]
             IN  /\ IF good THEN Sound ELSE Fault
                 /\ IF Len(more.metas) < Chunks[k]
                      THEN LoadReturns(w, [more EXCEPT !.shown = Len(more.metas)], "ok")
                      ELSE cc' = [cc EXCEPT ![k] = more] /\ Goto(w, "seal") /\ UNCHANGED rd
        /\ UNCHANGED <<ctx, queue, entry, flocked, body>>

\* Too early an end, and a read or a write that fails.
Ended(w) == body[work[w].key] = "closed"
ReadFails(w) ==
    LET c == cc[work[w].key]
    IN  /\ work[w].pc = "read" /\ ~Ended(w) /\ Fault
        /\ \/ LoadReturns(w, [c EXCEPT !.done = TRUE], "eof")
           \/ LoadReturns(w, [c EXCEPT !.err = TRUE], "err")
        /\ UNCHANGED <<ctx, queue, entry, flocked, body>>

\* A read of a body closed under it; the last chunk, sealed by then, is shown.
ReadClosed(w) ==
    LET k == work[w].key
        shown == IF work[w].pc = "trail" THEN Chunks[k] ELSE cc[k].shown
    IN  /\ work[w].pc \in {"read", "trail"} /\ Ended(w)
        /\ LoadReturns(w, [cc[k] EXCEPT !.err = TRUE, !.shown = shown], "err")
        /\ UNCHANGED <<ctx, queue, entry, flocked, body, faults>>

\* seal: the entry is complete, its lock given back.
Seal(w) ==
    LET k == work[w].key
    IN  /\ work[w].pc = "seal"
        /\ \/ /\ Sound
              /\ cc' = [cc EXCEPT ![k].sealed = TRUE]
              /\ flocked' = [flocked EXCEPT ![k] = FALSE]
              /\ Goto(w, "trail")
              /\ UNCHANGED rd
           \/ Fault /\ LoadReturns(w, [cc[k] EXCEPT !.err = TRUE], "err") /\ UNCHANGED flocked
        /\ UNCHANGED <<ctx, queue, entry, body>>

\* The trailing read meets the end, one chunk too many or an error; only then is
\* the last chunk shown.
Trail(w) ==
    LET k == work[w].key
        c == [cc[k] EXCEPT !.shown = Chunks[k]]
    IN  /\ work[w].pc = "trail" /\ ~Ended(w)
        /\ \/ Sound /\ LoadReturns(w, [c EXCEPT !.done = TRUE], "ok")
           \/ Fault /\ LoadReturns(w, [c EXCEPT !.err = TRUE], "err")
        /\ UNCHANGED <<ctx, queue, entry, flocked, body>>

\* Done, which waits for a load under way: the files are closed, an unfinished
\* entry is discarded, its lock released and the readers woken.
Done(k) ==
    /\ cc[k].loadMu = None
    /\ cc' = [cc EXCEPT ![k].done = TRUE, ![k].open = FALSE]
    /\ flocked' = [flocked EXCEPT ![k] = FALSE]

\* Defect: a cache that lost to Close is forgotten.
PublishAnyway(w) ==
    LET k == work[w].key
    IN  /\ work[w].pc = "publish"
        /\ entry' = [entry EXCEPT ![k] = IF @ = "open" THEN "cache" ELSE @]
        /\ IF cc[k].readonly THEN EndJob(w)
           ELSE work' = [work EXCEPT ![w].pc = "load", ![w].first = FALSE] /\ UNCHANGED <<body, flocked>>
        /\ UNCHANGED <<ctx, queue, cc, rd, faults>>
\* publishEntry: the cache becomes the entry's result, unless Close came first.
Publish(w) ==
    LET k == work[w].key
    IN  /\ work[w].pc = "publish"
        /\ IF entry[k] = "open"
             THEN /\ entry' = [entry EXCEPT ![k] = "cache"]
                  /\ IF cc[k].readonly THEN EndJob(w)
                     ELSE work' = [work EXCEPT ![w].pc = "load", ![w].first = FALSE] /\ UNCHANGED <<body, flocked>>
             ELSE Goto(w, "lost") /\ UNCHANGED <<entry, body, flocked>>
        /\ UNCHANGED <<ctx, queue, cc, rd, faults>>
Lost(w) ==
    LET k == work[w].key
    IN  /\ work[w].pc = "lost"
        /\ Done(k)
        /\ rd' = Woken(k)
        /\ work' = [work EXCEPT ![w] = IF cc[k].readonly THEN Rest ELSE [@ EXCEPT !.pc = "load", !.first = FALSE]]
        /\ UNCHANGED <<ctx, queue, entry, body, faults>>

\* finalize: a sealed cache is left to the reader, any other is an error.
Finalize(w) ==
    LET c == cc[work[w].key]
    IN  /\ work[w].pc = "finalize" /\ c.loadMu = None
        /\ IF c.sealed THEN EndJob(w) ELSE Goto(w, "drop") /\ UNCHANGED <<body, flocked>>
        /\ UNCHANGED <<ctx, queue, entry, cc, rd, faults>>

\* A load that failed: the cache is closed, the entry failed if none was published.
Drop(w) ==
    LET k == work[w].key
    IN  /\ work[w].pc \in {"failing", "drop"}
        /\ Done(k)
        /\ rd' = Woken(k)
        /\ IF work[w].pc = "failing" THEN FailEntry(k) ELSE UNCHANGED entry
        /\ work' = [work EXCEPT ![w] = Rest]
        /\ body' = [body EXCEPT ![k] = "closed"]
        /\ UNCHANGED <<ctx, queue, faults>>

-----------------------------------------------------------------------------
(* The reader. *)

\* The reader moves to new; nothing else changes.
Reads(new) == rd' = new /\ UNCHANGED <<ctx, queue, entry, cc, flocked, body, work, faults>>
Fails == [rd EXCEPT !.pc = "cancel", !.after = "err"]

\* Read or WriteTo is called, unless an error sticks; Close may be instead.
Read == rd.pc = "idle" /\ rd.result \in {"none", "eof"} /\ Reads([rd EXCEPT !.pc = "fill"])
Close == rd.pc = "idle" /\ rd.result # "closed"
         /\ Reads([rd EXCEPT !.pc = "cancel", !.after = IF rd.result = "err" THEN "err" ELSE "closed"])

\* Defect: the end of the plan is taken for the end of the file.
FillUnverified ==
    LET t == Plan[rd.term]
    IN  /\ rd.pc = "fill"
        /\ Reads(IF rd.term > Len(Plan) THEN [rd EXCEPT !.pc = "cancel", !.after = "eof"]
                 ELSE IF rd.held = None THEN [rd EXCEPT !.pc = "get"]
                 ELSE IF rd.idx >= t.to THEN [rd EXCEPT !.held = None, !.term = @ + 1]
                 ELSE [rd EXCEPT !.pc = "chunk"])
\* fill, up to the call that may wait: after the last term a reader with an
\* expected hash verifies it.
Fill ==
    LET t == Plan[rd.term]
    IN  /\ rd.pc = "fill"
        /\ Reads(IF rd.term > Len(Plan)
                   THEN [rd EXCEPT !.pc = "cancel", !.after = IF rd.how.verify /\ rd.seen # Whole THEN "err" ELSE "eof"]
                 ELSE IF rd.held = None THEN [rd EXCEPT !.pc = "get"]
                 ELSE IF rd.idx >= t.to THEN [rd EXCEPT !.held = None, !.term = @ + 1]
                 ELSE [rd EXCEPT !.pc = "chunk"])

\* loadTerm: Get waits for the fetch's first chunk.
Get ==
    LET t == Plan[rd.term]
    IN  /\ rd.pc = "get" /\ entry[t.key] # "open"
        /\ Reads(IF entry[t.key] = "failed" THEN Fails
                 ELSE [rd EXCEPT !.pc = "fill", !.held = t.key, !.idx = t.from])

\* readChunk: the reader sleeps while the chunk is still to come,
Waits(c) == rd.idx >= c.shown /\ rd.idx < Chunks[rd.held] /\ ~c.readonly /\ ~c.done /\ ~c.err
Chunk ==
    LET c == cc[rd.held]
    IN  /\ rd.pc = "chunk" /\ ~rd.asleep
        /\ Reads(IF Waits(c) THEN [rd EXCEPT !.asleep = TRUE]
                 ELSE IF rd.idx >= c.shown \/ ~c.open THEN Fails
                 ELSE [rd EXCEPT !.pc = "pread"])

\* and reads it outside the lock: a cache closed meanwhile fails the read.  The
\* call returns when its buffer is full, or goes on.
Pread ==
    LET c == cc[rd.held]
        d == Data(rd.held, rd.idx, c.metas[rd.idx + 1])
        seen == [rd EXCEPT !.idx = @ + 1, !.seen = IF rd.how.verify THEN Append(@, d) ELSE @]
    IN  /\ rd.pc = "pread"
        /\ IF ~c.open THEN Reads(Fails)
           ELSE IF rd.term = 1 /\ rd.skip > 0 THEN Reads([seen EXCEPT !.skip = @ - 1, !.pc = "fill"])
           ELSE \E pc \in {"idle", "fill"} : Reads([seen EXCEPT !.out = Append(@, d), !.pc = pc])

\* Defect: Close waits for the caches before it stops the downloads.
StopLater ==
    /\ rd.pc = "cancel"
    /\ rd' = [rd EXCEPT !.pc = "close", !.held = None]
    /\ UNCHANGED <<ctx, queue, entry, cc, flocked, body, work, faults>>
\* cleanup: the prefetcher's Close ends the context first,
Stop ==
    /\ rd.pc = "cancel"
    /\ ctx' = FALSE
    /\ rd' = [rd EXCEPT !.pc = "close", !.held = None]
    /\ UNCHANGED <<queue, entry, cc, flocked, body, work, faults>>

\* then fails every entry without a result and closes every published cache.
CloseEntry(k) ==
    /\ rd.pc = "close" /\ k \in rd.left
    /\ FailEntry(k)
    /\ IF entry[k] = "cache" THEN Done(k) ELSE UNCHANGED <<cc, flocked>>
    /\ rd' = [rd EXCEPT !.left = @ \ {k}]
    /\ UNCHANGED <<ctx, queue, body, work, faults>>

\* The call returns.
Return ==
    /\ rd.pc = "close" /\ rd.left = {}
    /\ Reads([rd EXCEPT !.pc = "idle", !.result = rd.after])

-----------------------------------------------------------------------------
\* What only the network or another process decides.
Network(w) == JobLock(w) \/ JobDownload(w) \/ ReadChunk(w) \/ ReadFails(w) \/ Trail(w)
\* What the worker does by itself, or its context makes it do.
WorkerStep(w) ==
    \/ Take(w) \/ JobCancelled(w) \/ JobBegin(w) \/ JobLook(w) \/ Load(w) \/ ReadClosed(w) \/ Seal(w)
    \/ Publish(w) \/ Lost(w) \/ Finalize(w) \/ Drop(w)
ReaderStep == Fill \/ Get \/ Chunk \/ Pread \/ Stop \/ (\E k \in Key : CloseEntry(k)) \/ Return

Next ==
    \/ Open \/ OpenRefused \/ Cancel \/ Read \/ Close \/ ReaderStep
    \/ \E w \in Worker : Network(w) \/ WorkerStep(w)
    \/ \E k \in Key : CloseBody(k)

Fairness ==
    /\ WF_vars(ReaderStep)
    /\ \A w \in Worker : WF_vars(WorkerStep(w))
    /\ \A k \in Key : WF_vars(CloseBody(k))
Spec == Init /\ [][Next]_vars /\ Fairness

-----------------------------------------------------------------------------
TypeOK ==
    /\ ctx \in BOOLEAN /\ faults \in 0 .. MaxFaults
    /\ entry \in [Key -> {"open", "cache", "failed"}]
    /\ \A k \in Key : cc[k].shown <= Len(cc[k].metas) /\ Len(cc[k].metas) <= Chunks[k]

\* The reader hands out the planned chunks, in order, from the first one that the
\* offset leaves (fill, loadTerm and readChunk of both readers).
InOrder ==
    \A i \in DOMAIN rd.out :
      LET planned == Whole[i + rd.how.skip]
      IN  i + rd.how.skip <= Len(Whole) /\ rd.out[i].key = planned.key /\ rd.out[i].idx = planned.idx

\* A reader that reports the end of the file has handed out all of it, whatever
\* its fetches met, and undamaged if it had the file's hash to check: one that
\* resumes in the middle has none (fileVerifier, downloadOptions).
VerifiedEOF ==
    rd.result = "eof" =>
      /\ Len(rd.out) = Len(Whole) - rd.how.skip
      /\ rd.how.verify => rd.out = Whole

\* Once the reader is closed and the workers have gone, no cache of theirs is
\* open, no entry locked and no body open: whoever loses the race between a
\* late publication and Close still releases its cache (completeEntry).
NoLeak ==
    rd.result \in {"err", "closed", "eof"} /\ rd.pc = "idle" /\ queue = <<>> /\ (\A w \in Worker : work[w].pc = "idle")
      => \A k \in Key : ~cc[k].open /\ ~flocked[k] /\ body[k] # "open"

\* A fetch whose last chunk the reader has is sealed in the cache, although the
\* reader's own Close may cut the download's trailing read short (load).
SealedOnceRead ==
    \A i \in DOMAIN rd.out : rd.out[i].idx = Chunks[rd.out[i].key] - 1
                               => cc[rd.out[i].key].sealed \/ cc[rd.out[i].key].readonly

\* The cache a reader reads from is open until the reader lets it go, unless its
\* load failed or came to an early end.
HeldOpen ==
    rd.held # None => LET c == cc[rd.held] IN c.open \/ c.err \/ Len(c.metas) < Chunks[rd.held]

\* An entry is written under its flock only, from the download's start to the
\* seal (runJob hands the lock over to the cache).
WritesLocked ==
    \A k \in Key : cc[k].made /\ ~cc[k].readonly /\ cc[k].open /\ ~cc[k].sealed => flocked[k]

\* Close returns however the network behaves: it ends the context before it
\* waits for the caches (prefetcher.Close).
CloseReturns == rd.pc = "cancel" ~> rd.pc = "idle"

\* After Close every worker ends: a stalled body is closed under it (runJob's
\* AfterFunc).
WorkersEnd == ~ctx ~> (queue = <<>> /\ \A w \in Worker : work[w].pc = "idle")

\* A reader waits for ever only behind a worker that waits for the network or for
\* another process: no wake-up is lost (the broadcasts of load, fail and Done).
Stalled == \E w \in Worker : work[w].pc \in {"lock", "download", "read", "trail"}
ReadReturns == <>[](rd.pc \in {"fill", "get", "chunk", "pread"}) => <>[]Stalled

\* What the reader hands out are the chunks asked for, in order, and all of them
\* at its end, undamaged where the file's hash was checked.
ReadsExact == TypeOK /\ InOrder /\ VerifiedEOF

\* Caches, locks and bodies are open as long as somebody uses them and no
\* longer, and complete fetches are sealed, whoever of the reader's Close and
\* the workers comes first.
CachesSound == NoLeak /\ SealedOnceRead /\ HeldOpen /\ WritesLocked

\* Nobody is left waiting: neither Close, nor the workers after it, nor a read.
AllReturn == CloseReturns /\ WorkersEnd /\ ReadReturns
=============================================================================
