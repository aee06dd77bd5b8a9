------------------------------ MODULE Pipeline ------------------------------
(***************************************************************************)
(* storage.reconstructedFile and its decode pipeline: one fetcher reads    *)
(* the chunks of a file's terms in order, workers decode them, Read        *)
(* consumes them in file order, and a window of frames bounds what is in   *)
(* flight.  Seek and errors tear the pipeline down; Close and the parent   *)
(* context do so from another goroutine.                                   *)
(*                                                                         *)
(* A byte is known by the chunk it comes from; a term is its declared size *)
(* and the chunks its xorb really has: their length, whether they are      *)
(* compressed, and whether they decode.                                    *)
(***************************************************************************)
EXTENDS Integers, FiniteSets, SequencesExt

CONSTANTS
    TermLists,  \* the files: sequences of terms
    Window,     \* decodeWindow
    Worker,     \* the decoding goroutines
    ReadSizes,  \* the lengths Read is asked for
    Nil,
    FetchFails     \* TRUE: a storage call of the fetcher may fail

ASSUME WindowAssumption == Window \in Nat /\ Window > 1 /\ FetchFails \in BOOLEAN

Frame == 1 .. Window

VARIABLES
    terms,     \* the file
    position, closed, err,  \* of reconstructedFile; err is the sticky error
    cur,       \* the delivered frame that holds position
    chunkOff,  \* the file offset of its first byte
    cancelled, \* the contexts cancelled: "parent", "life", "pipe"
    rpc,       \* where Read or Seek is
    left,      \* the bytes Read still has room for
    took,      \* the frame next or drain waits for
    cpc,       \* where Close is
    pipe,      \* a pipeline runs
    chunk,     \* frame -> the term and chunk it carries
    in, out,   \* the frames that hold a packed, a decoded buffer
    ready,     \* the frames whose ready channel is signalled
    free, jobs, ordered,  \* the channels
    shut,      \* the fetcher has stopped and closed jobs and ordered
    perr,      \* p.err: the fetcher stopped early
    fpc, fframe, fterm, fchunk,  \* the fetcher's place
    wjob,      \* worker -> the frame it decodes
    bufs       \* buffers taken from the pool and not returned

readerVars == <<terms, position, closed, err, cur, chunkOff>>
readVars == <<rpc, left, took>>
frameVars == <<chunk, in, out>>
chanVars == <<free, jobs, ordered>>
fetchVars == <<shut, perr, fpc, fframe, fterm, fchunk>>
pipeVars == <<readerVars, cancelled, readVars, cpc, pipe, frameVars, ready, chanVars, fetchVars, wjob,
          bufs>>

Sum(s) == FoldLeft(+, 0, s)
Lens(cs) == [i \in DOMAIN cs |-> cs[i].len]

\* f.size.
Size == Sum([t \in DOMAIN terms |-> terms[t].size])

\* The file offset of term t, by the declared sizes, and of its chunk i.
TermOff(t) == Sum([j \in 1 .. t - 1 |-> terms[j].size])
ChunkOff(t, i) == TermOff(t) + Sum([j \in 1 .. i - 1 |-> terms[t].chunks[j].len])

DataOf(fr) == terms[chunk[fr][1]].chunks[chunk[fr][2]]

\* The errors that Read returns: the storage's, or what a cancelled context
\* surfaces as.
Errors == {"storage", "closed", "context"}

closing == "life" \in cancelled /\ "parent" \notin cancelled
lifeDone == cancelled \cap {"life", "parent"} # {}
pipeDone == cancelled # {}

PipeInit ==
    /\ terms \in TermLists
    /\ position = 0 /\ err = Nil /\ cur = Nil /\ chunkOff = 0
    /\ closed = FALSE
    /\ cancelled = {}
    /\ rpc = "idle" /\ left = 0 /\ took = Nil
    /\ cpc = "idle"
    /\ pipe = FALSE
    /\ chunk = [fr \in Frame |-> Nil] /\ in = {} /\ out = {}
    /\ ready = {}
    /\ free = {} /\ jobs = <<>> /\ ordered = <<>>
    /\ shut = TRUE /\ perr = FALSE
    /\ fpc = "stopped" /\ fframe = Nil /\ fterm = 0 /\ fchunk = 0
    /\ wjob = [w \in Worker |-> Nil]
    /\ bufs = 0

-----------------------------------------------------------------------------
\* fetch, the frames of every non-empty term in order.

\* The first non-empty term from t on, Nil past the last.
TermFrom(t) ==
    LET some == {j \in t .. Len(terms) : terms[j].size > 0}
    IN  IF some = {} THEN Nil ELSE CHOOSE j \in some : \A k \in some : j <= k

\* The fetcher returns: p.err, then ordered and jobs are closed.
StopFetch(early) ==
    /\ shut' = TRUE /\ perr' = early
    /\ fpc' = "stopped" /\ fframe' = Nil
    /\ UNCHANGED <<fterm, fchunk>>

\* acquire: a free slot, or the context's error; a select with both may take
\* either.
AcquireSlot ==
    /\ fpc = "acquire"
    /\ \/ /\ free # {}
          /\ fframe' = CHOOSE fr \in free : TRUE
          /\ free' = free \ {fframe'}
          /\ fpc' = IF fchunk = 1 THEN "open" ELSE "read"
          /\ UNCHANGED <<shut, perr, fterm, fchunk>>
       \/ /\ pipeDone
          /\ StopFetch(TRUE)
          /\ UNCHANGED free
    /\ UNCHANGED <<readerVars, cancelled, readVars, cpc, pipe, frameVars, ready, jobs, ordered, wjob, bufs>>

\* GetXorbChunkOffsets and openXorbRange.
OpenTerm ==
    /\ fpc = "open"
    /\ \/ fpc' = "read" /\ UNCHANGED <<shut, perr, fframe, fterm, fchunk>>
       \/ (FetchFails \/ pipeDone) /\ StopFetch(TRUE)
    /\ UNCHANGED <<readerVars, cancelled, readVars, cpc, pipe, frameVars, ready, chanVars, wjob, bufs>>

Unpacked(t, i) == Sum(Lens(SubSeq(terms[t].chunks, 1, i)))

\* One chunk is read into a buffer of its own and its frame goes to Read,
\* unless the read fails or the chunks exceed the term.
ReadFrame ==
    /\ fpc = "read"
    /\ in' = in \cup {fframe}
    /\ bufs' = bufs + 1
    /\ \/ /\ Unpacked(fterm, fchunk) <= terms[fterm].size
          /\ chunk' = [chunk EXCEPT ![fframe] = <<fterm, fchunk>>]
          /\ ordered' = Append(ordered, fframe)
          /\ fpc' = "send"
          /\ UNCHANGED <<shut, perr, fframe, fterm, fchunk>>
       \/ /\ FetchFails \/ Unpacked(fterm, fchunk) > terms[fterm].size
          /\ StopFetch(TRUE)
          /\ UNCHANGED <<chunk, ordered>>
    /\ UNCHANGED <<readerVars, cancelled, readVars, cpc, pipe, out, ready, free, jobs, wjob>>

\* The frame goes to the workers; then the term's next chunk, or the check of
\* the term's size and the next term.
SendJob ==
    /\ fpc = "send"
    /\ jobs' = Append(jobs, fframe)
    /\ LET last == fchunk = Len(terms[fterm].chunks)
           whole == Unpacked(fterm, fchunk) = terms[fterm].size
           then == TermFrom(fterm + 1)
       IN  \/ /\ last /\ (~whole \/ then = Nil)
              /\ StopFetch(~whole)
           \/ /\ last => whole /\ then # Nil
              /\ fterm' = IF last THEN then ELSE fterm
              /\ fchunk' = IF last THEN 1 ELSE fchunk + 1
              /\ fpc' = "acquire" /\ fframe' = Nil
              /\ UNCHANGED <<shut, perr>>
    /\ UNCHANGED <<readerVars, cancelled, readVars, cpc, pipe, frameVars, ready, free, ordered, wjob, bufs>>

-----------------------------------------------------------------------------
\* decode, until jobs is closed and empty.
TakeJob(w) ==
    /\ wjob[w] = Nil /\ jobs # <<>>
    /\ wjob' = [wjob EXCEPT ![w] = Head(jobs)]
    /\ jobs' = Tail(jobs)
    /\ UNCHANGED <<readerVars, cancelled, readVars, cpc, pipe, frameVars, ready, free, ordered, fetchVars, bufs>>

\* Defect: the packed buffer of a compressed chunk is forgotten.
DecodeForgets(w) ==
    /\ wjob[w] # Nil
    /\ IF DataOf(wjob[w]).compressed
         THEN out' = out \cup {wjob[w]} /\ in' = in \ {wjob[w]} /\ bufs' = bufs + 1
         ELSE UNCHANGED <<in, out, bufs>>
    /\ ready' = ready \cup {wjob[w]}
    /\ wjob' = [wjob EXCEPT ![w] = Nil]
    /\ UNCHANGED <<readerVars, cancelled, readVars, cpc, pipe, chunk, chanVars, fetchVars>>

\* A compressed chunk swaps its packed buffer for a decoded one.
Decode(w) ==
    /\ wjob[w] # Nil
    /\ IF DataOf(wjob[w]).compressed
         THEN out' = out \cup {wjob[w]} /\ in' = in \ {wjob[w]}
         ELSE UNCHANGED <<in, out>>
    /\ ready' = ready \cup {wjob[w]}
    /\ wjob' = [wjob EXCEPT ![w] = Nil]
    /\ UNCHANGED <<readerVars, cancelled, readVars, cpc, pipe, chunk, chanVars, fetchVars, bufs>>

-----------------------------------------------------------------------------
\* reconstructedFile, under mu.

\* release: the frame's buffers, then its slot.
release(fr) ==
    /\ bufs' = bufs - (IF fr \in in THEN 1 ELSE 0) - (IF fr \in out THEN 1 ELSE 0)
    /\ in' = in \ {fr} /\ out' = out \ {fr}
    /\ free' = free \cup {fr}

NoRelease == UNCHANGED <<bufs, in, out, free>>

\* stop, up to the join.
StopPipe ==
    /\ rpc' = IF pipe THEN "join" ELSE "idle"
    /\ cancelled' = IF pipe THEN cancelled \cup {"pipe"} ELSE cancelled

\* fail: the error sticks.
Fail ==
    /\ err' = IF closing THEN "closed" ELSE IF "parent" \in cancelled THEN "context" ELSE "storage"
    /\ took' = Nil
    /\ StopPipe

Ready == rpc = "idle" /\ cpc # "join"

\* Read and Seek that return at once: a closed file, the sticky error, EOF.
ReturnAtOnce ==
    /\ Ready
    /\ closed \/ closing \/ err # Nil \/ position >= Size
    /\ UNCHANGED pipeVars

\* Read under a cancelled parent.
ReadCancelled ==
    /\ Ready /\ ~closed /\ "parent" \in cancelled
    /\ StopPipe
    /\ UNCHANGED <<readerVars, left, took, cpc, pipe, frameVars, ready, chanVars, fetchVars, wjob, bufs>>

Read(n) ==
    /\ Ready /\ ~closed /\ ~lifeDone /\ err = Nil /\ position < Size
    /\ rpc' = "loop" /\ left' = n
    /\ UNCHANGED <<readerVars, cancelled, took, cpc, pipe, frameVars, ready, chanVars, fetchVars, wjob, bufs>>

CurEnd == chunkOff + DataOf(cur).len

NeedsAdvance == cur # Nil => position = CurEnd

Copy ==
    /\ rpc = "loop" /\ left > 0 /\ position < Size /\ ~NeedsAdvance
    /\ LET n == Min({left, CurEnd - position})
       IN  position' = position + n /\ left' = left - n
    /\ UNCHANGED <<terms, closed, err, cur, chunkOff, cancelled, rpc, took, cpc, pipe, frameVars,
                   ready, chanVars, fetchVars, wjob, bufs>>

ReadDone ==
    /\ rpc = "loop" /\ (left = 0 \/ position = Size)
    /\ rpc' = "idle" /\ left' = 0
    /\ UNCHANGED <<readerVars, cancelled, took, cpc, pipe, frameVars, ready, chanVars, fetchVars, wjob, bufs>>

\* termAt: the term that holds a position.
TermAt(pos) ==
    CHOOSE t \in DOMAIN terms : TermOff(t) <= pos /\ pos < TermOff(t) + terms[t].size

\* advance, up to its first next: the consumed chunk is released, or a
\* pipeline started at the term that holds position.
Advance ==
    /\ rpc = "loop" /\ left > 0 /\ position < Size /\ NeedsAdvance
    /\ rpc' = "next" /\ cur' = Nil
    /\ \/ /\ cur # Nil
          /\ chunkOff' = CurEnd
          /\ release(cur)
          /\ UNCHANGED <<pipe, fetchVars>>
       \/ /\ cur = Nil
          /\ pipe' = TRUE
          /\ chunkOff' = TermOff(TermAt(position))
          /\ free' = Frame
          /\ shut' = FALSE /\ perr' = FALSE
          /\ fpc' = "acquire" /\ fterm' = TermAt(position) /\ fchunk' = 1 /\ fframe' = Nil
          /\ UNCHANGED <<bufs, in, out>>
    /\ UNCHANGED <<terms, position, closed, err, cancelled, left, took, cpc, chunk, ready, jobs, ordered, wjob>>

\* Defect: drain does not notice that the fetcher ended well.
ReceiveDeaf ==
    /\ rpc \in {"next", "drain"}
    /\ \/ /\ ordered # <<>>
          /\ took' = Head(ordered) /\ ordered' = Tail(ordered)
          /\ rpc' = IF rpc = "next" THEN "nextReady" ELSE "drainReady"
          /\ UNCHANGED <<cancelled, err>>
       \/ /\ lifeDone \/ (ordered = <<>> /\ shut /\ (rpc = "next" \/ perr))
          /\ Fail
          /\ UNCHANGED ordered
    /\ UNCHANGED <<terms, position, closed, cur, chunkOff, left, cpc, pipe, frameVars, ready, free,
                   jobs, fetchVars, wjob, bufs>>

\* next and drain, first select.
Receive ==
    /\ rpc \in {"next", "drain"}
    /\ \/ /\ ordered # <<>>
          /\ took' = Head(ordered) /\ ordered' = Tail(ordered)
          /\ rpc' = IF rpc = "next" THEN "nextReady" ELSE "drainReady"
          /\ UNCHANGED <<cancelled, err>>
       \/ /\ ordered = <<>> /\ shut /\ rpc = "drain" /\ ~perr /\ ~lifeDone
          /\ rpc' = "loop"
          /\ UNCHANGED <<took, ordered, cancelled, err>>
       \/ /\ lifeDone \/ (ordered = <<>> /\ shut /\ (rpc = "next" \/ perr))
          /\ Fail
          /\ UNCHANGED ordered
    /\ UNCHANGED <<terms, position, closed, cur, chunkOff, left, cpc, pipe, frameVars, ready, free,
                   jobs, fetchVars, wjob, bufs>>

\* Defect: only a chunk that runs past the end is withheld.
PastEnd(end) == end > Size

\* Read withholds the file's final chunk.
Final(end) == end >= Size

\* next and drain, second select: a chunk that holds position becomes cur, and
\* the file's final one waits for the fetcher to check its term.
Await ==
    /\ rpc \in {"nextReady", "drainReady"}
    /\ LET end == chunkOff + DataOf(took).len
           ok == took \in ready /\ DataOf(took).ok
           next == rpc = "nextReady"
       IN  \/ /\ ok /\ next /\ ~lifeDone /\ position < end
              /\ cur' = took /\ took' = Nil
              /\ rpc' = IF Final(end) THEN "drain" ELSE "loop"
              /\ NoRelease
              /\ UNCHANGED <<chunkOff, cancelled, err>>
           \/ /\ ok /\ (next => ~lifeDone /\ position >= end)
              /\ chunkOff' = IF next THEN end ELSE chunkOff
              /\ rpc' = IF next THEN "next" ELSE "drain"
              /\ took' = Nil
              /\ release(took)
              /\ UNCHANGED <<cur, cancelled, err>>
           \/ /\ lifeDone \/ (took \in ready /\ ~DataOf(took).ok)
              /\ Fail
              /\ NoRelease
              /\ UNCHANGED <<cur, chunkOff>>
    /\ ready' = ready \ {took}
    /\ UNCHANGED <<terms, position, closed, left, cpc, pipe, chunk, jobs, ordered, fetchVars, wjob>>

\* Defect: a seek ahead of the delivered chunk keeps it.
SeekBackOnly(next) ==
    /\ Ready /\ ~closed /\ ~closing /\ next # position
    /\ position' = next
    /\ IF cur = Nil \/ next < chunkOff
         THEN StopPipe /\ err' = Nil
         ELSE UNCHANGED <<rpc, cancelled, err>>
    /\ UNCHANGED <<terms, closed, cur, chunkOff, left, took, cpc, pipe, frameVars, ready, chanVars,
                   fetchVars, wjob, bufs>>

\* A position outside the delivered chunk stops the pipeline and clears the
\* error.
Seek(next) ==
    /\ Ready /\ ~closed /\ ~closing /\ next # position
    /\ position' = next
    /\ IF cur = Nil \/ next < chunkOff \/ next > CurEnd
         THEN StopPipe /\ err' = Nil
         ELSE UNCHANGED <<rpc, cancelled, err>>
    /\ UNCHANGED <<terms, closed, cur, chunkOff, left, took, cpc, pipe, frameVars, ready, chanVars,
                   fetchVars, wjob, bufs>>

\* The end of stop: every goroutine has returned, and so do the buffers the
\* frames still hold.
Joined == shut /\ jobs = <<>> /\ \A w \in Worker : wjob[w] = Nil

ClearPipe ==
    /\ Joined
    /\ pipe' = FALSE /\ cur' = Nil
    /\ cancelled' = cancelled \ {"pipe"}
    /\ bufs' = bufs - Cardinality(in) - Cardinality(out)
    /\ in' = {} /\ out' = {} /\ ready' = {} /\ chunk' = [fr \in Frame |-> Nil]
    /\ free' = {} /\ ordered' = <<>>
    /\ perr' = FALSE /\ fterm' = 0 /\ fchunk' = 0
    /\ UNCHANGED <<terms, position, closed, err, chunkOff, took, jobs, shut, fpc, fframe, wjob>>

Join ==
    /\ rpc = "join"
    /\ ClearPipe
    /\ rpc' = "idle" /\ left' = 0
    /\ UNCHANGED cpc

-----------------------------------------------------------------------------
\* Close cancels before it locks.
CloseCancel ==
    /\ cpc = "idle"
    /\ cpc' = "lock"
    /\ cancelled' = cancelled \cup {"life"}
    /\ UNCHANGED <<readerVars, readVars, pipe, frameVars, ready, chanVars, fetchVars, wjob, bufs>>

CloseLock ==
    /\ cpc = "lock" /\ rpc = "idle"
    /\ closed' = TRUE
    /\ cpc' = IF pipe THEN "join" ELSE "done"
    /\ cancelled' = IF pipe THEN cancelled \cup {"pipe"} ELSE cancelled
    /\ UNCHANGED <<terms, position, err, cur, chunkOff, readVars, pipe, frameVars, ready, chanVars,
                   fetchVars, wjob, bufs>>

CloseJoin ==
    /\ cpc = "join"
    /\ ClearPipe
    /\ cpc' = "done"
    /\ UNCHANGED <<rpc, left>>

ParentCancel ==
    /\ "parent" \notin cancelled
    /\ cancelled' = cancelled \cup {"parent"}
    /\ UNCHANGED <<readerVars, readVars, cpc, pipe, frameVars, ready, chanVars, fetchVars, wjob, bufs>>

-----------------------------------------------------------------------------
Fetch == AcquireSlot \/ OpenTerm \/ ReadFrame \/ SendJob
Work(w) == TakeJob(w) \/ Decode(w)
ReadOn == Copy \/ ReadDone \/ Advance \/ Receive \/ Await \/ Join
CloseOn == CloseLock \/ CloseJoin

PipeNext ==
    \/ Fetch \/ ReadOn \/ CloseOn
    \/ \E w \in Worker : Work(w)
    \/ \E n \in ReadSizes : Read(n)
    \/ \E p \in 0 .. Size + 1 : Seek(p)
    \/ ReturnAtOnce \/ ReadCancelled \/ CloseCancel \/ ParentCancel

PipeTypeOK ==
    /\ position \in 0 .. Size + 1 /\ chunkOff \in 0 .. Size
    /\ closed \in BOOLEAN /\ pipe \in BOOLEAN /\ shut \in BOOLEAN /\ perr \in BOOLEAN
    /\ err \in Errors \cup {Nil}
    /\ cancelled \subseteq {"parent", "life", "pipe"}
    /\ {cur, took, fframe} \subseteq Frame \cup {Nil}
    /\ rpc \in {"idle", "loop", "next", "nextReady", "drain", "drainReady", "join"}
    /\ cpc \in {"idle", "lock", "join", "done"}
    /\ fpc \in {"acquire", "open", "read", "send", "stopped"}
    /\ in \cup out \cup ready \cup free \subseteq Frame
    /\ jobs \in Seq(Frame) /\ ordered \in Seq(Frame)
    /\ wjob \in [Worker -> Frame \cup {Nil}]
    /\ bufs \in Nat

\* The chunk Read copies from is the file's chunk at chunkOff, and it holds
\* position: whatever was seeked, discarded, failed and restarted, the bytes
\* delivered are the bytes of the file at that offset, decoded.
OrderedBytes ==
    cur # Nil /\ rpc # "join" =>
        /\ DataOf(cur).ok
        /\ chunkOff = ChunkOff(chunk[cur][1], chunk[cur][2])
        /\ chunkOff <= position /\ position <= CurEnd
        /\ IF DataOf(cur).compressed THEN cur \in out ELSE cur \in in

\* "Withhold the final chunk until the fetcher has checked the last term's
\* size": Read delivers the file's last byte only if the last term's chunks
\* add up to its declared size.
FinalWithheld ==
    [][rpc = "loop" /\ position < Size /\ position' = Size
         => LET t == TermAt(Size - 1)
            IN  Unpacked(t, Len(terms[t].chunks)) = terms[t].size]_pipeVars

\* Every buffer taken from the pool is held by one frame and goes back once:
\* none is lost by a failed fetch or an early stop, none returned twice, and a
\* file with no pipeline holds none.
BuffersReturned ==
    /\ bufs = Cardinality(in) + Cardinality(out)
    /\ ~pipe => bufs = 0

\* A slot the fetcher may fill is nobody else's: no worker still decodes it,
\* Read holds neither it nor its bytes, and its ready channel is empty.
FreeUnused ==
    \A fr \in free :
        /\ fr \notin in \cup out \cup ready \cup ToSet(jobs) \cup ToSet(ordered) \cup {cur, took, fframe}
        /\ \A w \in Worker : wjob[w] # fr

\* "Neither send blocks": no channel ever holds more than its capacity, and a
\* worker never signals a frame that is still signalled, so the join in stop
\* cannot wait for a goroutine stuck in a send.
SendsNeverBlock ==
    /\ Len(jobs) <= Window /\ Len(ordered) <= Window
    /\ \A w \in Worker : wjob[w] \notin ready

\* A Read or Seek under way returns: the window never runs dry under drain,
\* and a teardown always joins.
ReadReturns == rpc # "idle" ~> rpc = "idle"

\* Close returns, although a Read is waiting on the pipeline when it comes.
CloseReturns == cpc # "idle" ~> cpc = "done"

\* Frames and their buffers have one owner at a time and no send blocks, while
\* Read, Seek, Close, errors and cancellation interrupt each other.
FramesSound == PipeTypeOK /\ BuffersReturned /\ FreeUnused /\ SendsNeverBlock

\* Every call on a reconstructed file returns.
FileReturns == ReadReturns /\ CloseReturns
=============================================================================
