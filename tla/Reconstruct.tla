---------------------------- MODULE Reconstruct ----------------------------
(***************************************************************************)
(* From a file's chunks to the bytes a ranged download delivers: grouping  *)
(* into xorbs and the shard (BuildShard), its acceptance (Validate,        *)
(* PrepareShard), the Range header, the reconstruction response of either  *)
(* version and of the batch endpoint, the split of its terms, the client's *)
(* choice of fetches and its reader.  Chunk positions count from 0, as in  *)
(* the code; chunk k of xorb x is x[k + 1].                                *)
(***************************************************************************)
EXTENDS Grouping, FiniteSetsExt

CONSTANTS
    Packed,    \* Packed[c]: bytes of chunk c in a xorb, its header included
    Stored,    \* xorbs of earlier uploads
    Uploads,   \* what may be uploaded: sequences of files, a file a sequence of chunks
    Header,    \* Range headers that may be sent
    Setting    \* [terms, piece]: the server's splitMinTerms and splitPieceBytes

ASSUME ReconstructAssumption == \A c \in DOMAIN Size : Size[c] \in Nat \ {0} /\ Packed[c] \in Nat \ {0}

VARIABLES
    pc, files,
    sh,     \* the shard, [files, cas]: entries of each file, chunks of each CAS block
    ask,    \* [file, header, api, split]: the request
    resp,   \* the response, [offset, terms, fetch]: per xorb its URLs, each with ranges
    rd      \* the reader, [term, chunk, skip, got]

reconstructVars == <<pc, files, sh, ask, resp, rd>>

Sum(s) == FoldLeft(LAMBDA n, x : n + x, 0, s)
SizeOf(chunks) == Sum([k \in DOMAIN chunks |-> Size[chunks[k]]])
PackedOf(chunks) == Sum([k \in DOMAIN chunks |-> Packed[chunks[k]]])
Least(a, b) == IF a < b THEN a ELSE b
Most(a, b) == IF a < b THEN b ELSE a

Slice(x, from, to) == SubSeq(x, from + 1, to)
Bytes(c) == [o \in 1 .. Size[c] |-> <<c, o>>]
Content(f) == FlattenSeq([k \in DOMAIN f |-> Bytes(f[k])])

-----------------------------------------------------------------------------
(* Upload.                                                                  *)

\* A chunk extends the last term if it follows it in the same xorb.
WithChunk(terms, loc, size) ==
    IF terms # <<>> /\ Last(terms).xorb = loc.xorb /\ Last(terms).to = loc.at - 1
    THEN [terms EXCEPT ![Len(terms)].to = @ + 1, ![Len(terms)].bytes = @ + size]
    ELSE Append(terms, [xorb |-> loc.xorb, from |-> loc.at - 1, to |-> loc.at, bytes |-> size])

FileEntries(f, where) == FoldLeft(LAMBDA terms, c : WithChunk(terms, where[c], Size[c]), <<>>, f)

\* The new chunks, each once, in the order given; a CAS block per xorb.
CASBlocks(chunks, where, new) ==
    FoldLeft(LAMBDA cas, c :
               IF c \notin new THEN cas
               ELSE [x \in DOMAIN cas \cup {where[c].xorb} |->
                       (IF x \in DOMAIN cas THEN cas[x] ELSE <<>>) \o IF x = where[c].xorb THEN <<c>> ELSE <<>>],
             <<>>, chunks)

BuildShard(chunks, where, new) ==
    [files |-> [i \in DOMAIN files' |-> FileEntries(files'[i], where)], cas |-> CASBlocks(chunks, where, new)]

\* UploadFiles: some chunks are located in stored xorbs, the others go to new
\* ones.
UploadFiles ==
    /\ pc = "upload"
    /\ \E up \in Uploads :
          LET chunks == FoldLeft(LAMBDA all, c : IF Contains(all, c) THEN all ELSE Append(all, c), <<>>, FlattenSeq(up))
              places(c) == {l \in UNION {{[xorb |-> x, at |-> i] : i \in DOMAIN x} : x \in Stored} : Holds(l, c)}
          IN \E known \in SUBSET {c \in ToSet(chunks) : places(c) # {}} :
             \E located \in {f \in [known -> UNION {places(c) : c \in known}] : \A c \in known : Holds(f[c], c)} :
                LET fresh == SelectSeq(chunks, LAMBDA c : c \notin known)
                    groups == GroupChunkIndicesBySize(fresh)
                    where == FoldLeft(LAMBDA m, g : Merge(m, Locations(g)), located, groups)
                IN files' = up /\ sh' = BuildShard(chunks, where, ToSet(fresh))
    /\ pc' = "put"
    /\ UNCHANGED <<ask, resp, rd>>

\* shard.Validate: entries of a xorb without a CAS block are not looked at.
Validate(s) ==
    \A i \in DOMAIN s.files : \A e \in ToSet(s.files[i]) :
        /\ e.from < e.to
        /\ e.xorb \in DOMAIN s.cas => e.to <= Len(s.cas[e.xorb]) /\ SizeOf(Slice(s.cas[e.xorb], e.from, e.to)) = e.bytes

\* verifyCASBlock and ComputeFileHashes: a block lists its xorb's chunks, and
\* the entries give the bytes the file's hash stands for.
PrepareShard(s) ==
    /\ s.files # <<>>
    /\ \A x \in DOMAIN s.cas : s.cas[x] = x
    /\ \A i \in DOMAIN s.files :
          /\ \A e \in ToSet(s.files[i]) : e.to <= Len(e.xorb) /\ SizeOf(Slice(e.xorb, e.from, e.to)) = e.bytes
          /\ FlattenSeq([k \in DOMAIN s.files[i] |-> Slice(s.files[i][k].xorb, s.files[i][k].from, s.files[i][k].to)]) = files[i]

PutShard ==
    /\ pc = "put"
    /\ pc' = IF Validate(sh) /\ PrepareShard(sh) THEN "ask" ELSE "refused"
    /\ UNCHANGED <<files, sh, ask, resp, rd>>

-----------------------------------------------------------------------------
(* The server's response.                                                   *)

Absent == -1     \* an empty number
Malformed == -2  \* one ParseUint refuses

ParseByteRange(h, size) ==
    LET whole == [start |-> 0, end |-> size - 1]
    IN CASE ~h.bytes -> whole
         [] h.bytes /\ h.first = Absent -> IF h.last < 0 THEN whole ELSE [whole EXCEPT !.start = Most(size - h.last, 0)]
         [] h.bytes /\ h.first = Malformed -> whole
         [] h.bytes /\ h.first >= 0 ->
              IF h.last = Absent THEN [whole EXCEPT !.start = h.first]
              ELSE IF h.last < h.first THEN whole
              ELSE [start |-> h.first, end |-> Least(h.last, size - 1)]

UnpackedSize(entries) == Sum([k \in DOMAIN entries |-> entries[k].bytes])
StartOf(entries, k) == UnpackedSize(SubSeq(entries, 1, k - 1))

\* The first and the last segment lose the chunks outside rng, if a CAS block
\* gives the chunks' sizes.
trimSegment(seg, start, rng) ==
    LET at(c) == start + SizeOf(Slice(sh.cas[seg.xorb], seg.from, c))
        first == Max({seg.from} \cup {c \in seg.from + 1 .. seg.to : at(c) <= rng.start})
        last == Max({seg.from} \cup {c \in seg.from + 1 .. seg.to : at(c - 1) <= rng.end})
    IN IF \/ start >= rng.start /\ start + seg.bytes - 1 <= rng.end
          \/ seg.xorb \notin DOMAIN sh.cas
          \/ seg.to > Len(sh.cas[seg.xorb])
          \/ at(seg.to) # start + seg.bytes
          \/ first >= last
       THEN [term |-> seg, skipped |-> 0]
       ELSE [term |-> [seg EXCEPT !.from = first, !.to = last, !.bytes = at(last) - at(first)], skipped |-> at(first) - start]

ChunkDataRangeFromOffsets(x, from, to) == [start |-> PackedOf(SubSeq(x, 1, from)), end |-> PackedOf(SubSeq(x, 1, to)) - 1]

Entry(t) == [from |-> t.from, to |-> t.to, span |-> ChunkDataRangeFromOffsets(t.xorb, t.from, t.to)]

\* Of the ranges of a xorb that share their first chunk the longest is kept.
WithFetch(fetch, t) ==
    LET old == IF t.xorb \in DOMAIN fetch THEN fetch[t.xorb] ELSE <<>>
        same == {k \in DOMAIN old : old[k].from = t.from}
        new == IF same = {} THEN Append(old, Entry(t))
               ELSE [k \in DOMAIN old |-> IF k \in same /\ t.to > old[k].to THEN Entry(t) ELSE old[k]]
    IN [x \in DOMAIN fetch \cup {t.xorb} |-> IF x = t.xorb THEN new ELSE fetch[x]]

\* The API's first version has one range per URL.
Singly(ranges) == [k \in DOMAIN ranges |-> <<ranges[k]>>]

BuildReconstructionResponseV1(entries, rng) ==
    LET hit == SelectSeq([k \in DOMAIN entries |-> k],
                         LAMBDA k : StartOf(entries, k + 1) > rng.start /\ StartOf(entries, k) <= rng.end)
        cut == [j \in DOMAIN hit |-> trimSegment(entries[hit[j]], StartOf(entries, hit[j]), rng)]
        terms == [j \in DOMAIN hit |-> cut[j].term]
        ranges == FoldLeft(WithFetch, <<>>, terms)
    IN [offset |-> IF hit = <<>> THEN 0 ELSE Most(rng.start - StartOf(entries, hit[1]) - cut[1].skipped, 0),
        terms |-> terms,
        fetch |-> [x \in DOMAIN ranges |-> Singly(ranges[x])]]

\* The same ranges, as one multi-range fetch per xorb.
BuildReconstructionResponseV2(entries, rng) ==
    LET v1 == BuildReconstructionResponseV1(entries, rng)
    IN [v1 EXCEPT !.fetch = [x \in DOMAIN v1.fetch |-> <<FlattenSeq(v1.fetch[x])>>]]

-----------------------------------------------------------------------------
(* The split of its terms.                                                  *)

\* The requested bytes of [a, b) in a response that starts with the window.
Requested(w, a, b) == Most(Least(b, w.hi) - Most(a, w.lo), 0)

\* The response offset of chunk c of piece p.
At(p, c) == p.start + SizeOf(Slice(sh.cas[p.xorb], p.from, c))

\* Where a piece may be cut: both sides keep the floor of requested bytes.
Cuts(w, p) ==
    IF p.xorb \notin DOMAIN sh.cas THEN {}
    ELSE {c \in p.from + 1 .. p.to - 1 :
            /\ At(p, c) > w.lo /\ At(p, c) < w.hi
            /\ Requested(w, p.start, At(p, c)) >= w.floor
            /\ Requested(w, At(p, c), p.start + p.bytes) >= w.floor}

\* The cut nearest the middle of the requested bytes, the lower on a tie.
plan(w, p) ==
    LET mid == Most(p.start, w.lo) + Least(p.start + p.bytes, w.hi)
        far(c) == Most(2 * At(p, c) - mid, mid - 2 * At(p, c))
    IN CHOOSE c \in Cuts(w, p) : \A d \in Cuts(w, p) : far(c) < far(d) \/ (far(c) = far(d) /\ c <= d)

\* The pieces once the k-th is cut at its chunk c.
Halved(pieces, k, c) ==
    LET p == pieces[k]
        head == [p EXCEPT !.to = c, !.bytes = At(p, c) - p.start, !.split = TRUE]
        tail == [p EXCEPT !.from = c, !.bytes = p.start + p.bytes - At(p, c), !.start = At(p, c), !.split = TRUE]
    IN SubSeq(pieces, 1, k - 1) \o <<head, tail>> \o SubSeq(pieces, k + 1, Len(pieces))

\* The piece with the most requested bytes is halved, the first on a tie.
CutOnce(w, pieces) ==
    LET want(i) == Requested(w, pieces[i].start, pieces[i].start + pieces[i].bytes)
        open == {i \in DOMAIN pieces : Cuts(w, pieces[i]) # {}}
        largest == {k \in open : \A j \in open : want(k) > want(j) \/ (want(k) = want(j) /\ k <= j)}
        cut == {<<k, plan(w, pieces[k])>> : k \in largest}
    IN IF cut = {} THEN pieces ELSE CHOOSE q \in {Halved(pieces, x[1], x[2]) : x \in cut} : TRUE

Window(r, rng, setting) ==
    [lo |-> r.offset, hi |-> r.offset + Most(rng.end - rng.start + 1, 0), floor |-> Most(setting.piece, 1)]

\* The pieces of a response, or its terms if nothing is cut.
splitTerms(r, rng, setting) ==
    LET pieces == [k \in DOMAIN r.terms |-> [xorb |-> r.terms[k].xorb, from |-> r.terms[k].from, to |-> r.terms[k].to,
                                             bytes |-> r.terms[k].bytes, start |-> StartOf(r.terms, k), split |-> FALSE]]
        w == Window(r, rng, setting)
    IN FoldLeft(LAMBDA ps, n : IF Len(ps) < n THEN CutOnce(w, ps) ELSE ps, pieces,
                [n \in 1 .. (IF setting.terms <= 1 THEN 0 ELSE setting.terms) |-> n])

\* Defect: of the pieces that share their first chunk the shortest is kept.
RangesOfShortest(x, pieces) ==
    LET own == {p \in ToSet(pieces) : p.xorb = x}
        kept == {p \in own : \A q \in own : q.from = p.from => q.to >= p.to}
    IN SetToSortSeq({Entry(p) : p \in kept}, LAMBDA a, b : a.from < b.from)

\* The pieces of a xorb by first chunk, of those that share it the longest.
RangesOf(x, pieces) ==
    LET own == {p \in ToSet(pieces) : p.xorb = x}
        kept == {p \in own : \A q \in own : q.from = p.from => q.to <= p.to}
    IN SetToSortSeq({Entry(p) : p \in kept}, LAMBDA a, b : a.from < b.from)

SplitTerms(r, rng, setting, wrap(_)) ==
    LET pieces == splitTerms(r, rng, setting)
        cut == {p.xorb : p \in {q \in ToSet(pieces) : q.split}}
    IN [r EXCEPT !.terms = [k \in DOMAIN pieces |-> [xorb |-> pieces[k].xorb, from |-> pieces[k].from,
                                                     to |-> pieces[k].to, bytes |-> pieces[k].bytes]],
                 !.fetch = [x \in DOMAIN @ |-> IF x \in cut THEN wrap(RangesOf(x, pieces)) ELSE @[x]]]

SplitTermsV1(r, rng, setting) == SplitTerms(r, rng, setting, Singly)
SplitTermsV2(r, rng, setting) == SplitTerms(r, rng, setting, LAMBDA ranges : <<ranges>>)

-----------------------------------------------------------------------------
(* The handlers.                                                            *)

RangeOf(a) == ParseByteRange(a.header, UnpackedSize(sh.files[a.file]))

handleGetReconstruction ==
    /\ pc = "ask"
    /\ \E i \in DOMAIN files, h \in Header, s \in Setting :
          /\ ask' = [api |-> 1, file |-> i, header |-> h, split |-> s]
          /\ resp' = SplitTermsV1(BuildReconstructionResponseV1(sh.files[i], RangeOf(ask')), RangeOf(ask'), s)
    /\ pc' = "plan"
    /\ UNCHANGED <<files, sh, rd>>

handleGetReconstructionV2 ==
    /\ pc = "ask"
    /\ \E i \in DOMAIN files, h \in Header, s \in Setting :
          /\ ask' = [api |-> 2, file |-> i, header |-> h, split |-> s]
          /\ resp' = SplitTermsV2(BuildReconstructionResponseV2(sh.files[i], RangeOf(ask')), RangeOf(ask'), s)
    /\ pc' = "plan"
    /\ UNCHANGED <<files, sh, rd>>

NoRange == [bytes |-> FALSE, first |-> Absent, last |-> Absent]
Unsplit == [terms |-> 0, piece |-> 0]

\* The fetch ranges of all files in one map, each range once.
WithFile(fetch, f) ==
    [x \in DOMAIN fetch \cup DOMAIN f |->
        LET old == IF x \in DOMAIN fetch THEN fetch[x] ELSE <<>>
        IN old \o SelectSeq(IF x \in DOMAIN f THEN f[x] ELSE <<>>, LAMBDA e : ~Contains(old, e))]

handleBatchGetReconstruction ==
    /\ pc = "ask"
    /\ \E i \in DOMAIN files :
          LET single == [k \in DOMAIN files |->
                           BuildReconstructionResponseV1(sh.files[k], ParseByteRange(NoRange, UnpackedSize(sh.files[k])))]
          IN /\ ask' = [api |-> 0, file |-> i, header |-> NoRange, split |-> Unsplit]
             /\ resp' = [single[i] EXCEPT !.fetch = FoldLeft(WithFile, <<>>, [k \in DOMAIN single |-> single[k].fetch])]
    /\ pc' = "plan"
    /\ UNCHANGED <<files, sh, rd>>

-----------------------------------------------------------------------------
(* The client's reader.                                                     *)

\* The ranges holding the term's chunks; the one with the fewest packed bytes,
\* the first on a tie, is fetched.
Holding(ranges, t) == {k \in DOMAIN ranges : ranges[k].from <= t.from /\ ranges[k].to >= t.to}
Smallest(ranges, ks) ==
    LET span(k) == ranges[k].span.end - ranges[k].span.start
    IN ranges[CHOOSE k \in ks : \A m \in ks : span(k) < span(m) \/ (span(k) = span(m) /\ k <= m)]

selectFetchInfo(t) ==
    LET ranges == FlattenSeq(resp.fetch[t.xorb]) IN Smallest(ranges, Holding(ranges, t))

planReader ==
    /\ pc = "plan"
    /\ pc' = IF \A t \in ToSet(resp.terms) :
                   /\ t.xorb \in DOMAIN resp.fetch
                   /\ Holding(FlattenSeq(resp.fetch[t.xorb]), t) # {}
             THEN "read" ELSE "failed"
    /\ rd' = [term |-> 1, chunk |-> 0, skip |-> resp.offset, got |-> <<>>]
    /\ UNCHANGED <<files, sh, ask, resp>>

\* What a fetch of these bytes of a xorb decodes to.
Decoded(x, span) ==
    SelectSeq([k \in DOMAIN x |-> [chunk |-> x[k], span |-> ChunkDataRangeFromOffsets(x, k - 1, k)]],
              LAMBDA p : p.span.start >= span.start /\ p.span.end <= span.end)

\* Defect: the skip is applied to the first chunk only.
SkippedOnce(c) == IF rd.term = 1 /\ rd.chunk = 0 THEN Least(rd.skip, Size[c]) ELSE 0

\* The offset into the first term may span several chunks.
Skipped(c) == IF rd.term = 1 THEN Least(rd.skip, Size[c]) ELSE 0

fill ==
    /\ pc = "read" /\ rd.term <= Len(resp.terms)
    /\ LET t == resp.terms[rd.term]
           s == selectFetchInfo(t)
           c == Decoded(t.xorb, s.span)[t.from - s.from + rd.chunk + 1].chunk
           last == t.from + rd.chunk + 1 = t.to
       IN rd' = [term |-> IF last THEN rd.term + 1 ELSE rd.term,
                 chunk |-> IF last THEN 0 ELSE rd.chunk + 1,
                 skip |-> rd.skip - Skipped(c),
                 got |-> rd.got \o SubSeq(Bytes(c), Skipped(c) + 1, Size[c])]
    /\ UNCHANGED <<pc, files, sh, ask, resp>>

EOF ==
    /\ pc = "read" /\ rd.term > Len(resp.terms)
    /\ pc' = "eof"
    /\ UNCHANGED <<files, sh, ask, resp, rd>>

ReconstructInit ==
    /\ pc = "upload" /\ files = <<>> /\ sh = [files |-> <<>>, cas |-> <<>>]
    /\ ask = [api |-> 0, file |-> 0, header |-> NoRange, split |-> Unsplit]
    /\ resp = [offset |-> 0, terms |-> <<>>, fetch |-> <<>>]
    /\ rd = [term |-> 1, chunk |-> 0, skip |-> 0, got |-> <<>>]

ReconstructNext ==
    \/ UploadFiles \/ PutShard
    \/ handleGetReconstruction \/ handleGetReconstructionV2 \/ handleBatchGetReconstruction
    \/ planReader \/ fill \/ EOF

-----------------------------------------------------------------------------
\* The response is there, and does not change any more.
Answered == pc = "plan"

\* The positions of the bytes asked for.
Wanted == IF pc \in {"plan", "read", "eof"} THEN {p \in 0 .. UnpackedSize(sh.files[ask.file]) - 1 : p >= RangeOf(ask).start /\ p <= RangeOf(ask).end} ELSE {}

\* The shard BuildShard makes of any mix of located and new chunks passes the
\* server's Validate and PrepareShard.
UploadAccepted == pc # "refused"

\* Every term of a response, split or not, of one file or of a batch, has a
\* fetch range that holds its chunks.
Fetchable == pc # "failed"

\* ParseByteRange selects the bytes RFC 9110 gives the header, clamped to the
\* file; a header that is no single valid range selects the whole file.
RangeExact ==
    Answered => LET size == Len(Content(files[ask.file]))
                    h == ask.header
                    valid == h.bytes /\ (h.first >= 0 \/ h.last >= 0) /\ Malformed \notin {h.first, h.last}
                             /\ (h.first >= 0 /\ h.last >= 0 => h.first <= h.last)
                IN Wanted = {p \in 0 .. size - 1 : valid => IF h.first = Absent THEN p >= size - h.last
                                                            ELSE p >= h.first /\ (h.last >= 0 => p <= h.last)}

\* The reader delivers the file's bytes from the first requested one on, in
\* order, and at the end all that were requested, as many as ExpectedLength
\* announced.
Delivered ==
    pc \in {"read", "eof"} =>
        LET rest == IF Wanted = {} THEN <<>> ELSE SubSeq(Content(files[ask.file]), Min(Wanted) + 1, Len(Content(files[ask.file])))
        IN /\ IsPrefix(rd.got, rest)
           /\ pc = "eof" => /\ Len(rd.got) >= Cardinality(Wanted)
                            /\ Len(rd.got) = UnpackedSize(resp.terms) - resp.offset

\* "so OffsetIntoFirstRange stays within the first chunk": a response to a range
\* within xorbs the shard describes has no chunk without a requested byte.
Trimmed ==
    Answered /\ Wanted # {} =>
        LET first == Head(resp.terms) last == Last(resp.terms)
            over == UnpackedSize(resp.terms) - resp.offset - Cardinality(Wanted)
        IN /\ first.xorb \in DOMAIN sh.cas => resp.offset < Size[first.xorb[first.from + 1]]
           /\ last.xorb \in DOMAIN sh.cas => over < Size[last.xorb[last.to]]

\* The requested bytes of the response's k-th term if it ended, or began, at
\* chunk c.
Share(k, from, to) ==
    LET t == resp.terms[k]
        start == RangeOf(ask).start - resp.offset + StartOf(resp.terms, k)
        a == start + SizeOf(Slice(t.xorb, t.from, from))
        b == start + SizeOf(Slice(t.xorb, t.from, to))
    IN Cardinality({p \in Wanted : p >= a /\ p < b})

\* The terms are split until there are splitMinTerms of them or every further
\* cut would leave a side under splitPieceBytes requested bytes.
SplitReaches ==
    Answered /\ Len(resp.terms) < ask.split.terms =>
        \A k \in DOMAIN resp.terms : resp.terms[k].xorb \in DOMAIN sh.cas =>
            \A c \in resp.terms[k].from + 1 .. resp.terms[k].to - 1 :
                Share(k, resp.terms[k].from, c) < Most(ask.split.piece, 1) \/ Share(k, c, resp.terms[k].to) < Most(ask.split.piece, 1)

\* ... and no split term is left under splitPieceBytes requested bytes: two terms
\* that adjoin in a xorb are pieces of one.
FloorKept ==
    Answered => \A k \in DOMAIN resp.terms :
        LET t == resp.terms[k]
            adjoins(m) == m \in DOMAIN resp.terms /\ resp.terms[m].xorb = t.xorb
        IN \/ adjoins(k - 1) /\ resp.terms[k - 1].to = t.from
           \/ adjoins(k + 1) /\ resp.terms[k + 1].from = t.to
           => Share(k, t.from, t.to) >= Most(ask.split.piece, 1)

\* Every shard the upload builds is accepted, and every response it leads to can
\* be fetched, asks for no chunk in vain and is split as far as it was asked to.
ResponsesSound == UploadAccepted /\ Fetchable /\ Trimmed /\ SplitReaches /\ FloorKept

\* From the header to the last byte read: the range meant is the range delivered.
DeliveredExact == RangeExact /\ Delivered
=============================================================================
