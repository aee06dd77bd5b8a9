------------------------------- MODULE Resume -------------------------------
(***************************************************************************)
(* DownloadFile into a file that may already hold part of the content, or  *)
(* something else: the query from the current size on, its restart from    *)
(* the beginning, the fallback from V2 to V1, and the copy.  Calls may     *)
(* fail anywhere and be repeated.                                          *)
(***************************************************************************)
EXTENDS Integers, Sequences

CONSTANTS
    Length,        \* of the file, in chunks
    Found,         \* what the output file may hold at first
    MaxDownloads   \* bound: calls of DownloadFile

ASSUME ResumeAssumption == Length \in Nat \ {0} /\ MaxDownloads \in Nat

VARIABLES
    out,    \* the output file: chunk numbers, 0 for anything else
    dl,     \* [pc, api, from, next, pos, n, bad]: the call
    clean,  \* the file held a prefix of the content at first, and no download was corrupt
    calls

resumeVars == <<out, dl, clean, calls>>

FileContent == [k \in 1 .. Length |-> k]

ResumeInit ==
    /\ out \in Found
    /\ dl = [pc |-> "start", api |-> 2, from |-> 0, next |-> 0, pos |-> 0, n |-> 0, bad |-> FALSE]
    /\ clean = (Len(out) <= Length /\ \A k \in DOMAIN out : out[k] = k)
    /\ calls = 0

\* downloadFile: w is sought to its end, and the chunks from there are asked
\* for.  from: the resume offset; next: the content's next chunk; pos: w's
\* position; n: chunks copied.
SeekEnd(api) == [pc |-> "query", api |-> api, from |-> Len(out), next |-> Len(out), pos |-> Len(out), n |-> 0, bad |-> FALSE]

DownloadFile ==
    /\ dl.pc \in {"start", "ok", "error"} /\ calls < MaxDownloads
    /\ dl' = SeekEnd(2) /\ calls' = calls + 1
    /\ UNCHANGED <<out, clean>>

Settle(result) == dl' = [dl EXCEPT !.pc = result]

\* The server has no such file, or no V2 endpoint: V1 starts over at the same
\* size.
NotFound ==
    /\ dl.pc = "query"
    /\ IF dl.api = 2 THEN dl' = SeekEnd(1) ELSE Settle("error")
    /\ UNCHANGED <<out, clean, calls>>

Unauthorized ==
    /\ dl.pc = "query"
    /\ Settle("error")
    /\ UNCHANGED <<out, clean, calls>>

\* Defect: a call that began as a resume is not verified.
RestartResumed == [dl EXCEPT !.next = 0, !.pos = 0]

\* w is sought to its start and the whole file asked for.
Restart == [dl EXCEPT !.from = 0, !.next = 0, !.pos = 0]

\* Any other failure of the query: one with a range is repeated without.
Rejected ==
    /\ dl.pc = "query"
    /\ IF dl.next > 0 THEN dl' = Restart ELSE Settle("error")
    /\ UNCHANGED <<out, clean, calls>>

\* The reconstruction of the range asked for, with no terms for one from or past
\* the end of the file.
Reconstructed ==
    /\ dl.pc = "query"
    /\ Settle("copy")
    /\ UNCHANGED <<out, clean, calls>>

Written(chunk) ==
    [k \in 1 .. (IF dl.pos < Len(out) THEN Len(out) ELSE dl.pos + 1) |-> IF k = dl.pos + 1 THEN chunk ELSE out[k]]

\* io.Copy, a chunk at a time; a chunk may be corrupt.
CopyChunk ==
    /\ dl.pc = "copy" /\ dl.next < Length
    /\ \E chunk \in {dl.next + 1, 0} :
          /\ out' = Written(chunk)
          /\ dl' = [dl EXCEPT !.next = @ + 1, !.pos = @ + 1, !.n = @ + 1, !.bad = @ \/ chunk = 0]
          /\ clean' = (clean /\ chunk # 0)
    /\ UNCHANGED calls

\* The copy stops.  A xorb the server does not find looks like a missing V2
\* endpoint: V1 goes on after what V2 wrote.
CopyFails ==
    /\ dl.pc = "copy"
    /\ \/ Settle("error")
       \/ dl.api = 2 /\ dl.next < Length /\ dl' = SeekEnd(1)
    /\ UNCHANGED <<out, clean, calls>>

\* The end: only a download of the whole file is verified against its hash.
CopyEnd ==
    /\ dl.pc = "copy" /\ dl.next >= Length
    /\ Settle(IF dl.from = 0 /\ dl.bad THEN "error" ELSE "ok")
    /\ UNCHANGED <<out, clean, calls>>

ResumeNext ==
    \/ DownloadFile \/ NotFound \/ Unauthorized \/ Rejected \/ Reconstructed
    \/ CopyChunk \/ CopyFails \/ CopyEnd

-----------------------------------------------------------------------------
\* However often a download was interrupted, resumed, restarted or sent to the
\* other API version, one that succeeds leaves exactly the file's content,
\* provided the file held a prefix of the content at first and no chunk ever
\* received was corrupt: a resume checks neither what it finds nor what it adds.
ResumedExact == dl.pc = "ok" /\ clean => out = FileContent

\* A call that copied the whole file in one go, after a restart or not, and
\* succeeded, has verified it: the output begins with the content whatever was
\* there before, and whatever came corrupt.
RestartVerified == dl.pc = "ok" /\ dl.n = Length => SubSeq(out, 1, Length) = FileContent
=============================================================================
