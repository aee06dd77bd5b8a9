------------------------------ MODULE Grouping ------------------------------
(***************************************************************************)
(* How an upload lays out chunks in xorbs.  A xorb is the sequence of its  *)
(* chunks: its hash is its content.                                        *)
(***************************************************************************)
EXTENDS Integers, SequencesExt

CONSTANTS
    Size,        \* Size[c]: the bytes of chunk c
    MaxXorbSize, MaxChunksPerXorb

\* A chunk that would push the xorb past a limit opens the next one.
Grouped(groups, c) ==
    LET last == groups[Len(groups)]
        bytes == FoldLeft(LAMBDA n, d : n + Size[d], 0, last)
    IN IF groups = <<>> THEN <<<<c>>>>
       ELSE IF bytes + Size[c] > MaxXorbSize \/ Len(last) >= MaxChunksPerXorb THEN Append(groups, <<c>>)
       ELSE [groups EXCEPT ![Len(groups)] = Append(@, c)]

GroupChunkIndicesBySize(chunks) == FoldLeft(Grouped, <<>>, chunks)

\* Where each chunk of a xorb is.
Locations(x) == [c \in ToSet(x) |-> [xorb |-> x, at |-> CHOOSE i \in DOMAIN x : x[i] = c]]

Holds(loc, c) == loc.at \in DOMAIN loc.xorb /\ loc.xorb[loc.at] = c

\* mergeDedupResults: a location already known is never overwritten.
Merge(dst, src) == [c \in DOMAIN dst \cup DOMAIN src |-> IF c \in DOMAIN dst THEN dst[c] ELSE src[c]]
=============================================================================
