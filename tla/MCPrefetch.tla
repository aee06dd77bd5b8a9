----------------------------- MODULE MCPrefetch -----------------------------
(* A file of three terms over two fetches, the third returning to the second   *)
(* chunk of the first one's fetch, and one of a single chunk, opened with      *)
(* their hash; and a resumed one, whose offset skips a chunk of its first      *)
(* term.                                                                       *)
EXTENDS Prefetch

CONSTANTS k1, k2

MCChunks == [k \in Key |-> IF k = k1 THEN 2 ELSE 1]
File == <<[key |-> k1, from |-> 0, to |-> 2], [key |-> k2, from |-> 0, to |-> 1], [key |-> k1, from |-> 1, to |-> 2]>>
Resumed == <<[key |-> k1, from |-> 0, to |-> 2], [key |-> k1, from |-> 1, to |-> 2]>>
Single == <<[key |-> k2, from |-> 0, to |-> 1]>>
MCOpening ==
    {[plan |-> p, skip |-> 0, verify |-> TRUE] : p \in {File, Single}} \cup {[plan |-> Resumed, skip |-> 1, verify |-> v] : v \in BOOLEAN}
MCOrder == <<k1, k2>>
=============================================================================
