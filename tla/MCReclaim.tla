----------------------------- MODULE MCReclaim -----------------------------
(***************************************************************************)
(* Two shards: s1 with a file and an empty file, s2 with the same file     *)
(* once more; they share a xorb and a chunk, and s2 has a xorb of its own. *)
(***************************************************************************)
EXTENDS Reclaim

CONSTANTS x1, x2, s1, s2, f1, f0, d1, c1

MCRefs == [s \in Shard |-> IF s = s1 THEN {x1} ELSE Xorb]
MCFilesOf == [s \in Shard |-> IF s = s1 THEN {f1, f0} ELSE {f1}]
MCChunksOf == [s \in Shard |-> Chunk]
MCShaOf == [f \in File |-> IF f = f1 THEN d1 ELSE Zero]
=============================================================================
