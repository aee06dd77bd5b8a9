----------------------------- MODULE MCStoreGC -----------------------------
(***************************************************************************)
(* Small catalogues for StoreGC.  Shards share the xorb x1 and the chunk   *)
(* in it; the second one also has a xorb of its own.  A configuration      *)
(* takes as many of each as its question needs.                            *)
(***************************************************************************)
EXTENDS StoreGC, TLC

CONSTANTS x1, x2, s1, s2, f1, f2, d1, d2, c1, u1, u2

MCRefs == [s \in Shard |-> Xorb \cap (IF s = s1 THEN {x1} ELSE {x1, x2})]
MCFilesOf == [s \in Shard |-> IF s = s1 THEN {f1} ELSE {f2}]
MCChunksOf == [s \in Shard |-> Chunk]
MCShaOf == [f \in File |-> IF f = f1 THEN d1 ELSE d2]

MCSymmetry == Permutations(Uploader)
=============================================================================
