------------------------------- MODULE MCLFS -------------------------------
(***************************************************************************)
(* A catalogue for the sha256 anchor: s2 describes the file of s1 once     *)
(* more, next to an empty file.                                            *)
(***************************************************************************)
EXTENDS StoreGC

CONSTANTS x1, s1, s2, f1, f0, d1, u1

MCRefs == [s \in Shard |-> Xorb]
MCFilesOf == [s \in Shard |-> IF s = s1 THEN {f1} ELSE {f1, f0}]
MCChunksOf == [s \in Shard |-> Chunk]
MCShaOf == [f \in File |-> IF f = f1 THEN d1 ELSE Zero]
=============================================================================
