------------------------------ MODULE MCUpload ------------------------------
(* Two processes over one cache directory.  s1's two files make two xorbs; s2's *)
(* file shares a chunk with them.                                               *)
EXTENDS Upload

CONSTANTS a, b, c, s1, s2

MCFile == {<<a, b>>, <<b>>, <<b, c>>}
MCFiles == [s \in Session |-> IF s = s1 THEN <<<<a, b>>, <<b>>>> ELSE <<<<b, c>>>>]
MCSize == [x \in Chunk |-> IF x = a THEN 2 ELSE 1]
=============================================================================
