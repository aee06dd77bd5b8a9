------------------------------ MODULE MCSpool ------------------------------
(* Instances of Spool for TLC.                                             *)
EXTENDS Spool

S(key, etag, size, sha, xet) == [key |-> key, etag |-> etag, size |-> size, sha |-> sha, xet |-> xet]

MCUpstream == {<<1, 2>>}

\* The same content wanted with and without a known length, and an opaque etag
\* over xet.
MCSource == {S("a", "h1", -1, None, FALSE), S("b", "h1", 2, None, FALSE), S("c", "tag", -1, None, TRUE)}

MCInode == 1 .. 2 * Cardinality(Task) + Cardinality(Path) + 1

=============================================================================
