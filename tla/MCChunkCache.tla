---------------------------- MODULE MCChunkCache ----------------------------
(* Instances of ChunkCache for TLC.                                        *)
EXTENDS ChunkCache, TLC

CONSTANTS p1, p2, u1, u2, u3

MCOwner == u1 :> p1 @@ u2 :> p2 @@ u3 :> p2 @@ p1 :> p1 @@ p2 :> p2
MCInode == 1 .. 7
\* Swapping the processes gives the other pairs of ranges; u3 is there to be
\* caught reading.
MCWanted == u1 :> {<<0, 1>>, <<0, 2>>, <<1, 2>>} @@ u2 :> {<<0, 1>>, <<0, 2>>} @@ u3 :> {}

\* What the program comes to after more sessions than the bound starts, with
\* its failures behind it: what the managers p1 and p2 know, and no pass to come
\* but of those in ps.
Whole(k) == [Blank EXCEPT !.chunks = k, !.head = "patched", !.trailer = TRUE]
Known(a, b, ps) ==
    /\ lru = (p1 :> a @@ p2 :> b)
    /\ total = [p \in Proc |-> Bytes({lru[p][i].path : i \in DOMAIN lru[p]})]
    /\ verified = [p \in Proc |-> {lru[p][i].path : i \in DOMAIN lru[p]}]
    /\ paused = [p \in Proc |-> FALSE] /\ scanned = [p \in Proc |-> TRUE]
    /\ pending = [p \in Proc |-> p \in ps]
    /\ adrift = FALSE /\ events = MaxEvents
Unused(r) == [path |-> r, refs |-> 0]

\* p1 has written an entry, and p2 has evicted it.
Evicted ==
    /\ Known(<<Unused(<<0, 1>>)>>, <<>>, {})
    /\ names = [r \in Range2 |-> None] /\ files = [i \in Inode |-> Blank]
    /\ ses = [s \in Session |-> Idle]
    /\ opens = 0

\* Three entries that touch, one of p2 and two of p1, not merged yet.
Scattered ==
    /\ Known(<<Unused(<<0, 1>>), Unused(<<1, 2>>)>>, <<Unused(<<2, 3>>)>>, {p1})
    /\ names = [r \in Range2 |-> IF Size(r) = 1 THEN r[2] ELSE None]
    /\ files = [i \in Inode |-> IF i <= 3 THEN Whole(1) ELSE Blank]
    /\ ses = [s \in Session |-> Idle]
    /\ opens = MaxOpens - 1

\* u1 waits for the lock of an entry u3 has sealed and reads, and u2, which had
\* not found it yet, is about to write its own.
Contended ==
    LET whole == <<0, 2>>
        part == <<0, 1>>
    IN  /\ Known(<<>>, <<[path |-> whole, refs |-> 1]>>, {p2})
        /\ names = [r \in Range2 |-> IF r = whole THEN 1 ELSE IF r = part THEN 2 ELSE None]
        /\ files = [i \in Inode |-> IF i = 1 THEN Whole(2) ELSE IF i = 2 THEN [Blank EXCEPT !.lock = u2] ELSE Blank]
        /\ ses = [[s \in Session |-> Idle] EXCEPT
                    ![u1] = [@ EXCEPT !.pc = "flock", !.range = whole, !.fd = 1],
                    ![u2] = [@ EXCEPT !.pc = "truncate", !.range = part, !.fd = 2],
                    ![u3] = [@ EXCEPT !.pc = "read", !.range = whole, !.refs = <<whole>>,
                                      !.held = <<[path |-> whole, inode |-> 1]>>]]
        /\ opens = MaxOpens

MCInit == Init \/ Evicted \/ Scattered \/ Contended
MCSpec == MCInit /\ [][Next]_vars
=============================================================================
