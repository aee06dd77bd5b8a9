------------------------------ MODULE Delivery ------------------------------
(***************************************************************************)
(* What the mirror's spool promises its callers, free of flights, files    *)
(* and followers: a caller asks for a source and is settled once, with a   *)
(* failure or with content that is in storage and is what its own source   *)
(* described.  Storage outlives a restart, callers do not.                 *)
(***************************************************************************)
EXTENDS Integers, Sequences

CONSTANTS Caller, Source, Body, None, Failed

VARIABLES
    asked,  \* caller -> its source, None when it has not asked
    got,    \* caller -> what it was settled with, None until then
    kept    \* the contents in storage

deliveryVars == <<asked, got, kept>>

\* The source's own expectations, unknown ones admit any content.
Fits(b, s) ==
    /\ s.size < 0 \/ Len(b) = s.size
    /\ s.sha = None \/ s.sha = b

DeliveryInit ==
    /\ asked = [c \in Caller |-> None]
    /\ got = [c \in Caller |-> None]
    /\ kept = {}

Ask(c, s) ==
    /\ asked[c] = None
    /\ asked' = [asked EXCEPT ![c] = s]
    /\ UNCHANGED <<got, kept>>

Keep(b) ==
    /\ kept' = kept \cup {b}
    /\ UNCHANGED <<asked, got>>

\* Empty files are never stored.
Settle(c, b) ==
    /\ asked[c] # None /\ got[c] = None
    /\ b = Failed \/ (Fits(b, asked[c]) /\ (b \in kept \/ b = <<>>))
    /\ got' = [got EXCEPT ![c] = b]
    /\ UNCHANGED <<asked, kept>>

Restart ==
    /\ asked' = [c \in Caller |-> None]
    /\ got' = [c \in Caller |-> None]
    /\ UNCHANGED kept

DeliveryNext ==
    \/ \E c \in Caller, s \in Source : Ask(c, s)
    \/ \E b \in Body : Keep(b)
    \/ \E c \in Caller, b \in Body \cup {<<>>, Failed} : Settle(c, b)
    \/ Restart

DeliverySpec == DeliveryInit /\ [][DeliveryNext]_deliveryVars
=============================================================================
