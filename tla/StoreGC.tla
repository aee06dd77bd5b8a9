------------------------------ MODULE StoreGC ------------------------------
(***************************************************************************)
(* Uploads and the sweep run against one store.  Three history variables   *)
(* record exactly the races the sweep does not close, so that everything   *)
(* else can be claimed without an exception.                               *)
(***************************************************************************)
EXTENDS Sweep

VARIABLES
    raced,     \* shards an entry came to point at while they were being swept
    bypassed,  \* shards deleted under a commit that had found them stored
    atRisk     \* shard -> reused xorbs the sweep could not know it needs

history == <<raced, bypassed, atRisk>>
vars == <<storeVars, uploadVars, sweepVars, history>>

\* u relies on the object of s and is writing entries that point at it.
Committing(u, s) == upc[u] = "indexes" /\ ujob[u] = s

\* The object of s lands behind phase 2's cursor, or a xorb is gone already.
Late(s) ==
    \/ gpc = "xorbs"
    \/ gpc = "mark" /\ s \notin gtodo
    \/ ~(Refs[s] \subseteq xorbs)

\* The xorbs written by the upload that lands the object of s in this step.
OwnXorbs(s) ==
    UNION {uown[u] : u \in {v \in Uploader : /\ upc[v] = "shard" /\ ujob[v] = s
                                             /\ upc'[v] = "indexes"}}

Record ==
    /\ raced' = {s \in Shard : /\ s \notin shards' \/ s = gcur'
                               /\ \/ s \in raced
                                  \/ s = gcur /\ \E k \in Key : index[k] # s /\ index'[k] = s}
    /\ bypassed' = {s \in Shard : /\ s \notin shards'
                                  /\ \/ s \in bypassed
                                     \/ s \in shards /\ \E u \in Uploader : Committing(u, s)}
    /\ atRisk' = [s \in Shard |->
                    IF s \in shards' \ shards
                    THEN IF Late(s) THEN Refs[s] \ OwnXorbs(s) ELSE {}
                    ELSE atRisk[s]]

\* The clock.  The window only covers uploads that are over within it.
Tick ==
    /\ now < MaxTime
    /\ \A u \in Uploader : upc[u] # "idle" => now < uborn[u] + Grace
    /\ now' = now + 1
    /\ UNCHANGED <<objectVars, index, uploadVars, sweepVars>>

Init ==
    /\ StoreInit /\ UploadInit /\ SweepInit
    /\ raced = {} /\ bypassed = {} /\ atRisk = [s \in Shard |-> {}]

Step ==
    \/ \E u \in Uploader : UploadStep(u) /\ UNCHANGED sweepVars
    \/ SweepStep /\ UNCHANGED uploadVars
    \/ \E f \in File : Unlink(f)
    \/ \E d \in Digest : UnlinkSHA256(d)
    \/ Tick

Next == Step /\ Record

Spec == Init /\ [][Next]_vars

TypeOK ==
    /\ StoreTypeOK /\ UploadTypeOK /\ SweepTypeOK
    /\ raced \subseteq Shard
    /\ bypassed \subseteq Shard
    /\ atRisk \in [Shard -> SUBSET Xorb]

\* Every entry of the three indexes points at a stored shard, unless an
\* upload raced the deletion of that very shard: hasFile, the dedup probe and
\* the SHA-256 lookup never trust an entry the sweep left behind.
NoDangling == \A k \in Key : index[k] \in shards \cup raced \cup bypassed \cup {None}

\* A xorb is live while any stored shard references it: a stored shard misses
\* a xorb only if its object landed behind phase 2's walk and the xorb was
\* reused from an earlier upload.
ShardsWhole == \A s \in shards : Refs[s] \subseteq xorbs \cup atRisk[s]

\* The grace window shields an upload in progress: no object it wrote is
\* missing, or condemned by the running pass.
GraceShields ==
    \A u \in Uploader :
        /\ uown[u] \subseteq xorbs \ gdeadx
        /\ wasInserted[u] => ujob[u] \in shards \ (gdead \cup {gcur})

Readable(f) == index[f] \in shards /\ Refs[index[f]] \subseteq xorbs

\* The shard the file resolves to is one a race may take from it.
Exposed(f) ==
    /\ index[f] # None
    /\ index[f] \in raced \cup bypassed \/ atRisk[index[f]] # {}

\* What keeps a shard from a sha256 sweep.
SHA256Anchored(s) ==
    \/ \E d \in Digest : index[d] = s
    \/ hasUnanchorableFile(s) /\ \E f \in File : index[f] = s

\* A readable file stays readable until someone unlinks it, or a sha256
\* sweep drops its entry, which takes a shard nothing anchors or an entry
\* that was rewritten since it was read, or the shard it resolves to is in a
\* race.
ReadableKept ==
    [][\A f \in File :
         Readable(f) /\ ~Readable(f)'
            => \/ Unlink(f)
               \/ /\ ganchor = "sha256" /\ ghit = f
                  /\ index[f] = gcur => ~SHA256Anchored(gcur)
               \/ Exposed(f) \/ Exposed(f)']_vars

\* The losses the comment on Sweep accepts, and no other: an entry dangles
\* only if it came to point at the shard while sweepShard was at work on it.
UploadsShielded == \A k \in Key : index[k] \in shards \cup raced \cup {None}

\* The entry of a file is not swept while the SHA-256 of the file anchors a
\* stored shard that describes it.
LiveFileResolvable ==
    [][\A f \in File :
         index[f] # None /\ index'[f] = None
            => \/ Unlink(f)
               \/ index[ShaOf[f]] \notin {s \in shards : f \in FilesOf[s]}]_vars
=============================================================================
