------------------------------- MODULE Commit -------------------------------
(***************************************************************************)
(* Uploads: PutXorb for each new xorb, then PutShard, one storage call per *)
(* step.  An upload may fail or its process may crash between any two      *)
(* calls; whoever uploads the content again starts over.                   *)
(***************************************************************************)
EXTENDS Store

CONSTANTS
    Uploader,  \* concurrent uploads
    Grace,     \* the sweep's grace window, in clock ticks
    MayFail,   \* TRUE: any storage call of an upload or a sweep may fail
    Stale      \* TRUE: the read caches may answer for what was deleted

ASSUME GraceAssumption == Grace \in Nat /\ MayFail \in BOOLEAN /\ Stale \in BOOLEAN

VARIABLES
    upc,          \* the call an upload is at
    ujob,         \* the shard it commits
    utodo,        \* what is left of the loop it is in
    uwait,        \* the object or entry it probed and found missing
    uown,         \* the xorbs it wrote itself
    uborn,        \* when it started
    wasInserted   \* it wrote the shard object, rather than found it stored

uploadVars == <<upc, ujob, utodo, uwait, uown, uborn, wasInserted>>

UploadStage == {"idle", "xorbs", "hasFile", "prepare", "shard", "indexes"}

UploadInit ==
    /\ upc = [u \in Uploader |-> "idle"]
    /\ ujob = [u \in Uploader |-> None]
    /\ utodo = [u \in Uploader |-> {}]
    /\ uwait = [u \in Uploader |-> None]
    /\ uown = [u \in Uploader |-> {}]
    /\ uborn = [u \in Uploader |-> 0]
    /\ wasInserted = [u \in Uploader |-> FALSE]

UploadTypeOK ==
    /\ upc \in [Uploader -> UploadStage]
    /\ ujob \in [Uploader -> Shard \cup {None}]
    /\ \A u \in Uploader : upc[u] # "idle" => ujob[u] \in Shard
    /\ utodo \in [Uploader -> SUBSET (Xorb \cup Key)]
    /\ uwait \in [Uploader -> Xorb \cup Key \cup {None}]
    /\ uown \in [Uploader -> SUBSET Xorb]
    /\ uborn \in [Uploader -> Nat]
    /\ wasInserted \in [Uploader -> BOOLEAN]

Goto(u, stage, todo) ==
    /\ upc' = [upc EXCEPT ![u] = stage]
    /\ utodo' = [utodo EXCEPT ![u] = todo]

\* The upload is over, whether it succeeded or not.
Return(u) ==
    /\ Goto(u, "idle", {})
    /\ ujob' = [ujob EXCEPT ![u] = None]
    /\ uwait' = [uwait EXCEPT ![u] = None]
    /\ uown' = [uown EXCEPT ![u] = {}]
    /\ uborn' = [uborn EXCEPT ![u] = 0]
    /\ wasInserted' = [wasInserted EXCEPT ![u] = FALSE]

Advance(u, x) == utodo' = [utodo EXCEPT ![u] = @ \ {x}]

\* PutShardIndexes writes chunk entries, then sha256 entries, files entries
\* last.
IsNextEntry(u, k) ==
    /\ k \in utodo[u]
    /\ k \in Digest \cup {Zero} => utodo[u] \cap Chunk = {}
    /\ k \in File => utodo[u] \subseteq File

\* PutFile, or a client: of the xorbs the shard references, fresh ones are
\* uploaded; the others were located through the dedup index or a client's
\* cache of it, which may be stale.
Begin(u, s, fresh) ==
    /\ upc[u] = "idle"
    /\ Goto(u, "xorbs", fresh)
    /\ ujob' = [ujob EXCEPT ![u] = s]
    /\ uborn' = [uborn EXCEPT ![u] = now]
    /\ UNCHANGED <<storeVars, uwait, uown, wasInserted>>

\* PutXorb, first half: an object already stored is left untouched, its
\* modification time included.
PutXorbProbe(u, x) ==
    /\ upc[u] = "xorbs" /\ uwait[u] = None /\ x \in utodo[u]
    /\ \/ /\ x \in xorbs
          /\ Advance(u, x)
          /\ UNCHANGED uwait
       \/ /\ x \notin xorbs
          /\ uwait' = [uwait EXCEPT ![u] = x]
          /\ UNCHANGED utodo
    /\ UNCHANGED <<storeVars, upc, ujob, uown, uborn, wasInserted>>

\* PutXorb, second half: the validated temporary file is renamed into place.
PutXorbWrite(u, x) ==
    /\ upc[u] = "xorbs" /\ uwait[u] = x /\ x \in Xorb
    /\ StoreXorb(x)
    /\ Advance(u, x)
    /\ uwait' = [uwait EXCEPT ![u] = None]
    /\ uown' = [uown EXCEPT ![u] = @ \cup {x}]
    /\ UNCHANGED <<upc, ujob, uborn, wasInserted>>

PutShard(u) ==
    /\ upc[u] = "xorbs" /\ utodo[u] = {}
    /\ Goto(u, "hasFile", FilesOf[ujob[u]])
    /\ UNCHANGED <<storeVars, ujob, uwait, uown, uborn, wasInserted>>

\* Only a shard whose every file is already indexed is a no-op.  A cached
\* files entry counts as one, and may be stale.
HasFile(u, f) ==
    /\ upc[u] = "hasFile" /\ f \in utodo[u]
    /\ \/ /\ index[f] = None
          /\ Goto(u, "prepare", Refs[ujob[u]])
          /\ UNCHANGED <<ujob, uwait, uown, uborn, wasInserted>>
       \/ /\ index[f] # None \/ Stale
          /\ utodo[u] # {f}
          /\ Advance(u, f)
          /\ UNCHANGED <<upc, ujob, uwait, uown, uborn, wasInserted>>
       \/ /\ index[f] # None \/ Stale
          /\ utodo[u] = {f}
          /\ Return(u)
    /\ UNCHANGED storeVars

\* PrepareShard decodes every xorb the shard names; a missing one is an
\* error, unless a mapping of it is still cached.
PrepareXorb(u, x) ==
    /\ upc[u] = "prepare" /\ x \in utodo[u]
    /\ \/ /\ x \in xorbs \/ Stale
          /\ Advance(u, x)
          /\ UNCHANGED <<upc, ujob, uwait, uown, uborn, wasInserted>>
       \/ /\ x \notin xorbs
          /\ Return(u)
    /\ UNCHANGED storeVars

\* A shard object already stored is not written again.
StatShard(u) ==
    /\ upc[u] = "prepare" /\ utodo[u] = {}
    /\ \/ /\ ujob[u] \in shards
          /\ Goto(u, "indexes", KeysOf(ujob[u]))
       \/ /\ ujob[u] \notin shards
          /\ Goto(u, "shard", {})
    /\ UNCHANGED <<storeVars, ujob, uwait, uown, uborn, wasInserted>>

WriteShard(u) ==
    /\ upc[u] = "shard"
    /\ StoreShard(ujob[u])
    /\ Goto(u, "indexes", KeysOf(ujob[u]))
    /\ wasInserted' = [wasInserted EXCEPT ![u] = TRUE]
    /\ UNCHANGED <<ujob, uwait, uown, uborn>>

\* putIndexObject: S3 overwrites without probing.
PutIndexObject(u, k) ==
    /\ Overwrite
    /\ upc[u] = "indexes" /\ IsNextEntry(u, k)
    /\ SetEntry(k, ujob[u])
    /\ Advance(u, k)
    /\ UNCHANGED <<upc, ujob, uwait, uown, uborn, wasInserted>>

\* writeIndexFile, first half: an existing entry keeps its first writer.
ProbeIndexFile(u, k) ==
    /\ ~Overwrite
    /\ upc[u] = "indexes" /\ uwait[u] = None /\ IsNextEntry(u, k)
    /\ \/ /\ index[k] # None
          /\ Advance(u, k)
          /\ UNCHANGED uwait
       \/ /\ index[k] = None
          /\ uwait' = [uwait EXCEPT ![u] = k]
          /\ UNCHANGED utodo
    /\ UNCHANGED <<storeVars, upc, ujob, uown, uborn, wasInserted>>

\* writeIndexFile, second half: overwriteIndexFile renames a temporary file.
WriteIndexFile(u, k) ==
    /\ upc[u] = "indexes" /\ uwait[u] = k /\ k \in Key
    /\ SetEntry(k, ujob[u])
    /\ Advance(u, k)
    /\ uwait' = [uwait EXCEPT ![u] = None]
    /\ UNCHANGED <<upc, ujob, uown, uborn, wasInserted>>

CommitDone(u) ==
    /\ upc[u] = "indexes" /\ utodo[u] = {}
    /\ Return(u)
    /\ UNCHANGED storeVars

\* A storage error, a cancelled request or a crash.
UploadFails(u) ==
    /\ MayFail /\ upc[u] # "idle"
    /\ Return(u)
    /\ UNCHANGED storeVars

UploadStep(u) ==
    \/ \E s \in Shard : \E fresh \in SUBSET Refs[s] : Begin(u, s, fresh)
    \/ \E x \in Xorb : PutXorbProbe(u, x) \/ PutXorbWrite(u, x) \/ PrepareXorb(u, x)
    \/ PutShard(u) \/ StatShard(u) \/ WriteShard(u) \/ CommitDone(u)
    \/ \E f \in File : HasFile(u, f)
    \/ \E k \in Key : PutIndexObject(u, k) \/ ProbeIndexFile(u, k) \/ WriteIndexFile(u, k)
    \/ UploadFails(u)
=============================================================================
