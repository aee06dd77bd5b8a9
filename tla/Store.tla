------------------------------- MODULE Store -------------------------------
(***************************************************************************)
(* The stored state every backend (storage/local, storage/s3 and           *)
(* storage/memory) keeps: xorb objects, shard objects, and one index with  *)
(* three kinds of entries (index/files, index/sha256, index/chunks), each  *)
(* holding the hash of a shard.  Objects are content addressed, so what a  *)
(* shard references is a function of its hash: a constant here.            *)
(***************************************************************************)
EXTENDS Integers

CONSTANTS
    Xorb,        \* xorb hashes
    Shard,       \* shard hashes
    File,        \* xet file hashes: the keys of index/files
    Digest,      \* non-zero SHA-256 digests: keys of index/sha256
    Zero,        \* the all-zero digest, the key every empty file shares
    Chunk,       \* probe-able chunk hashes: the keys of index/chunks
    None,        \* no entry, no object
    Refs,        \* shard -> the xorbs its file terms and CAS blocks name
    FilesOf,     \* shard -> the files it describes
    ChunksOf,    \* shard -> its probe-able chunks
    ShaOf,       \* file -> the digest PrepareShard computes for it
    Overwrite,   \* TRUE: S3, an index put replaces; FALSE: local and memory
    MaxTime      \* bound on the clock

\* The three kinds of entries live under different prefixes.
Key == File \cup Digest \cup {Zero} \cup Chunk

ASSUME CatalogAssumption ==
    /\ Refs \in [Shard -> SUBSET Xorb]
    /\ FilesOf \in [Shard -> (SUBSET File) \ {{}}]
    /\ ChunksOf \in [Shard -> SUBSET Chunk]
    /\ ShaOf \in [File -> Digest \cup {Zero}]

ASSUME KindAssumption ==
    /\ File \cap (Digest \cup {Zero} \cup Chunk) = {}
    /\ Chunk \cap (Digest \cup {Zero}) = {}
    /\ Zero \notin Digest
    /\ None \notin Shard \cup Xorb \cup Key

ASSUME BackendAssumption ==
    /\ Overwrite \in BOOLEAN
    /\ MaxTime \in Nat

VARIABLES
    now,      \* the clock objects are stamped with
    xorbs,    \* stored xorb objects
    shards,   \* stored shard objects
    xmod,     \* modification time of each stored xorb, 0 for the others
    smod,     \* modification time of each stored shard, 0 for the others
    index     \* key -> shard hash, None when there is no entry

objectVars == <<xorbs, shards, xmod, smod>>
storeVars == <<now, xorbs, shards, xmod, smod, index>>

\* The index/sha256 keys of a shard: one per file, Zero for an empty one.
ShasOf(s) == {ShaOf[f] : f \in FilesOf[s]}

\* Every entry a commit of s writes.
KeysOf(s) == FilesOf[s] \cup ShasOf(s) \cup ChunksOf[s]

StoreInit ==
    /\ now = 0
    /\ xorbs = {}
    /\ shards = {}
    /\ xmod = [x \in Xorb |-> 0]
    /\ smod = [s \in Shard |-> 0]
    /\ index = [k \in Key |-> None]

StoreTypeOK ==
    /\ now \in Nat
    /\ xorbs \subseteq Xorb
    /\ shards \subseteq Shard
    /\ xmod \in [Xorb -> Nat]
    /\ smod \in [Shard -> Nat]
    /\ index \in [Key -> Shard \cup {None}]

\* The rename or PutObject that ends PutXorb stamps the object.
StoreXorb(x) ==
    /\ xorbs' = xorbs \cup {x}
    /\ xmod' = [xmod EXCEPT ![x] = now]
    /\ UNCHANGED <<now, shards, smod, index>>

StoreShard(s) ==
    /\ shards' = shards \cup {s}
    /\ smod' = [smod EXCEPT ![s] = now]
    /\ UNCHANGED <<now, xorbs, xmod, index>>

SetEntry(k, s) ==
    /\ index' = [index EXCEPT ![k] = s]
    /\ UNCHANGED <<now, objectVars>>

DeleteEntry(k) == SetEntry(k, None)

RemoveShard(s) ==
    /\ shards' = shards \ {s}
    /\ smod' = [smod EXCEPT ![s] = 0]
    /\ UNCHANGED <<now, xorbs, xmod, index>>

RemoveXorb(x) ==
    /\ xorbs' = xorbs \ {x}
    /\ xmod' = [xmod EXCEPT ![x] = 0]
    /\ UNCHANGED <<now, shards, smod, index>>
=============================================================================
