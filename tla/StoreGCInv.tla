----------------------------- MODULE StoreGCInv -----------------------------
(***************************************************************************)
(* The inductive invariant of StoreGC, that the type invariant is kept,    *)
(* and what steps that leave the store or the sweep alone keep of it.      *)
(***************************************************************************)
EXTENDS StoreGC, TLAPS

\* An entry is one its shard owns.
OwnEntries == \A k \in Key : index[k] # None => k \in KeysOf(index[k])

\* An upload in progress is inside the window; what it works on belongs to
\* its shard; an object it found missing was stored, if at all, since it began.
UploadInv ==
    \A u \in Uploader :
        /\ upc[u] = "idle" => uown[u] = {} /\ uwait[u] = None
        /\ upc[u] # "idle" => uborn[u] <= now /\ now <= uborn[u] + Grace
        /\ upc[u] \notin {"xorbs", "indexes"} => uwait[u] = None
        /\ uwait[u] # None => uwait[u] \in utodo[u]
        /\ upc[u] = "indexes" /\ Overwrite => uwait[u] = None
        /\ upc[u] = "xorbs" /\ uwait[u] \in xorbs => xmod[uwait[u]] >= uborn[u]
        /\ upc[u] = "shard" /\ ujob[u] \in shards => smod[ujob[u]] >= uborn[u]
        /\ upc[u] = "indexes" => utodo[u] \cup ({uwait[u]} \ {None}) \subseteq KeysOf(ujob[u])

\* What an upload wrote is stored and as young as the upload.
OwnObjects ==
    \A u \in Uploader :
        /\ \A x \in uown[u] : x \in xorbs /\ xmod[x] >= uborn[u]
        /\ wasInserted[u] => /\ upc[u] = "indexes"
                             /\ ujob[u] \in shards
                             /\ smod[ujob[u]] >= uborn[u]

\* A commit writes entries only for a shard that is stored, or was deleted
\* under it.
CommitInv == \A u \in Uploader : upc[u] = "indexes" => ujob[u] \in shards \cup bypassed

\* What a pass has condemned is stored and older than the window.
SweepInv ==
    /\ gpc # "idle" => gcutoff + Grace <= now
    /\ gpc = "idle" => gdead = {} /\ gdry = {}
    /\ \A s \in gdead \cup ({gcur} \ {None}) : s \in shards /\ smod[s] < gcutoff
    /\ gcur \notin gdead
    /\ gcur # None <=> gpc = "sweepShard"
    /\ ghit # None => gpc = "sweepShard"
    /\ gpc # "xorbs" => gdeadx = {}
    /\ \A x \in gdeadx : x \in xorbs /\ xmod[x] < gcutoff
    /\ gdry # {} => gdryrun

\* sweepShard has looked, or will look, at every entry that points at its
\* shard, except one that came to do so behind its back.
ChecksInv ==
    gcur # None =>
        \A k \in Key : index[k] = gcur
            => ghit = k \/ gcur \in raced \/ \E n \in ShardStage : <<n, k>> \in gchecks

\* Files entries are dropped under the sha256 anchor only.
DropInv ==
    /\ \A c \in gchecks : c[2] \in File => c[1] \in {1, 3}
    /\ ghit \in File => ganchor = "sha256" /\ \A c \in gchecks : c[1] >= 3

\* Under the sha256 anchor, what would spare the shard has not been looked at
\* yet, or came behind sweepShard's back.
AnchorInv ==
    gcur # None /\ ganchor = "sha256" /\ gcur \notin raced =>
        /\ \A d \in Digest : index[d] = gcur => <<2, d>> \in gchecks
        /\ hasUnanchorableFile(gcur) => \A f \in File : index[f] = gcur => <<1, f>> \in gchecks

\* Phase 2 has marked every xorb a visited shard needs, unless it is young or
\* the shard landed late; what is not marked is not needed.
MarkInv ==
    /\ gpc = "mark" /\ ~gdryrun /\ gbad = {} =>
         \A s \in shards \ gtodo : \A x \in Refs[s] :
            x \in grefs \cup atRisk[s] \/ (x \in xorbs /\ xmod[x] >= gcutoff)
    /\ gpc = "xorbs" /\ ~gdryrun => \A s \in shards : Refs[s] \cap gdeadx \subseteq atRisk[s]

HistoryInv ==
    /\ \A s \in raced : s \notin shards \/ s = gcur
    /\ bypassed \cap shards = {}

\* The part about uploads, and the part about the store and the sweep.
UploadPart == UploadInv /\ OwnObjects /\ CommitInv

StorePart ==
    /\ OwnEntries /\ SweepInv /\ ChecksInv /\ AnchorInv /\ DropInv /\ MarkInv /\ HistoryInv
    /\ NoDangling /\ ShardsWhole

IInv == TypeOK /\ UploadPart /\ StorePart

-----------------------------------------------------------------------------
\* What the constants say of the keys a shard owns.
LEMMA CatalogTypes ==
    /\ None \notin Shard /\ None \notin Key /\ None \notin Xorb
    /\ \A s \in Shard : /\ Refs[s] \subseteq Xorb
                       /\ FilesOf[s] \subseteq File
                       /\ FilesOf[s] \subseteq Key
                       /\ ShasOf(s) \subseteq Key
                       /\ ChunksOf[s] \subseteq Key
                       /\ KeysOf(s) \subseteq Key
    /\ File \subseteq Key /\ Digest \subseteq Key
BY CatalogAssumption, KindAssumption DEF Key, KeysOf, ShasOf

\* Typing, component by component.
LEMMA ReturnTypes ==
    ASSUME UploadTypeOK, NEW u \in Uploader, Return(u)
    PROVE  UploadTypeOK'
BY DEF UploadTypeOK, UploadStage, Return, Goto

\* Every operation of an upload keeps the types of its state.
LEMMA UploadTypes ==
    ASSUME StoreTypeOK, UploadTypeOK, NEW u \in Uploader, UploadStep(u)
    PROVE  StoreTypeOK' /\ UploadTypeOK'
<1> USE CatalogTypes DEF StoreTypeOK, UploadTypeOK, UploadStage
<1>1. ASSUME NEW s \in Shard, NEW fresh \in SUBSET Refs[s], Begin(u, s, fresh)
      PROVE  StoreTypeOK' /\ UploadTypeOK'
  BY <1>1 DEF Begin, Goto, storeVars
<1>2. ASSUME NEW x \in Xorb, PutXorbProbe(u, x)
      PROVE  StoreTypeOK' /\ UploadTypeOK'
  BY <1>2 DEF PutXorbProbe, Advance, storeVars
<1>3. ASSUME NEW x \in Xorb, PutXorbWrite(u, x)
      PROVE  StoreTypeOK' /\ UploadTypeOK'
  BY <1>3 DEF PutXorbWrite, StoreXorb, Advance
<1>4. ASSUME NEW x \in Xorb, PrepareXorb(u, x)
      PROVE  StoreTypeOK' /\ UploadTypeOK'
  <2>1. StoreTypeOK'
    BY <1>4 DEF PrepareXorb, storeVars
  <2>2. CASE Advance(u, x) /\ UNCHANGED <<upc, ujob, uwait, uown, uborn, wasInserted>>
    BY <1>4, <2>1, <2>2 DEF Advance
  <2>3. CASE Return(u)
    BY <2>1, <2>3, ReturnTypes
  <2> QED
    BY <1>4, <2>2, <2>3 DEF PrepareXorb
<1>5. CASE PutShard(u)
  BY <1>5 DEF PutShard, Goto, storeVars
<1>6. CASE StatShard(u)
  BY <1>6 DEF StatShard, Goto, storeVars
<1>7. CASE WriteShard(u)
  BY <1>7 DEF WriteShard, StoreShard, Goto
<1>8. CASE CommitDone(u)
  BY <1>8, ReturnTypes DEF CommitDone, storeVars
<1>9. ASSUME NEW f \in File, HasFile(u, f)
      PROVE  StoreTypeOK' /\ UploadTypeOK'
  <2>1. StoreTypeOK'
    BY <1>9 DEF HasFile, storeVars
  <2>2. CASE /\ Goto(u, "prepare", Refs[ujob[u]])
             /\ upc[u] = "hasFile" /\ UNCHANGED <<ujob, uwait, uown, uborn, wasInserted>>
    BY <1>9, <2>1, <2>2 DEF Goto
  <2>3. CASE Advance(u, f) /\ UNCHANGED <<upc, ujob, uwait, uown, uborn, wasInserted>>
    BY <1>9, <2>1, <2>3 DEF Advance
  <2>4. CASE Return(u)
    BY <2>1, <2>4, ReturnTypes
  <2> QED
    BY <1>9, <2>2, <2>3, <2>4 DEF HasFile
<1>10. ASSUME NEW k \in Key, PutIndexObject(u, k)
       PROVE  StoreTypeOK' /\ UploadTypeOK'
  BY <1>10 DEF PutIndexObject, SetEntry, Advance, objectVars
<1>11. ASSUME NEW k \in Key, ProbeIndexFile(u, k)
       PROVE  StoreTypeOK' /\ UploadTypeOK'
  BY <1>11 DEF ProbeIndexFile, Advance, storeVars
<1>12. ASSUME NEW k \in Key, WriteIndexFile(u, k)
       PROVE  StoreTypeOK' /\ UploadTypeOK'
  BY <1>12 DEF WriteIndexFile, SetEntry, Advance, objectVars
<1>13. CASE UploadFails(u)
  BY <1>13, ReturnTypes DEF UploadFails, storeVars
<1> QED
  BY <1>1, <1>2, <1>3, <1>4, <1>5, <1>6, <1>7, <1>8, <1>9, <1>10, <1>11, <1>12, <1>13, Zenon
     DEF UploadStep

\* Ending a pass resets the state of the sweep to typed values.
LEMMA EndPassTypes ==
    ASSUME StoreTypeOK, EndPass
    PROVE  StoreTypeOK' /\ SweepTypeOK'
<1>1. StoreTypeOK'
  BY DEF StoreTypeOK, EndPass, storeVars
<1>2. gdryrun' \in BOOLEAN
  BY Zenon DEF EndPass
<1>3. gcutoff' \in Int /\ gcount' \in Nat
  BY DEF EndPass
<1>4. gpc' \in SweepPhase /\ ganchor' \in {"both", "files", "sha256"}
  BY DEF EndPass, SweepPhase
<1>5. gchecks' \subseteq ShardStage \X Key
  BY Zenon DEF EndPass
<1>6. gcur' \in Shard \cup {None} /\ ghit' \in Key \cup {None}
  BY DEF EndPass
<1> QED
  BY <1>1, <1>2, <1>3, <1>4, <1>5, <1>6 DEF EndPass, SweepTypeOK

\* Every entry a shard may own is looked at, files entries in the stages
\* for files.
LEMMA ChecksCover ==
    ASSUME NEW s \in Shard, NEW anchor
    PROVE  /\ Checks(anchor, s) \subseteq ShardStage \X Key
           /\ \A k \in KeysOf(s) : \E n \in ShardStage : <<n, k>> \in Checks(anchor, s)
           /\ \A c \in Checks(anchor, s) : c[2] \in File => c[1] \in {1, 3}
           /\ anchor = "sha256" =>
                /\ \A d \in Digest \cap KeysOf(s) : <<2, d>> \in Checks(anchor, s)
                /\ hasUnanchorableFile(s)
                     => \A f \in File \cap KeysOf(s) : <<1, f>> \in Checks(anchor, s)
<1>1. Checks(anchor, s) \subseteq ShardStage \X Key
  BY DEF Checks
<1>2. ASSUME NEW k \in KeysOf(s)
      PROVE  \E n \in ShardStage : <<n, k>> \in Checks(anchor, s)
  <2>1. k \in Key
    BY CatalogTypes
  <2>2. CASE k \in FilesOf[s]
    <3>1. <<3, k>> \in Checks(anchor, s)
      BY <2>1, <2>2 DEF Checks, StageKeys, ShardStage
    <3> QED BY <3>1 DEF ShardStage
  <2>3. CASE k \in ShasOf(s) /\ k # Zero
    <3>1. <<4, k>> \in Checks(anchor, s)
      BY <2>1, <2>3 DEF Checks, StageKeys, ShardStage
    <3> QED BY <3>1 DEF ShardStage
  <2>4. CASE k \in ShasOf(s) /\ k = Zero
    <3>1. <<5, k>> \in Checks(anchor, s)
      BY <2>1, <2>4 DEF Checks, StageKeys, ShardStage
    <3> QED BY <3>1 DEF ShardStage
  <2>5. CASE k \in ChunksOf[s]
    <3>1. <<6, k>> \in Checks(anchor, s)
      BY <2>1, <2>5 DEF Checks, StageKeys, ShardStage
    <3> QED BY <3>1 DEF ShardStage
  <2> QED BY <2>2, <2>3, <2>4, <2>5 DEF KeysOf
<1>3. ASSUME NEW n \in ShardStage, NEW k \in File, k \in StageKeys(anchor, s, n)
      PROVE  n \in {1, 3}
  <2>1. k \notin ShasOf(s) /\ k \notin ChunksOf[s]
    BY CatalogAssumption, KindAssumption DEF ShasOf
  <2> QED BY <1>3, <2>1 DEF StageKeys, ShardStage
<1>4. ASSUME anchor = "sha256", NEW d \in Digest \cap KeysOf(s)
      PROVE  <<2, d>> \in Checks(anchor, s)
  <2>1. d \in Key /\ d \in ShasOf(s) \ {Zero}
    BY CatalogAssumption, KindAssumption DEF Key, KeysOf
  <2> QED BY <1>4, <2>1 DEF Checks, StageKeys, ShardStage
<1>5. ASSUME anchor = "sha256", hasUnanchorableFile(s), NEW f \in File \cap KeysOf(s)
      PROVE  <<1, f>> \in Checks(anchor, s)
  <2>1. f \in Key /\ f \in FilesOf[s]
    BY CatalogAssumption, KindAssumption DEF Key, KeysOf, ShasOf
  <2> QED BY <1>5, <2>1 DEF Checks, StageKeys, ShardStage
<1> QED BY <1>1, <1>2, <1>3, <1>4, <1>5 DEF Checks

\* Every step of a pass keeps the types of the state of the sweep.
LEMMA SweepTypes ==
    ASSUME StoreTypeOK, SweepTypeOK, SweepStep
    PROVE  StoreTypeOK' /\ SweepTypeOK'
<1> USE CatalogTypes DEF StoreTypeOK, SweepTypeOK, SweepPhase, optionVars, shardVars, xorbVars, resultVars
<1>1. ASSUME NEW anchor \in Anchors, NEW dryRun \in DryRuns, StartSweep(anchor, dryRun)
      PROVE  StoreTypeOK' /\ SweepTypeOK'
  BY <1>1, SweepAssumption, GraceAssumption DEF StartSweep, AnchorKeys, storeVars
<1>2. ASSUME NEW k \in Key, WalkIndex(k)
      PROVE  StoreTypeOK' /\ SweepTypeOK'
  BY <1>2 DEF WalkIndex, storeVars
<1>3. ASSUME NEW k \in Key, DropEntry(k)
      PROVE  StoreTypeOK' /\ SweepTypeOK'
  BY <1>3 DEF DropEntry, DeleteEntry, SetEntry, objectVars
<1>4. CASE WalkShards
  BY <1>4 DEF WalkShards, storeVars
<1>5. CASE DeleteShard
  <2>1. shards' \subseteq Shard /\ smod' \in [Shard -> Nat]
    BY <1>5, Zenon DEF DeleteShard, RemoveShard
  <2>2. gcount' \in Nat
    BY <1>5 DEF DeleteShard
  <2> QED
    BY <1>5, <2>1, <2>2 DEF DeleteShard, RemoveShard
<1>6. CASE StartMark
  BY <1>6 DEF StartMark, storeVars
<1>7. ASSUME NEW s \in Shard, ReportShard(s)
      PROVE  StoreTypeOK' /\ SweepTypeOK'
  BY <1>7 DEF ReportShard, storeVars
<1>8. ASSUME NEW s \in Shard, LoadDeadShard(s)
      PROVE  StoreTypeOK' /\ SweepTypeOK'
  BY <1>8, ChecksCover DEF LoadDeadShard, storeVars
<1>9. ASSUME NEW s \in Shard, MarkShard(s)
      PROVE  StoreTypeOK' /\ SweepTypeOK'
  BY <1>9 DEF MarkShard, storeVars
<1>10. ASSUME NEW c \in ShardStage \X Key, ReadEntry(c)
       PROVE  StoreTypeOK' /\ SweepTypeOK'
  BY <1>10 DEF ReadEntry, storeVars
<1>11. CASE StopAtBound \/ StopUnreadable \/ FinishSweep \/ SweepFails
  BY <1>11, EndPassTypes DEF StopAtBound, StopUnreadable, FinishSweep, SweepFails
<1>12. CASE WalkXorbs
  BY <1>12 DEF WalkXorbs, storeVars
<1>13. ASSUME NEW x \in Xorb, SweepXorb(x)
       PROVE  StoreTypeOK' /\ SweepTypeOK'
  BY <1>13 DEF SweepXorb, RemoveXorb, storeVars
<1> QED
  BY <1>1, <1>2, <1>3, <1>4, <1>5, <1>6, <1>7, <1>8, <1>9, <1>10, <1>11, <1>12, <1>13, Zenon
     DEF SweepStep, PassStep

\* What Record remembers of the races is typed.
LEMMA HistoryTypes ==
    ASSUME TypeOK, shards' \subseteq Shard, Record
    PROVE  raced' \subseteq Shard /\ bypassed' \subseteq Shard /\ atRisk' \in [Shard -> SUBSET Xorb]
BY CatalogTypes DEF TypeOK, Record

\* The type invariant is inductive.
LEMMA Types ==
    ASSUME TypeOK, Next
    PROVE  TypeOK'
<1>1. StoreTypeOK' /\ UploadTypeOK' /\ SweepTypeOK'
  <2>1. ASSUME NEW u \in Uploader, UploadStep(u), UNCHANGED sweepVars
        PROVE  StoreTypeOK' /\ UploadTypeOK' /\ SweepTypeOK'
    BY <2>1, UploadTypes
       DEF TypeOK, SweepTypeOK, sweepVars, optionVars, shardVars, xorbVars, resultVars
  <2>2. ASSUME SweepStep, UNCHANGED uploadVars
        PROVE  StoreTypeOK' /\ UploadTypeOK' /\ SweepTypeOK'
    BY <2>2, SweepTypes DEF TypeOK, UploadTypeOK, uploadVars
  <2>3. ASSUME NEW k \in File \cup Digest, Unlink(k) \/ UnlinkSHA256(k)
        PROVE  StoreTypeOK' /\ UploadTypeOK' /\ SweepTypeOK'
    BY <2>3, CatalogTypes
       DEF TypeOK, StoreTypeOK, UploadTypeOK, SweepTypeOK, Unlink, UnlinkSHA256, DeleteEntry,
           SetEntry, objectVars, uploadVars, sweepVars, optionVars, shardVars, xorbVars, resultVars
  <2>4. CASE Tick
    BY <2>4
       DEF TypeOK, StoreTypeOK, UploadTypeOK, SweepTypeOK, Tick,
           objectVars, uploadVars, sweepVars, optionVars, shardVars, xorbVars, resultVars
  <2> QED
    BY <2>1, <2>2, <2>3, <2>4 DEF Next, Step
<1> QED
  BY <1>1, HistoryTypes DEF Next, TypeOK, StoreTypeOK

-----------------------------------------------------------------------------
\* Record while the stored shards and the index stay put.
LEMMA QuietRecord ==
    ASSUME TypeOK, HistoryInv, Record, UNCHANGED <<shards, index>>
    PROVE  /\ bypassed' = bypassed
           /\ atRisk' = atRisk
           /\ raced' = {s \in raced : s \notin shards \/ s = gcur'}
           /\ gcur' = gcur \/ gcur = None => raced' = raced
<1>1. bypassed' = bypassed
  BY DEF TypeOK, HistoryInv, Record
<1>2. atRisk' = atRisk
  BY DEF TypeOK, Record
<1>3. raced' = {s \in raced : s \notin shards \/ s = gcur'}
  BY DEF TypeOK, Record
<1>4. None \notin raced
  BY CatalogTypes DEF TypeOK
<1>5. gcur' = gcur \/ gcur = None => raced' = raced
  BY <1>3, <1>4 DEF HistoryInv
<1> QED BY <1>1, <1>2, <1>3, <1>5

\* Whatever an upload does without touching the store leaves StorePart alone.
LEMMA QuietUpload ==
    ASSUME IInv, Record, UNCHANGED <<storeVars, sweepVars>>
    PROVE  StorePart' /\ UNCHANGED history
<1>1. UNCHANGED history
  BY QuietRecord
     DEF IInv, StorePart, history, storeVars, sweepVars, shardVars
<1> QED
  BY <1>1, Zenon DEF IInv, StorePart, OwnEntries, SweepInv, ChecksInv, AnchorInv, DropInv, MarkInv, HistoryInv,
              NoDangling, ShardsWhole, history, storeVars, sweepVars, optionVars, shardVars,
              xorbVars, resultVars

\* Whatever a sweep does without touching the objects leaves UploadPart alone.
LEMMA QuietSweep ==
    ASSUME IInv, Record, UNCHANGED <<now, objectVars, uploadVars>>
    PROVE  UploadPart'
<1>1. bypassed' = bypassed
  BY Zenon DEF IInv, TypeOK, StorePart, HistoryInv, Record, objectVars
<1> QED
  BY <1>1, Zenon DEF IInv, UploadPart, UploadInv, OwnObjects, CommitInv, objectVars, uploadVars

\* Return discharges every obligation of an upload.
LEMMA ReturnPart ==
    ASSUME IInv, Record, NEW u \in Uploader, Return(u), UNCHANGED <<storeVars, sweepVars>>
    PROVE  UploadPart'
<1>1. UNCHANGED history
  BY QuietUpload
<1>2. UploadInv'
  BY Zenon DEF IInv, UploadPart, UploadInv, TypeOK, UploadTypeOK, Return, Goto, storeVars
<1>3. OwnObjects'
  BY Zenon DEF IInv, UploadPart, OwnObjects, TypeOK, UploadTypeOK, Return, Goto, storeVars
<1>4. CommitInv'
  BY <1>1 DEF IInv, UploadPart, CommitInv, TypeOK, UploadTypeOK, Return, Goto, storeVars, history
<1> QED BY <1>2, <1>3, <1>4 DEF UploadPart
=============================================================================
