--------------------------- MODULE StoreGCProofs ----------------------------
(***************************************************************************)
(* NoDangling, ShardsWhole, GraceShields and ReadableKept hold of StoreGC  *)
(* for any catalogue, any number of uploads, any anchors and any window.   *)
(***************************************************************************)
EXTENDS StoreGCStepProofs

\* The shard sweepShard deletes has no entry left but those it raced, is no
\* upload's own, and is recorded when a commit relied on it.
LEMMA ShardDelete ==
    ASSUME IInv, Record, DeleteShard, UNCHANGED uploadVars
    PROVE  UploadPart' /\ StorePart'
<1> USE DEF IInv, optionVars, xorbVars
<1> DEFINE s == gcur
<1>1. /\ gpc = "sweepShard" /\ gchecks = {} /\ ghit = None
      /\ gpc' = "queue" /\ gcur' = None
      /\ shards' = shards \ {s} /\ smod' = [smod EXCEPT ![s] = 0]
      /\ UNCHANGED <<now, xorbs, xmod, index>>
      /\ UNCHANGED <<ganchor, gdryrun, gcutoff, gdead, gchecks, ghit, grefs, gdeadx, gdry>>
  BY DEF DeleteShard, RemoveShard
<1>2. s \in Shard /\ s \in shards /\ s \notin gdead
  BY <1>1, CatalogTypes DEF StorePart, SweepInv, TypeOK, SweepTypeOK
<1>3. /\ UNCHANGED atRisk
      /\ raced \subseteq raced'
      /\ bypassed \subseteq bypassed'
      /\ \A u \in Uploader : Committing(u, s) => s \in bypassed'
  BY <1>1, <1>2 DEF Record, TypeOK, StoreTypeOK, StorePart, HistoryInv
<1>4. HistoryInv'
  BY DEF HistoryInv, Record
<1>5. ASSUME NEW u \in Uploader, upc[u] # "idle", smod[s] >= uborn[u]
      PROVE  FALSE
  BY <1>2, <1>5, OwnNotCondemned
<1>6. UploadInv'
  BY <1>1, <1>2, <1>5
     DEF UploadPart, UploadInv, TypeOK, StoreTypeOK, UploadTypeOK, uploadVars
<1>7. OwnObjects'
  BY <1>1, <1>2, <1>5
     DEF UploadPart, OwnObjects, TypeOK, StoreTypeOK, UploadTypeOK, uploadVars
<1>8. CommitInv'
  BY <1>1, <1>3 DEF UploadPart, CommitInv, Committing, uploadVars
<1>9. OwnEntries' /\ DropInv' /\ ChecksInv' /\ AnchorInv'
  BY <1>1 DEF StorePart, OwnEntries, DropInv, ChecksInv, AnchorInv
<1>10. NoDangling'
  BY <1>1, <1>2, <1>3, CatalogTypes DEF StorePart, NoDangling, ChecksInv
<1>11. SweepInv'
  BY <1>1, <1>2, CatalogTypes DEF StorePart, SweepInv, TypeOK, StoreTypeOK
<1>12. MarkInv' /\ ShardsWhole'
  BY <1>1, <1>3 DEF StorePart, MarkInv, ShardsWhole
<1> QED
  BY <1>4, <1>6, <1>7, <1>8, <1>9, <1>10, <1>11, <1>12 DEF UploadPart, StorePart

\* A xorb that is deleted is no upload's own and no stored shard needs it,
\* unless it is recorded as at risk.
LEMMA XorbSweep ==
    ASSUME IInv, Record, NEW x \in Xorb, SweepXorb(x), UNCHANGED uploadVars
    PROVE  UploadPart' /\ StorePart'
<1> USE DEF IInv, optionVars, shardVars
<1>1. /\ gpc = "xorbs" /\ x \in gdeadx /\ gdeadx' = gdeadx \ {x}
      /\ UNCHANGED <<now, shards, smod, index>>
      /\ UNCHANGED <<gpc, ganchor, gdryrun, gcutoff, gdead, gcur, gchecks, ghit>>
  BY DEF SweepXorb, RemoveXorb, storeVars
<1>2. bypassed' = bypassed /\ atRisk' = atRisk /\ raced' = raced
  BY <1>1, QuietRecord DEF StorePart
<1>3. CommitInv' /\ OwnEntries' /\ NoDangling' /\ DropInv' /\ ChecksInv' /\ AnchorInv' /\ HistoryInv'
  BY <1>1, <1>2
     DEF UploadPart, StorePart, CommitInv, OwnEntries, NoDangling, DropInv, ChecksInv, AnchorInv, HistoryInv,
         uploadVars
<1>4. CASE gdryrun
  <2>1. UNCHANGED <<xorbs, xmod>>
    BY <1>4 DEF SweepXorb, storeVars
  <2>2. UploadInv' /\ OwnObjects'
    BY <1>1, <2>1, Zenon DEF UploadPart, UploadInv, OwnObjects, uploadVars
  <2>3. SweepInv'
    BY <1>1, <1>4, <2>1 DEF StorePart, SweepInv
  <2>4. MarkInv' /\ ShardsWhole'
    BY <1>1, <1>2, <1>4, <2>1 DEF StorePart, MarkInv, ShardsWhole
  <2> QED BY <1>3, <2>2, <2>3, <2>4 DEF UploadPart, StorePart
<1>5. CASE ~gdryrun
  <2>1. xorbs' = xorbs \ {x} /\ xmod' = [xmod EXCEPT ![x] = 0] /\ UNCHANGED gdry
    BY <1>5 DEF SweepXorb, RemoveXorb
  <2>2. x \in xorbs
    BY <1>1 DEF StorePart, SweepInv
  <2>3. ASSUME NEW u \in Uploader, upc[u] # "idle", xmod[x] >= uborn[u]
        PROVE  FALSE
    BY <1>1, <2>2, <2>3, OwnNotCondemned
  <2>4. UploadInv'
    BY <1>1, <2>1, <2>3
       DEF UploadPart, UploadInv, TypeOK, StoreTypeOK, UploadTypeOK, uploadVars
  <2>5. OwnObjects'
    BY <1>1, <2>1, <2>3
       DEF UploadPart, UploadInv, OwnObjects, TypeOK, StoreTypeOK, UploadTypeOK, uploadVars
  <2>6. SweepInv'
    BY <1>1, <1>5, <2>1 DEF StorePart, SweepInv, TypeOK, StoreTypeOK, SweepTypeOK
  <2>7. MarkInv' /\ ShardsWhole'
    BY <1>1, <1>2, <1>5, <2>1 DEF StorePart, MarkInv, ShardsWhole
  <2> QED BY <1>3, <2>4, <2>5, <2>6, <2>7 DEF UploadPart, StorePart
<1> QED
  BY <1>4, <1>5

\* The clock: no upload outlives the window, no cutoff moves.
LEMMA ClockTicks ==
    ASSUME IInv, Record, Tick
    PROVE  UploadPart' /\ StorePart'
<1> USE DEF IInv
<1>1. /\ now' = now + 1
      /\ UNCHANGED <<xorbs, shards, xmod, smod, index, uploadVars>>
      /\ UNCHANGED <<gpc, ganchor, gdryrun, gcutoff, gtodo, gdead, gcur, gchecks, ghit,
                     gbad, gdry, grefs, gdeadx>>
  BY Zenon DEF Tick, objectVars, sweepVars, optionVars, shardVars, xorbVars, resultVars
<1>2. bypassed' = bypassed /\ atRisk' = atRisk /\ raced' = raced
  BY <1>1, QuietRecord DEF StorePart
<1>3. UploadInv'
  BY <1>1, GraceAssumption
     DEF Tick, UploadPart, UploadInv, TypeOK, StoreTypeOK, UploadTypeOK, uploadVars
<1>4. OwnObjects' /\ CommitInv'
  BY <1>1, <1>2 DEF UploadPart, OwnObjects, CommitInv, uploadVars
<1>5. SweepInv'
  BY <1>1, GraceAssumption DEF StorePart, SweepInv, TypeOK, StoreTypeOK, SweepTypeOK
<1>6. OwnEntries' /\ NoDangling' /\ ShardsWhole' /\ HistoryInv' /\ ChecksInv' /\ AnchorInv' /\ DropInv' /\ MarkInv'
  BY <1>1, <1>2
     DEF StorePart, OwnEntries, NoDangling, ShardsWhole, HistoryInv, ChecksInv, AnchorInv, DropInv, MarkInv
<1> QED
  BY <1>3, <1>4, <1>5, <1>6 DEF UploadPart, StorePart

-----------------------------------------------------------------------------
\* An empty store with nobody at work satisfies the invariant.
LEMMA InitIInv == Init => IInv
<1> SUFFICES ASSUME Init PROVE IInv
  OBVIOUS
<1> USE CatalogTypes DEF Init, StoreInit, UploadInit, SweepInit
<1>1. StoreTypeOK /\ UploadTypeOK
  BY DEF StoreTypeOK, UploadTypeOK, UploadStage
<1>2. gdryrun \in BOOLEAN /\ gchecks \subseteq ShardStage \X Key
  BY Zenon
<1>3. SweepTypeOK
  BY <1>2 DEF SweepTypeOK, SweepPhase
<1>4. TypeOK
  BY <1>1, <1>3 DEF TypeOK
<1>5. UploadPart
  BY DEF UploadPart, UploadInv, OwnObjects, CommitInv
<1>6. StorePart
  BY DEF StorePart, OwnEntries, SweepInv, ChecksInv, AnchorInv, DropInv, MarkInv, HistoryInv, NoDangling,
         ShardsWhole
<1> QED BY <1>4, <1>5, <1>6, Zenon DEF IInv

\* Every step of an upload, of a sweep, of a user or of the clock keeps it.
LEMMA NextIInv == IInv /\ [Next]_vars => IInv'
<1> SUFFICES ASSUME IInv, [Next]_vars PROVE IInv'
  OBVIOUS
<1>1. CASE UNCHANGED vars
  <2> USE <1>1 DEF IInv, vars, storeVars, uploadVars, sweepVars, optionVars, shardVars, xorbVars,
                   resultVars, history
  <2>1. TypeOK'
    BY DEF TypeOK, StoreTypeOK, UploadTypeOK, SweepTypeOK
  <2>2. UploadPart'
    BY DEF UploadPart, UploadInv, OwnObjects, CommitInv
  <2>3. OwnEntries' /\ NoDangling' /\ ShardsWhole' /\ HistoryInv'
    BY DEF StorePart, OwnEntries, NoDangling, ShardsWhole, HistoryInv
  <2>4. SweepInv' /\ ChecksInv' /\ AnchorInv' /\ DropInv' /\ MarkInv'
    BY DEF StorePart, SweepInv, ChecksInv, AnchorInv, DropInv, MarkInv
  <2> QED BY <2>1, <2>2, <2>3, <2>4 DEF StorePart
<1>2. CASE Next
  <2>1. TypeOK' /\ Record
    BY <1>2, Types DEF IInv, Next
  <2>2. ASSUME NEW u \in Uploader, UploadStep(u), UNCHANGED sweepVars
        PROVE  UploadPart' /\ StorePart'
    <3>1. CASE \E x \in Xorb : PutXorbWrite(u, x)
      BY <2>1, <2>2, <3>1, XorbWrite
    <3>2. CASE WriteShard(u)
      BY <2>1, <2>2, <3>2, ShardWrite
    <3>3. CASE \E k \in Key : PutIndexObject(u, k) \/ WriteIndexFile(u, k)
      BY <2>1, <2>2, <3>3, EntryWrite
    <3> DEFINE Reads == \/ \E s \in Shard : \E fresh \in SUBSET Refs[s] : Begin(u, s, fresh)
                        \/ \E x \in Xorb : PutXorbProbe(u, x) \/ PrepareXorb(u, x)
                        \/ PutShard(u) \/ StatShard(u) \/ CommitDone(u) \/ UploadFails(u)
                        \/ \E f \in File : HasFile(u, f)
                        \/ \E k \in Key : ProbeIndexFile(u, k)
    <3>4. CASE Reads
      <4>1. UNCHANGED storeVars
        BY <3>4, Zenon
           DEF Begin, PutXorbProbe, PrepareXorb, PutShard, StatShard, CommitDone, UploadFails,
               HasFile, ProbeIndexFile
      <4> QED BY <2>1, <2>2, <3>4, <4>1, UploadReads, Zenon
    <3> QED BY <2>2, <3>1, <3>2, <3>3, <3>4, Zenon DEF UploadStep
  <2>3. ASSUME SweepStep, UNCHANGED uploadVars
        PROVE  UploadPart' /\ StorePart'
    <3>1. CASE \E k \in Key : DropEntry(k)
      <4>1. PICK k \in Key : DropEntry(k)
        BY <3>1
      <4> QED BY <2>1, <2>3, <4>1, EntryDelete DEF DropEntry
    <3>2. CASE DeleteShard
      BY <2>1, <2>3, <3>2, ShardDelete
    <3>3. CASE \E x \in Xorb : SweepXorb(x)
      BY <2>1, <2>3, <3>3, XorbSweep
    <3>4. CASE StopAtBound \/ StopUnreadable \/ FinishSweep \/ SweepFails
      <4>1. EndPass
        BY <3>4 DEF StopAtBound, StopUnreadable, FinishSweep, SweepFails
      <4> QED BY <2>1, <2>3, <4>1, PassEnds
    <3> DEFINE Reads ==
          \/ \E anchor \in Anchors : \E dryRun \in DryRuns : StartSweep(anchor, dryRun)
          \/ \E k \in Key : WalkIndex(k)
          \/ WalkShards \/ StartMark \/ WalkXorbs
          \/ \E s \in Shard : ReportShard(s) \/ LoadDeadShard(s) \/ MarkShard(s)
          \/ \E c \in ShardStage \X Key : ReadEntry(c)
    <3>5. CASE Reads
      <4>1. UNCHANGED storeVars
        BY <3>5, Zenon
           DEF StartSweep, WalkIndex, WalkShards, StartMark, WalkXorbs, ReportShard, LoadDeadShard,
               MarkShard, ReadEntry
      <4> QED BY <2>1, <2>3, <3>5, <4>1, SweepReads
    <3> QED BY <2>3, <3>1, <3>2, <3>3, <3>4, <3>5 DEF SweepStep, PassStep
  <2>4. ASSUME NEW k \in File \cup Digest, Unlink(k) \/ UnlinkSHA256(k)
        PROVE  UploadPart' /\ StorePart'
    BY <2>1, <2>4, EntryDelete, CatalogTypes
       DEF Unlink, UnlinkSHA256, sweepVars, shardVars
  <2>5. ASSUME Tick
        PROVE  UploadPart' /\ StorePart'
    BY <2>1, <2>5, ClockTicks
  <2>6. UploadPart' /\ StorePart'
    BY <1>2, <2>2, <2>3, <2>4, <2>5 DEF Next, Step
  <2> QED BY <2>1, <2>6 DEF IInv
<1> QED BY <1>1, <1>2

\* The invariant holds in every reachable state.
LEMMA Invariance == Spec => []IInv
BY InitIInv, NextIInv, PTL DEF Spec

\* Variables keep their types, whatever the interleaving.
THEOREM TypeCorrect == Spec => []TypeOK
<1>1. IInv => TypeOK
  BY DEF IInv
<1> QED BY <1>1, Invariance, PTL

\* No entry outlives its shard: sweepShard deletes a shard object only once no
\* entry is left that it could have seen.
THEOREM IndexSound == Spec => []NoDangling
<1>1. IInv => NoDangling
  BY DEF IInv, StorePart
<1> QED BY <1>1, Invariance, PTL

\* Phase 2 takes no xorb from a stored shard, a shard that lands while it
\* runs and reuses an old xorb excepted.
THEOREM XorbsKept == Spec => []ShardsWhole
<1>1. IInv => ShardsWhole
  BY DEF IInv, StorePart
<1> QED BY <1>1, Invariance, PTL

\* The grace window covers what an upload in progress wrote, for every window.
THEOREM WindowShields == Spec => []GraceShields
<1>1. ASSUME IInv PROVE GraceShields
  <2> SUFFICES ASSUME NEW u \in Uploader
               PROVE  /\ uown[u] \subseteq xorbs \ gdeadx
                      /\ wasInserted[u] => ujob[u] \in shards \ (gdead \cup {gcur})
    BY DEF GraceShields
  <2>1. CASE upc[u] = "idle"
    BY <1>1, <2>1 DEF IInv, UploadPart, UploadInv, OwnObjects
  <2>2. CASE upc[u] # "idle"
    BY <1>1, <2>2, OwnNotCondemned, Zenon DEF IInv, UploadPart, OwnObjects
  <2> QED BY <2>1, <2>2
<1> QED BY <1>1, Invariance, PTL

\* An entry disappears only because its file is unlinked or sweepShard drops it.
LEMMA EntryLost ==
    ASSUME IInv, Next, NEW f \in File, index[f] # None, index'[f] = None
    PROVE  Unlink(f) \/ ghit = f
<1> USE CatalogTypes DEF IInv, TypeOK, StoreTypeOK, UploadTypeOK
<1>1. ASSUME NEW u \in Uploader, UploadStep(u)
      PROVE  FALSE
  <2>1. CASE UNCHANGED index
    BY <2>1
  <2>2. ASSUME NEW k \in Key, PutIndexObject(u, k) \/ WriteIndexFile(u, k)
        PROVE  FALSE
    BY <2>2 DEF PutIndexObject, WriteIndexFile, SetEntry
  <2> QED
    BY <1>1, <2>1, <2>2, Zenon
       DEF UploadStep, Begin, PutXorbProbe, PutXorbWrite, StoreXorb, PrepareXorb, PutShard, StatShard,
           WriteShard, StoreShard, CommitDone, HasFile, ProbeIndexFile, UploadFails, storeVars
<1>2. ASSUME SweepStep
      PROVE  ghit = f
  <2>1. CASE UNCHANGED index
    BY <2>1
  <2>2. ASSUME NEW k \in Key, DropEntry(k)
        PROVE  ghit = f
    BY <2>2 DEF DropEntry, DeleteEntry, SetEntry
  <2> QED
    BY <1>2, <2>1, <2>2, Zenon
       DEF SweepStep, PassStep, StartSweep, WalkIndex, WalkShards, DeleteShard, RemoveShard, StartMark,
           ReportShard, LoadDeadShard, MarkShard, ReadEntry, StopAtBound, StopUnreadable, WalkXorbs,
           FinishSweep, SweepXorb, RemoveXorb, SweepFails, EndPass, storeVars
<1>3. ASSUME NEW g \in File, Unlink(g)
      PROVE  Unlink(f)
  BY <1>3, Zenon DEF Unlink, DeleteEntry, SetEntry
<1>4. ASSUME NEW d \in Digest, UnlinkSHA256(d)
      PROVE  FALSE
  BY <1>4, KindAssumption DEF UnlinkSHA256, DeleteEntry, SetEntry
<1>5. CASE Tick
  BY <1>5 DEF Tick
<1> QED BY <1>1, <1>2, <1>3, <1>4, <1>5 DEF Next, Step

\* A file whose entry sweepShard drops is one nothing anchors, unless its
\* shard gained an entry while it was being swept.
LEMMA DropUnanchored ==
    ASSUME IInv, NEW f \in File, ghit = f, index[f] = gcur, ~Exposed(f), index[f] # None
    PROVE  ganchor = "sha256" /\ ~SHA256Anchored(gcur)
<1>1. ganchor = "sha256" /\ \A c \in gchecks : c[1] >= 3
  BY DEF IInv, StorePart, DropInv
<1>2. gcur # None /\ gcur \notin raced
  BY Zenon DEF Exposed
<1>3. ASSUME NEW d \in Digest, index[d] = gcur
      PROVE  FALSE
  <2>1. <<2, d>> \in gchecks
    BY <1>1, <1>2, <1>3 DEF IInv, StorePart, AnchorInv
  <2> QED BY <1>1, <2>1
<1>4. ASSUME hasUnanchorableFile(gcur)
      PROVE  FALSE
  <2>1. <<1, f>> \in gchecks
    BY <1>1, <1>2, <1>4 DEF IInv, StorePart, AnchorInv
  <2> QED BY <1>1, <2>1
<1> QED BY <1>1, <1>3, <1>4 DEF SHA256Anchored

\* A readable file stays readable until it is unlinked, or a sha256 sweep
\* drops its entry when nothing anchors its shard, or a recorded race
\* concerns the shard it resolves to.
THEOREM FilesKept == Spec => ReadableKept
<1>1. ASSUME IInv, IInv', [Next]_vars, NEW f \in File, Readable(f), ~Readable(f)'
      PROVE  \/ Unlink(f)
             \/ /\ ganchor = "sha256" /\ ghit = f
                /\ index[f] = gcur => ~SHA256Anchored(gcur)
             \/ Exposed(f) \/ Exposed(f)'
  <2>1. index[f] # None /\ f \in Key
    BY <1>1, CatalogTypes DEF Readable, IInv, TypeOK, StoreTypeOK
  <2>2. CASE index'[f] = None
    <3>1. CASE Next
      <4>1. Unlink(f) \/ ghit = f
        BY <1>1, <2>1, <2>2, <3>1, EntryLost, Zenon
      <4>2. ghit = f => ganchor = "sha256"
        BY <1>1 DEF IInv, StorePart, DropInv
      <4> QED BY <1>1, <2>1, <4>1, <4>2, DropUnanchored
    <3>2. CASE UNCHANGED vars
      BY <2>1, <2>2, <3>2 DEF vars, storeVars
    <3> QED BY <1>1, <3>1, <3>2
  <2>3. CASE index'[f] # None
    <3>1. index'[f] \in shards' \cup raced' \cup bypassed'
      BY <1>1, <2>1, <2>3 DEF IInv, StorePart, NoDangling
    <3>2. index'[f] \in shards' => Refs[index'[f]] \subseteq xorbs' \cup atRisk'[index'[f]]
      BY <1>1, Zenon DEF IInv, StorePart, ShardsWhole
    <3>3. Exposed(f)'
      BY <1>1, <2>3, <3>1, <3>2 DEF Readable, Exposed
    <3> QED BY <3>3
  <2> QED BY <2>2, <2>3
<1>2. IInv /\ IInv' /\ [Next]_vars =>
        [\A f \in File :
           Readable(f) /\ ~Readable(f)'
              => \/ Unlink(f)
                 \/ /\ ganchor = "sha256" /\ ghit = f
                    /\ index[f] = gcur => ~SHA256Anchored(gcur)
                 \/ Exposed(f) \/ Exposed(f)']_vars
  BY <1>1
<1> QED BY <1>2, Invariance, PTL DEF Spec, ReadableKept
=============================================================================
