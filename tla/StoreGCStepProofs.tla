------------------------- MODULE StoreGCStepProofs --------------------------
(***************************************************************************)
(* Uploads, commits and unlinks keep the invariant of StoreGC, and so do   *)
(* the steps of a pass that only read the store.                           *)
(***************************************************************************)
EXTENDS StoreGCInv

-----------------------------------------------------------------------------
(* Uploads.                                                                *)

\* The steps of an upload that only read the store.
LEMMA UploadReads ==
    ASSUME IInv, Record, NEW u \in Uploader, UNCHANGED <<storeVars, sweepVars>>,
           \/ \E s \in Shard : \E fresh \in SUBSET Refs[s] : Begin(u, s, fresh)
           \/ \E x \in Xorb : PutXorbProbe(u, x) \/ PrepareXorb(u, x)
           \/ PutShard(u) \/ StatShard(u) \/ CommitDone(u) \/ UploadFails(u)
           \/ \E f \in File : HasFile(u, f)
           \/ \E k \in Key : ProbeIndexFile(u, k)
    PROVE  UploadPart' /\ StorePart'
<1>1. StorePart' /\ UNCHANGED history
  BY QuietUpload
<1>2. TypeOK /\ UploadPart
  BY DEF IInv
<1>3. ASSUME NEW s \in Shard, NEW fresh \in SUBSET Refs[s], Begin(u, s, fresh)
      PROVE  UploadPart'
  BY <1>1, <1>2, <1>3, GraceAssumption, CatalogTypes
     DEF UploadPart, UploadInv, OwnObjects, CommitInv, TypeOK, UploadTypeOK, StoreTypeOK,
         Begin, Goto, storeVars, history
<1>4. ASSUME NEW x \in Xorb, PutXorbProbe(u, x)
      PROVE  UploadPart'
  BY <1>1, <1>2, <1>4
     DEF UploadPart, UploadInv, OwnObjects, CommitInv, TypeOK, UploadTypeOK, StoreTypeOK,
         PutXorbProbe, Advance, storeVars, history
<1>5. ASSUME NEW x \in Xorb, PrepareXorb(u, x)
      PROVE  UploadPart'
  <2>1. CASE Return(u)
    BY <2>1, ReturnPart
  <2>2. CASE /\ upc[u] = "prepare" /\ Advance(u, x)
             /\ UNCHANGED <<upc, ujob, uwait, uown, uborn, wasInserted>>
    BY <1>1, <1>2, <1>5, <2>2
       DEF UploadPart, UploadInv, OwnObjects, CommitInv, TypeOK, UploadTypeOK, StoreTypeOK,
           Advance, storeVars, history
  <2> QED BY <1>5, <2>1, <2>2 DEF PrepareXorb
<1>6. CASE PutShard(u)
  BY <1>1, <1>2, <1>6, CatalogTypes
     DEF UploadPart, UploadInv, OwnObjects, CommitInv, TypeOK, UploadTypeOK, StoreTypeOK,
         PutShard, Goto, storeVars, history
<1>7. CASE StatShard(u)
  BY <1>1, <1>2, <1>7
     DEF UploadPart, UploadInv, OwnObjects, CommitInv, TypeOK, UploadTypeOK, StoreTypeOK,
         StatShard, Goto, storeVars, history
<1>8. CASE CommitDone(u) \/ UploadFails(u)
  <2>1. Return(u)
    BY <1>8 DEF CommitDone, UploadFails
  <2> QED BY <1>1, <2>1, ReturnPart
<1>9. ASSUME NEW f \in File, HasFile(u, f)
      PROVE  UploadPart'
  <2>1. CASE Return(u)
    BY <2>1, ReturnPart
  <2>2. CASE /\ upc[u] = "hasFile" /\ Goto(u, "prepare", Refs[ujob[u]])
             /\ UNCHANGED <<ujob, uwait, uown, uborn, wasInserted>>
    BY <1>1, <1>2, <1>9, <2>2
       DEF UploadPart, UploadInv, OwnObjects, CommitInv, TypeOK, UploadTypeOK, StoreTypeOK,
           Goto, storeVars, history
  <2>3. CASE /\ upc[u] = "hasFile" /\ Advance(u, f)
             /\ UNCHANGED <<upc, ujob, uwait, uown, uborn, wasInserted>>
    BY <1>1, <1>2, <1>9, <2>3
       DEF UploadPart, UploadInv, OwnObjects, CommitInv, TypeOK, UploadTypeOK, StoreTypeOK,
           Advance, storeVars, history
  <2> QED BY <1>9, <2>1, <2>2, <2>3 DEF HasFile
<1>10. ASSUME NEW k \in Key, ProbeIndexFile(u, k)
       PROVE  UploadPart'
  BY <1>1, <1>2, <1>10
     DEF UploadPart, UploadInv, OwnObjects, CommitInv, TypeOK, UploadTypeOK, StoreTypeOK,
         ProbeIndexFile, IsNextEntry, Advance, storeVars, history
<1> QED
  BY <1>1, <1>3, <1>4, <1>5, <1>6, <1>7, <1>8, <1>9, <1>10

\* Nothing an upload wrote, or found missing, is condemned.
LEMMA OwnNotCondemned ==
    ASSUME IInv, NEW u \in Uploader, upc[u] # "idle"
    PROVE  /\ uborn[u] \in Nat
           /\ gpc # "idle" => gcutoff <= uborn[u]
           /\ \A x \in uown[u] : x \in xorbs /\ x \notin gdeadx
           /\ \A x \in xorbs : xmod[x] >= uborn[u] => x \notin gdeadx
           /\ \A s \in shards : smod[s] >= uborn[u] => s \notin gdead /\ s # gcur
<1>1. /\ uborn[u] \in Nat /\ now \in Nat /\ Grace \in Nat /\ gcutoff \in Int
      /\ \A x \in xorbs : xmod[x] \in Nat
      /\ \A s \in shards : smod[s] \in Nat
  BY GraceAssumption DEF IInv, TypeOK, StoreTypeOK, UploadTypeOK, SweepTypeOK
<1>2. now <= uborn[u] + Grace
  BY DEF IInv, UploadPart, UploadInv
<1>3. gpc # "idle" => gcutoff <= uborn[u]
  BY <1>1, <1>2 DEF IInv, StorePart, SweepInv
<1>4. \A x \in xorbs : xmod[x] >= uborn[u] => x \notin gdeadx
  BY <1>1, <1>3 DEF IInv, StorePart, SweepInv
<1>5. \A s \in shards : smod[s] >= uborn[u] => s \notin gdead /\ s # gcur
  BY <1>1, <1>3, CatalogTypes DEF IInv, TypeOK, StoreTypeOK, StorePart, SweepInv
<1> QED
  BY <1>1, <1>3, <1>4, <1>5 DEF IInv, UploadPart, OwnObjects

\* The write that ends PutXorb refreshes no xorb a sweep has condemned.
LEMMA XorbWrite ==
    ASSUME IInv, Record, NEW u \in Uploader, NEW x \in Xorb, PutXorbWrite(u, x),
           UNCHANGED sweepVars
    PROVE  UploadPart' /\ StorePart'
<1> USE DEF IInv
<1>1. upc[u] = "xorbs" /\ uwait[u] = x
  BY DEF PutXorbWrite
<1>2. /\ xorbs' = xorbs \cup {x} /\ xmod' = [xmod EXCEPT ![x] = now]
      /\ UNCHANGED <<now, shards, smod, index>>
  BY DEF PutXorbWrite, StoreXorb
<1>3. x \notin gdeadx
  BY <1>1, OwnNotCondemned DEF UploadPart, UploadInv, StorePart, SweepInv
<1>4. bypassed' = bypassed /\ atRisk' = atRisk /\ raced' = raced
  BY <1>2, QuietRecord DEF StorePart, sweepVars, shardVars
<1>5. UploadInv'
  BY <1>1, <1>2, CatalogTypes
     DEF UploadPart, UploadInv, TypeOK, UploadTypeOK, StoreTypeOK, PutXorbWrite, Advance
<1>6. OwnObjects'
  BY <1>1, <1>2
     DEF UploadPart, UploadInv, OwnObjects, TypeOK, UploadTypeOK, StoreTypeOK, PutXorbWrite
<1>7. CommitInv'
  BY <1>2, <1>4 DEF UploadPart, CommitInv, PutXorbWrite
<1>8. OwnEntries' /\ NoDangling' /\ ChecksInv' /\ AnchorInv' /\ DropInv' /\ HistoryInv'
  BY <1>2, <1>4
     DEF StorePart, OwnEntries, NoDangling, ChecksInv, AnchorInv, DropInv, HistoryInv,
         sweepVars, optionVars, shardVars
<1>9. SweepInv'
  BY <1>2, <1>3
     DEF StorePart, SweepInv, TypeOK, StoreTypeOK, sweepVars, optionVars, shardVars, xorbVars,
         resultVars
<1>10. ShardsWhole'
  BY <1>2, <1>4 DEF StorePart, ShardsWhole
<1>11. gpc # "idle" => gcutoff <= now
  BY GraceAssumption DEF StorePart, SweepInv, TypeOK, StoreTypeOK, SweepTypeOK
<1>12. MarkInv'
  BY <1>2, <1>4, <1>11
     DEF StorePart, MarkInv, TypeOK, StoreTypeOK, SweepTypeOK, sweepVars, optionVars, xorbVars,
         resultVars
<1> QED
  BY <1>5, <1>6, <1>7, <1>8, <1>9, <1>10, <1>12 DEF UploadPart, StorePart

\* A shard object that lands is whole: its new xorbs are its uploader's, and
\* the others are stored or recorded as at risk.
LEMMA ShardWrite ==
    ASSUME IInv, Record, NEW u \in Uploader, WriteShard(u), UNCHANGED sweepVars
    PROVE  UploadPart' /\ StorePart'
<1> USE DEF IInv
<1> DEFINE s == ujob[u]
<1>1. upc[u] = "shard" /\ s \in Shard
  BY DEF WriteShard, TypeOK, UploadTypeOK
<1>2. /\ shards' = shards \cup {s} /\ smod' = [smod EXCEPT ![s] = now]
      /\ UNCHANGED <<now, xorbs, xmod, index>>
      /\ UNCHANGED <<ujob, uwait, uown, uborn>>
  BY DEF WriteShard, StoreShard
<1>3. s \notin gdead /\ s # gcur
  <2>1. CASE s \in shards
    BY <1>1, <2>1, OwnNotCondemned DEF UploadPart, UploadInv
  <2>2. CASE s \notin shards
    BY <1>1, <2>2, CatalogTypes DEF StorePart, SweepInv
  <2> QED BY <2>1, <2>2
<1>4. raced \ {s} \subseteq raced' /\ bypassed \ {s} \subseteq bypassed'
  BY <1>2, <1>3
     DEF StorePart, HistoryInv, Record, TypeOK, sweepVars, shardVars
<1>5. HistoryInv'
  BY Zenon DEF HistoryInv, Record
<1>6. UploadInv'
  <2>1. /\ upc'[u] = "indexes" /\ utodo'[u] = KeysOf(s)
        /\ \A v \in Uploader : v # u => upc'[v] = upc[v] /\ utodo'[v] = utodo[v]
    BY <1>1, Zenon DEF WriteShard, Goto, TypeOK, UploadTypeOK
  <2>2. smod'[s] = now /\ \A r \in Shard : r # s => smod'[r] = smod[r]
    BY <1>1, <1>2, Zenon DEF TypeOK, StoreTypeOK
  <2>3. \A v \in Uploader : upc[v] # "idle" => ujob[v] \in Shard /\ uborn[v] <= now
    BY DEF UploadPart, UploadInv, TypeOK, UploadTypeOK
  <2>4. uwait[u] = None
    BY <1>1 DEF UploadPart, UploadInv
  <2> SUFFICES ASSUME NEW v \in Uploader
               PROVE  /\ upc'[v] = "idle" => uown[v] = {} /\ uwait[v] = None
                      /\ upc'[v] # "idle" => uborn[v] <= now /\ now <= uborn[v] + Grace
                      /\ upc'[v] \notin {"xorbs", "indexes"} => uwait[v] = None
                      /\ uwait[v] # None => uwait[v] \in utodo'[v]
                      /\ upc'[v] = "indexes" /\ Overwrite => uwait[v] = None
                      /\ upc'[v] = "xorbs" /\ uwait[v] \in xorbs => xmod[uwait[v]] >= uborn[v]
                      /\ upc'[v] = "shard" /\ ujob[v] \in shards' => smod'[ujob[v]] >= uborn[v]
                      /\ upc'[v] = "indexes" =>
                            utodo'[v] \cup ({uwait[v]} \ {None}) \subseteq KeysOf(ujob[v])
    BY <1>2, Zenon DEF UploadInv
  <2>5. CASE v = u
    BY <1>1, <2>1, <2>3, <2>4, <2>5 DEF UploadPart, UploadInv
  <2>6. CASE v # u
    <3>1. upc[v] = "shard" /\ ujob[v] \in shards' => smod'[ujob[v]] >= uborn[v]
      BY <1>2, <2>2, <2>3 DEF UploadPart, UploadInv
    <3> QED BY <2>1, <2>6, <3>1, Zenon DEF UploadPart, UploadInv
  <2> QED BY <2>5, <2>6
<1>7. OwnObjects'
  BY <1>1, <1>2
     DEF UploadPart, UploadInv, OwnObjects, TypeOK, UploadTypeOK, StoreTypeOK, WriteShard, Goto
<1>8. CommitInv'
  BY <1>1, <1>2, <1>4
     DEF UploadPart, CommitInv, TypeOK, UploadTypeOK, WriteShard, Goto
<1>9. OwnEntries' /\ NoDangling' /\ DropInv'
  BY <1>2, <1>4
     DEF StorePart, OwnEntries, NoDangling, DropInv, sweepVars, optionVars, shardVars
<1>10. ChecksInv' /\ AnchorInv'
  <2>1. UNCHANGED <<ganchor, gcur, gchecks, ghit>> /\ (gcur \in raced => gcur \in raced')
    BY <1>3, <1>4 DEF sweepVars, optionVars, shardVars
  <2> QED BY <1>2, <2>1 DEF StorePart, ChecksInv, AnchorInv
<1>11. SweepInv'
  BY <1>2, <1>3
     DEF StorePart, SweepInv, TypeOK, StoreTypeOK, sweepVars, optionVars, shardVars, xorbVars,
         resultVars
<1>12. /\ OwnXorbs(s) \subseteq xorbs
       /\ \A x \in OwnXorbs(s) : /\ x \notin gdeadx
                                 /\ gpc # "idle" => xmod[x] >= gcutoff
  <2> SUFFICES ASSUME NEW v \in Uploader, upc[v] = "shard", NEW x \in uown[v]
               PROVE  x \in xorbs /\ x \notin gdeadx /\ (gpc # "idle" => xmod[x] >= gcutoff)
    BY DEF OwnXorbs
  <2>1. xmod[x] >= uborn[v] /\ x \in xorbs
    BY DEF UploadPart, OwnObjects
  <2>2. xmod[x] \in Nat /\ gcutoff \in Int /\ uborn[v] \in Nat
    BY <2>1 DEF TypeOK, StoreTypeOK, SweepTypeOK, UploadTypeOK
  <2> QED BY <2>1, <2>2, OwnNotCondemned
<1>13. /\ \A r \in Shard \ {s} : atRisk'[r] = atRisk[r]
       /\ s \in shards => atRisk' = atRisk
       /\ s \notin shards /\ Late(s) => Refs[s] \ OwnXorbs(s) \subseteq atRisk'[s]
  BY <1>1, <1>2, Zenon DEF Record, TypeOK, StoreTypeOK
<1>14. ShardsWhole'
  BY <1>1, <1>2, <1>12, <1>13 DEF StorePart, ShardsWhole, Late, TypeOK, StoreTypeOK
<1>15. MarkInv'
  <2>1. CASE s \in shards
    BY <1>2, <1>13, <2>1, Zenon
       DEF StorePart, MarkInv, TypeOK, StoreTypeOK, sweepVars, optionVars, xorbVars, resultVars
  <2>2. CASE s \notin shards
    BY <1>1, <1>2, <1>12, <1>13, <2>2
       DEF StorePart, MarkInv, Late, TypeOK, StoreTypeOK, sweepVars, optionVars, xorbVars,
           resultVars
  <2> QED BY <2>1, <2>2
<1> QED
  BY <1>5, <1>6, <1>7, <1>8, <1>9, <1>10, <1>11, <1>14, <1>15 DEF UploadPart, StorePart

\* An entry an upload writes points at a stored shard or at one recorded as
\* deleted under it; sweepShard's shard is recorded when it gains an entry.
LEMMA EntryWrite ==
    ASSUME IInv, Record, NEW u \in Uploader, NEW k \in Key,
           PutIndexObject(u, k) \/ WriteIndexFile(u, k), UNCHANGED sweepVars
    PROVE  UploadPart' /\ StorePart'
<1> USE DEF IInv
<1> DEFINE s == ujob[u]
<1>1. /\ upc[u] = "indexes" /\ s \in Shard /\ k \in KeysOf(s)
      /\ s \in shards \cup bypassed
  BY CatalogTypes, Zenon
     DEF PutIndexObject, WriteIndexFile, IsNextEntry, TypeOK, UploadTypeOK, UploadPart, UploadInv,
         CommitInv
<1>2. /\ index' = [index EXCEPT ![k] = s]
      /\ UNCHANGED <<now, xorbs, shards, xmod, smod>>
      /\ UNCHANGED <<upc, ujob, uown, uborn, wasInserted>>
  BY DEF PutIndexObject, WriteIndexFile, SetEntry, objectVars
<1>3. UNCHANGED <<gpc, ganchor, gdryrun, gcutoff, gtodo, gseen, gdead, gcur, gchecks, ghit,
                  gbad, gdry, grefs, gdeadx, gcount>>
  BY DEF sweepVars, optionVars, shardVars, xorbVars, resultVars
<1>4. atRisk' = atRisk /\ bypassed' = bypassed /\ raced \subseteq raced'
  BY <1>2, <1>3 DEF Record, TypeOK, StorePart, HistoryInv
<1>5. HistoryInv'
  BY DEF HistoryInv, Record
<1>6. UploadInv'
  <2>1. CASE PutIndexObject(u, k)
    BY <1>1, <1>2, <2>1, BackendAssumption, Zenon
       DEF UploadPart, UploadInv, TypeOK, UploadTypeOK, PutIndexObject, Advance
  <2>2. CASE WriteIndexFile(u, k)
    BY <1>1, <1>2, <2>2, Zenon
       DEF UploadPart, UploadInv, TypeOK, UploadTypeOK, WriteIndexFile, Advance
  <2> QED BY <2>1, <2>2
<1>7. OwnObjects' /\ CommitInv'
  BY <1>2, <1>4 DEF UploadPart, OwnObjects, CommitInv
<1>8. OwnEntries' /\ NoDangling'
  BY <1>1, <1>2, <1>4 DEF StorePart, OwnEntries, NoDangling, TypeOK, StoreTypeOK
<1>9. ChecksInv' /\ AnchorInv'
  <2>1. ASSUME NEW j \in Key, index'[j] = gcur, index[j] # gcur, gcur # None
        PROVE  gcur \in raced'
    BY <1>3, <2>1, Zenon DEF Record, TypeOK, SweepTypeOK
  <2>2. ChecksInv'
    BY <1>3, <1>4, <2>1, Zenon DEF StorePart, ChecksInv
  <2>3. AnchorInv'
    BY <1>3, <1>4, <2>1, CatalogTypes, Zenon DEF StorePart, AnchorInv
  <2> QED BY <2>2, <2>3
<1>10. SweepInv' /\ DropInv' /\ MarkInv' /\ ShardsWhole'
  BY <1>2, <1>3, <1>4, Zenon DEF StorePart, SweepInv, DropInv, MarkInv, ShardsWhole
<1> QED
  BY <1>5, <1>6, <1>7, <1>8, <1>9, <1>10 DEF UploadPart, StorePart

\* An entry is deleted: by a user, or by sweepShard after reading it.
LEMMA EntryDelete ==
    ASSUME IInv, Record, NEW k \in Key, DeleteEntry(k), UNCHANGED uploadVars,
           UNCHANGED <<gpc, optionVars, gtodo, gseen, gdead, gcur, gchecks, xorbVars, resultVars>>,
           ghit' = ghit \/ (ghit = k /\ ghit' = None)
    PROVE  UploadPart' /\ StorePart'
<1> USE DEF IInv
<1>1. UploadPart'
  BY QuietSweep DEF DeleteEntry, SetEntry, objectVars
<1>2. index' = [index EXCEPT ![k] = None] /\ UNCHANGED <<now, xorbs, shards, xmod, smod>>
  BY DEF DeleteEntry, SetEntry, objectVars
<1>3. UNCHANGED <<gpc, ganchor, gdryrun, gcutoff, gtodo, gseen, gdead, gcur, gchecks,
                  gbad, gdry, grefs, gdeadx, gcount>>
  BY DEF optionVars, xorbVars, resultVars
<1>4. atRisk' = atRisk /\ bypassed' = bypassed /\ raced \subseteq raced'
  BY <1>2, <1>3, Zenon DEF Record, TypeOK, StorePart, HistoryInv
<1>5. HistoryInv'
  BY Zenon DEF HistoryInv, Record
<1>6. OwnEntries' /\ NoDangling'
  BY <1>2, <1>4 DEF StorePart, OwnEntries, NoDangling, TypeOK, StoreTypeOK
<1>7. ChecksInv' /\ AnchorInv'
  BY <1>2, <1>3, <1>4 DEF StorePart, ChecksInv, AnchorInv, TypeOK, StoreTypeOK
<1>8. SweepInv' /\ DropInv'
  BY <1>2, <1>3, CatalogTypes, Zenon DEF StorePart, SweepInv, DropInv
<1>9. MarkInv' /\ ShardsWhole'
  BY <1>2, <1>3, <1>4, Zenon DEF StorePart, MarkInv, ShardsWhole
<1> QED
  BY <1>1, <1>5, <1>6, <1>7, <1>8, <1>9 DEF StorePart

-----------------------------------------------------------------------------
(* The pass.                                                               *)

\* A pass that is over has condemned nothing.
LEMMA PassEnds ==
    ASSUME IInv, Record, EndPass, UNCHANGED uploadVars
    PROVE  UploadPart' /\ StorePart'
<1> USE DEF IInv
<1>1. UploadPart'
  BY QuietSweep DEF EndPass, storeVars, objectVars
<1>2. UNCHANGED <<now, xorbs, shards, xmod, smod, index>>
  BY DEF EndPass, storeVars
<1>3. /\ bypassed' = bypassed /\ atRisk' = atRisk
      /\ raced' = {s \in raced : s \notin shards \/ s = gcur'}
  BY <1>2, QuietRecord DEF StorePart
<1>4. OwnEntries' /\ NoDangling' /\ ShardsWhole' /\ HistoryInv'
  BY <1>2, <1>3 DEF StorePart, OwnEntries, NoDangling, ShardsWhole, HistoryInv
<1>5. SweepInv' /\ ChecksInv' /\ AnchorInv' /\ DropInv' /\ MarkInv'
  BY <1>2, CatalogTypes DEF SweepInv, ChecksInv, AnchorInv, DropInv, MarkInv, EndPass
<1> QED
  BY <1>1, <1>4, <1>5 DEF StorePart

\* The steps of a pass that only read the store.
LEMMA SweepReads ==
    ASSUME IInv, Record, UNCHANGED <<storeVars, uploadVars>>,
           \/ \E anchor \in Anchors : \E dryRun \in DryRuns : StartSweep(anchor, dryRun)
           \/ \E k \in Key : WalkIndex(k)
           \/ WalkShards \/ StartMark \/ WalkXorbs
           \/ \E s \in Shard : ReportShard(s) \/ LoadDeadShard(s) \/ MarkShard(s)
           \/ \E c \in ShardStage \X Key : ReadEntry(c)
    PROVE  UploadPart' /\ StorePart'
<1> USE DEF IInv
<1>1. UploadPart'
  BY QuietSweep DEF storeVars, objectVars
<1>2. UNCHANGED <<now, xorbs, shards, xmod, smod, index>>
  BY DEF storeVars
<1>3. /\ bypassed' = bypassed /\ atRisk' = atRisk
      /\ raced' = {s \in raced : s \notin shards \/ s = gcur'}
      /\ gcur' = gcur \/ gcur = None => raced' = raced
  BY <1>2, QuietRecord DEF StorePart
<1>4. OwnEntries' /\ NoDangling' /\ ShardsWhole' /\ HistoryInv'
  BY <1>2, <1>3, Zenon DEF StorePart, OwnEntries, NoDangling, ShardsWhole, HistoryInv
<1> USE DEF optionVars, shardVars, xorbVars, resultVars
<1>5. ASSUME NEW anchor \in Anchors, NEW dryRun \in DryRuns, StartSweep(anchor, dryRun)
      PROVE  SweepInv' /\ ChecksInv' /\ AnchorInv' /\ DropInv' /\ MarkInv'
  <2>1. gcur = None /\ ghit = None /\ gcur' = gcur /\ ghit' = ghit /\ gchecks' = gchecks
    BY <1>5, Zenon DEF StorePart, SweepInv, StartSweep
  <2>2. ChecksInv' /\ AnchorInv' /\ DropInv'
    BY <2>1, CatalogTypes, Zenon DEF StorePart, ChecksInv, AnchorInv, DropInv
  <2>3. /\ gpc = "idle" /\ gpc' = "walk" /\ gcutoff' = now - Grace
        /\ gdead' = gdead /\ gdry' = gdry /\ gdeadx' = gdeadx
    BY <1>5, Zenon DEF StartSweep
  <2>4. gdead = {} /\ gdry = {} /\ gdeadx = {}
    BY <2>3 DEF StorePart, SweepInv
  <2>5. gcutoff' + Grace <= now'
    BY <1>2, <2>3, GraceAssumption DEF TypeOK, StoreTypeOK
  <2>6. SweepInv' /\ MarkInv'
    BY <2>1, <2>3, <2>4, <2>5 DEF SweepInv, MarkInv
  <2> QED BY <2>2, <2>6
<1>6. ASSUME NEW k \in Key, WalkIndex(k)
      PROVE  SweepInv' /\ ChecksInv' /\ AnchorInv' /\ DropInv' /\ MarkInv'
  BY <1>2, <1>3, <1>6, Zenon DEF StorePart, SweepInv, ChecksInv, AnchorInv, DropInv, MarkInv, WalkIndex
<1>7. CASE WalkShards
  <2>1. SweepInv' /\ ChecksInv' /\ AnchorInv' /\ DropInv' /\ MarkInv'
    BY <1>2, <1>3, <1>7, CatalogTypes, Zenon
       DEF StorePart, SweepInv, ChecksInv, AnchorInv, DropInv, MarkInv, WalkShards, TypeOK, StoreTypeOK
  <2> QED BY <1>1, <1>4, <2>1 DEF StorePart
<1>8. CASE StartMark
  <2>1. SweepInv' /\ ChecksInv' /\ AnchorInv' /\ DropInv' /\ MarkInv'
    BY <1>2, <1>3, <1>8, Zenon
       DEF StorePart, SweepInv, ChecksInv, AnchorInv, DropInv, MarkInv, StartMark, TypeOK, StoreTypeOK
  <2> QED BY <1>1, <1>4, <2>1 DEF StorePart
<1>9. CASE WalkXorbs
  <2>1. SweepInv' /\ ChecksInv' /\ AnchorInv' /\ DropInv'
    BY <1>2, <1>3, <1>9, Zenon DEF StorePart, SweepInv, ChecksInv, AnchorInv, DropInv, WalkXorbs
  <2>2. MarkInv'
    <3> SUFFICES ASSUME ~gdryrun, NEW s \in shards, NEW x \in Refs[s] \cap gdeadx'
                 PROVE  x \in atRisk[s]
      BY <1>2, <1>3, <1>9, Zenon DEF MarkInv, WalkXorbs
    <3>1. x \notin grefs /\ x \in xorbs /\ xmod[x] < gcutoff
      BY <1>9, Zenon DEF WalkXorbs
    <3>2. xmod[x] \in Nat /\ gcutoff \in Int
      BY <3>1, Zenon DEF TypeOK, StoreTypeOK, SweepTypeOK
    <3>3. x \in grefs \cup atRisk[s] \/ xmod[x] >= gcutoff
      BY <1>9, Zenon DEF StorePart, MarkInv, WalkXorbs
    <3> QED BY <3>1, <3>2, <3>3
  <2> QED BY <1>1, <1>4, <2>1, <2>2 DEF StorePart
<1>10. ASSUME NEW s \in Shard, ReportShard(s)
       PROVE  SweepInv' /\ ChecksInv' /\ AnchorInv' /\ DropInv' /\ MarkInv'
  BY <1>2, <1>3, <1>10, Zenon DEF StorePart, SweepInv, ChecksInv, AnchorInv, DropInv, MarkInv, ReportShard
<1>11. ASSUME NEW s \in Shard, LoadDeadShard(s)
       PROVE  SweepInv' /\ ChecksInv' /\ AnchorInv' /\ DropInv' /\ MarkInv'
  <2>1. SweepInv' /\ MarkInv'
    BY <1>2, <1>11, CatalogTypes, Zenon DEF StorePart, SweepInv, MarkInv, LoadDeadShard
  <2>2. ChecksInv'
    BY <1>2, <1>3, <1>11, ChecksCover, Zenon DEF StorePart, SweepInv, ChecksInv, OwnEntries, LoadDeadShard
  <2>3. AnchorInv'
    <3>1. CASE gcur' = None
      BY <3>1 DEF AnchorInv
    <3>2. CASE gcur' = s /\ gchecks' = Checks(ganchor, s)
      <4>1. \A k \in Key : index[k] = s => k \in KeysOf(s)
        BY CatalogTypes, Zenon DEF StorePart, OwnEntries
      <4> QED BY <1>2, <1>11, <3>2, <4>1, ChecksCover, CatalogTypes, Zenon DEF AnchorInv, LoadDeadShard
    <3> QED BY <1>11, <3>1, <3>2, Zenon DEF StorePart, SweepInv, LoadDeadShard
  <2>4. DropInv'
    BY <1>11, ChecksCover, CatalogTypes, Zenon DEF StorePart, SweepInv, DropInv, LoadDeadShard
  <2> QED BY <2>1, <2>2, <2>3, <2>4
<1>12. ASSUME NEW s \in Shard, MarkShard(s)
       PROVE  SweepInv' /\ ChecksInv' /\ AnchorInv' /\ DropInv' /\ MarkInv'
  <2>1. SweepInv' /\ ChecksInv' /\ AnchorInv' /\ DropInv'
    BY <1>2, <1>3, <1>12, Zenon DEF StorePart, SweepInv, ChecksInv, AnchorInv, DropInv, MarkShard
  <2>2. MarkInv'
    BY <1>2, <1>3, <1>12, Zenon DEF StorePart, SweepInv, MarkInv, MarkShard
  <2> QED BY <2>1, <2>2
<1>13. ASSUME NEW c \in ShardStage \X Key, ReadEntry(c)
       PROVE  SweepInv' /\ ChecksInv' /\ AnchorInv' /\ DropInv' /\ MarkInv'
  <2>1. SweepInv' /\ MarkInv'
    BY <1>2, <1>3, <1>13, CatalogTypes, Zenon
       DEF StorePart, SweepInv, MarkInv, ReadEntry, TypeOK, StoreTypeOK
  <2>2. ChecksInv'
    <3>1. CASE gcur' = None
      BY <3>1 DEF ChecksInv
    <3>2. CASE gcur' = gcur /\ raced' = raced
      <4> SUFFICES ASSUME gcur # None, NEW k \in Key, index[k] = gcur
                   PROVE  ghit' = k \/ gcur \in raced \/ \E n \in ShardStage : <<n, k>> \in gchecks'
        BY <1>2, <3>2 DEF ChecksInv
      <4>1. CASE k = c[2]
        BY <1>13, <4>1, <3>2, Zenon DEF ReadEntry, StorePart, ChecksInv
      <4>2. CASE k # c[2]
        <5>1. ghit = None /\ gchecks \ {c} \subseteq gchecks'
          BY <1>13, <3>2, Zenon DEF ReadEntry, StorePart, SweepInv
        <5>2. k # ghit
          BY <5>1, CatalogTypes, Zenon
        <5>3. \A n \in ShardStage : <<n, k>> # c
          BY <4>2
        <5> QED BY <5>1, <5>2, <5>3, Zenon DEF StorePart, ChecksInv
      <4> QED BY <4>1, <4>2, Zenon
    <3> QED BY <1>3, <1>13, <3>1, <3>2, Zenon DEF ReadEntry
  <2>3. DropInv'
    <3>1. gchecks' \subseteq gchecks
      BY <1>13, Zenon DEF ReadEntry
    <3>2. CASE ghit' = None
      BY <3>1, <3>2, CatalogTypes, Zenon DEF StorePart, DropInv
    <3>3. CASE ghit' = c[2] /\ ~IsGuard(c[1])
      BY <1>13, <3>1, <3>3, Zenon DEF StorePart, DropInv, ReadEntry, IsNextCheck, IsGuard, ShardStage
    <3> QED BY <1>13, <3>2, <3>3, Zenon DEF ReadEntry
  <2>4. AnchorInv'
    <3>1. CASE gcur' = None
      BY <3>1 DEF AnchorInv
    <3>2. CASE gcur' = gcur /\ raced' = raced
      <4>1. \A b \in gchecks : b[1] \in {1, 2} /\ index[b[2]] = gcur /\ gcur' # None => b \in gchecks'
        BY <1>13, <3>2, Zenon DEF ReadEntry, IsGuard, StorePart, SweepInv
      <4> QED BY <1>2, <1>13, <3>2, <4>1, Zenon DEF ReadEntry, StorePart, AnchorInv
    <3> QED BY <1>3, <1>13, <3>1, <3>2, Zenon DEF ReadEntry
  <2> QED BY <2>1, <2>2, <2>3, <2>4
<1> QED
  BY <1>1, <1>4, <1>5, <1>6, <1>7, <1>8, <1>9, <1>10, <1>11, <1>12, <1>13 DEF StorePart
=============================================================================
