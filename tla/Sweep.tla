------------------------------- MODULE Sweep -------------------------------
(***************************************************************************)
(* storage/gc.go: Unlink, UnlinkSHA256 and the mark-and-sweep pass behind  *)
(* Sweep and GC.SweepStep, one storage call per step.  GC.mu admits one    *)
(* sweep at a time; a pass keeps nothing for the next one.                 *)
(***************************************************************************)
EXTENDS Commit

CONSTANTS
    Anchors,     \* the anchors sweeps may be asked for
    DryRuns,     \* the values DryRun may be given
    MaxDeletes,  \* SweepOptions.MaxDeletes, 0 for no limit
    Budget,      \* TRUE: the wall clock may end a pass that deleted something
    Faulty,      \* shards whose load may fail
    Unlinkable   \* the files and digests a user may unlink

ASSUME SweepAssumption ==
    /\ Anchors \subseteq {"both", "files", "sha256"}
    /\ DryRuns \subseteq BOOLEAN
    /\ MaxDeletes \in Nat
    /\ Budget \in BOOLEAN
    /\ Faulty \subseteq Shard
    /\ Unlinkable \subseteq File \cup Digest

VARIABLES
    gpc,      \* the part of the pass the sweep is in
    ganchor,  \* SweepOptions.Anchor
    gdryrun,  \* SweepOptions.DryRun
    gcutoff,  \* objects modified at or after it are spared
    gtodo,    \* the entries or shards its walk has not visited
    gseen,    \* shards an anchoring entry was seen to point at
    gdead,    \* deadShards
    gcur,     \* the shard sweepShard is working on
    gchecks,  \* the entries sweepShard has yet to look at, with the stage
    ghit,     \* the entry sweepShard read as its own and is about to delete
    gbad,     \* res.UnreadableShards
    gdry,     \* what a dry run reports
    grefs,    \* refXorbs
    gdeadx,   \* deadXorbs
    gcount    \* sweptCount

optionVars == <<ganchor, gdryrun, gcutoff>>
shardVars == <<gcur, gchecks, ghit>>
xorbVars == <<grefs, gdeadx>>
resultVars == <<gbad, gdry, gcount>>
sweepVars == <<gpc, optionVars, gtodo, gseen, gdead, shardVars, xorbVars, resultVars>>

SweepPhase == {"idle", "walk", "queue", "sweepShard", "mark", "xorbs"}

\* sweepShard's stages, in the order it runs them: the two checks only the
\* sha256 anchor makes (files, sha256), then files, sha256, the zero sha256
\* entry, and chunks.
ShardStage == 1..6

SweepInit ==
    /\ gpc = "idle" /\ ganchor = "both" /\ gdryrun = FALSE /\ gcutoff = 0
    /\ gtodo = {} /\ gseen = {} /\ gdead = {}
    /\ gcur = None /\ gchecks = {} /\ ghit = None
    /\ grefs = {} /\ gdeadx = {}
    /\ gbad = {} /\ gdry = {} /\ gcount = 0

SweepTypeOK ==
    /\ gpc \in SweepPhase
    /\ ganchor \in {"both", "files", "sha256"}
    /\ gdryrun \in BOOLEAN
    /\ gcutoff \in Int
    /\ gtodo \subseteq Key \cup Shard
    /\ gseen \subseteq Shard
    /\ gdead \subseteq Shard
    /\ gcur \in Shard \cup {None}
    /\ gchecks \subseteq ShardStage \X Key
    /\ ghit \in Key \cup {None}
    /\ grefs \subseteq Xorb
    /\ gdeadx \subseteq Xorb
    /\ gbad \subseteq Shard
    /\ gdry \subseteq Shard \cup Xorb
    /\ gcount \in Nat

Unlink(f) ==
    /\ f \in Unlinkable \cap File
    /\ DeleteEntry(f)
    /\ UNCHANGED <<uploadVars, sweepVars>>

\* The all-zero digest is rejected.
UnlinkSHA256(d) ==
    /\ d \in Unlinkable \cap Digest
    /\ DeleteEntry(d)
    /\ UNCHANGED <<uploadVars, sweepVars>>

hasUnanchorableFile(s) == Zero \in ShasOf(s)

\* MaxDeletes is reached.
Capped == MaxDeletes > 0 /\ gcount >= MaxDeletes

\* exhausted(): the cap, or the budget once something was deleted.
Exhausted == Capped \/ (Budget /\ gcount > 0)

\* The pass returns; what it worked on is garbage.
EndPass ==
    /\ gpc' = "idle" /\ ganchor' = "both" /\ gdryrun' = FALSE /\ gcutoff' = 0
    /\ gtodo' = {} /\ gseen' = {} /\ gdead' = {}
    /\ gcur' = None /\ gchecks' = {} /\ ghit' = None
    /\ grefs' = {} /\ gdeadx' = {}
    /\ gbad' = {} /\ gdry' = {} /\ gcount' = 0
    /\ UNCHANGED storeVars

\* The entries that anchor: under the sha256 anchor the files walk only feeds
\* the dangling report, under the files anchor the sha256 index is not walked.
AnchorKeys(anchor) ==
    (IF anchor = "sha256" THEN {} ELSE File) \cup (IF anchor = "files" THEN {} ELSE Digest)

StartSweep(anchor, dryRun) ==
    /\ gpc = "idle"
    /\ gpc' = "walk"
    /\ gtodo' = AnchorKeys(anchor)
    /\ ganchor' = anchor
    /\ gdryrun' = dryRun
    /\ gcutoff' = now - Grace
    /\ UNCHANGED <<storeVars, gseen, gdead, shardVars, xorbVars, resultVars>>

\* WalkFileIndex, then WalkSHA256Index, read one entry after the other while
\* they change.
WalkIndex(k) ==
    /\ gpc = "walk" /\ k \in gtodo
    /\ k \in Digest => gtodo \subseteq Digest
    /\ gtodo' = gtodo \ {k}
    /\ gseen' = gseen \cup ({index[k]} \ {None})
    /\ UNCHANGED <<storeVars, gpc, optionVars, gdead, shardVars, xorbVars, resultVars>>

\* Defect: a shard exactly as old as the cutoff is condemned.
WalkShardsAtCutoff ==
    /\ gpc = "walk" /\ gtodo = {}
    /\ gpc' = "queue"
    /\ gdead' = {s \in shards : s \notin gseen /\ smod[s] <= gcutoff}
    /\ UNCHANGED <<storeVars, optionVars, gtodo, gseen, shardVars, xorbVars, resultVars>>

\* WalkShards judges each stored shard.  One step: shards written while it
\* walks are inside the window, and no one else removes any.
WalkShards ==
    /\ gpc = "walk" /\ gtodo = {}
    /\ gpc' = "queue"
    /\ gdead' = {s \in shards : s \notin gseen /\ smod[s] < gcutoff}
    /\ UNCHANGED <<storeVars, optionVars, gtodo, gseen, shardVars, xorbVars, resultVars>>

\* A dry run only reports the shard.
ReportShard(s) ==
    /\ gpc = "queue" /\ s \in gdead /\ gdryrun
    /\ gdead' = gdead \ {s}
    /\ gdry' = gdry \cup {s}
    /\ UNCHANGED <<storeVars, gpc, optionVars, gtodo, gseen, shardVars, xorbVars,
                   gbad, gcount>>

\* Defect: the chunk entries of a dead shard are forgotten.
StageKeysNoChunks(anchor, s, stage) ==
    CASE stage \in {1, 2} -> {}
      [] stage = 3        -> FilesOf[s]
      [] stage = 4        -> ShasOf(s) \ {Zero}
      [] stage = 5        -> ShasOf(s) \cap {Zero}
      [] OTHER            -> {}

\* Defect: the sha256 anchor drops files entries without its first check.
StageKeysNoPrecheck(anchor, s, stage) ==
    CASE stage = 2 /\ anchor = "sha256" -> ShasOf(s) \ {Zero}
      [] stage = 3                      -> FilesOf[s]
      [] stage = 4                      -> ShasOf(s) \ {Zero}
      [] stage = 5                      -> ShasOf(s) \cap {Zero}
      [] stage = 6                      -> ChunksOf[s]
      [] OTHER                          -> {}

\* The entries of its shard sweepShard looks at in a stage.
StageKeys(anchor, s, stage) ==
    CASE stage = 1 /\ anchor = "sha256" /\ hasUnanchorableFile(s) -> FilesOf[s]
      [] stage = 2 /\ anchor = "sha256"                           -> ShasOf(s) \ {Zero}
      [] stage = 3                                                -> FilesOf[s]
      [] stage = 4                                                -> ShasOf(s) \ {Zero}
      [] stage = 5                                                -> ShasOf(s) \cap {Zero}
      [] stage = 6                                                -> ChunksOf[s]
      [] OTHER                                                    -> {}

Checks(anchor, s) == {c \in ShardStage \X Key : c[2] \in StageKeys(anchor, s, c[1])}

\* A guard spares the shard if the entry points at it; the other stages
\* delete such an entry.
IsGuard(stage) ==
    \/ stage \in {1, 2}
    \/ stage = 3 /\ ganchor # "sha256"
    \/ stage = 4 /\ ganchor # "files"

\* Defect: a shard that does not load is charged like a deleted one.
LoadDeadShardCharged(s) ==
    /\ gpc = "queue" /\ s \in gdead /\ ~gdryrun /\ ~Capped
    /\ gdead' = gdead \ {s}
    /\ \/ /\ gpc' = "sweepShard"
          /\ gcur' = s
          /\ gchecks' = Checks(ganchor, s)
          /\ UNCHANGED <<gbad, gcount>>
       \/ /\ s \in Faulty
          /\ gbad' = gbad \cup {s}
          /\ gcount' = gcount + 1
          /\ UNCHANGED <<gpc, gcur, gchecks>>
    /\ UNCHANGED <<storeVars, optionVars, gtodo, gseen, ghit, xorbVars, gdry>>

\* sweepShard loads the shard first; it may turn out unreadable.
LoadDeadShard(s) ==
    /\ gpc = "queue" /\ s \in gdead /\ ~gdryrun /\ ~Capped
    /\ gdead' = gdead \ {s}
    /\ \/ /\ gpc' = "sweepShard"
          /\ gcur' = s
          /\ gchecks' = Checks(ganchor, s)
          /\ UNCHANGED gbad
       \/ /\ s \in Faulty
          /\ gbad' = gbad \cup {s}
          /\ UNCHANGED <<gpc, gcur, gchecks>>
    /\ UNCHANGED <<storeVars, optionVars, gtodo, gseen, ghit, xorbVars, gdry, gcount>>

IsNextCheck(c) == c \in gchecks /\ \A d \in gchecks : c[1] <= d[1]

\* fileEntryPointsAt, sha256EntryPointsAt, and the read half of the deletes.
ReadEntry(c) ==
    /\ gpc = "sweepShard" /\ ghit = None /\ IsNextCheck(c)
    /\ \/ /\ index[c[2]] # gcur
          /\ gchecks' = gchecks \ {c}
          /\ UNCHANGED <<gpc, gcur, ghit>>
       \/ /\ index[c[2]] = gcur /\ IsGuard(c[1])
          /\ gpc' = "queue" /\ gcur' = None /\ gchecks' = {}
          /\ UNCHANGED ghit
       \/ /\ index[c[2]] = gcur /\ ~IsGuard(c[1])
          /\ ghit' = c[2]
          /\ gchecks' = gchecks \ {c}
          /\ UNCHANGED <<gpc, gcur>>
    /\ UNCHANGED <<storeVars, optionVars, gtodo, gseen, gdead, xorbVars, resultVars>>

\* The delete half does not look at the entry again.
DropEntry(k) ==
    /\ ghit = k /\ k \in Key
    /\ DeleteEntry(k)
    /\ ghit' = None
    /\ UNCHANGED <<gpc, optionVars, gtodo, gseen, gdead, gcur, gchecks, xorbVars,
                   resultVars>>

DeleteShard ==
    /\ gpc = "sweepShard" /\ gchecks = {} /\ ghit = None
    /\ RemoveShard(gcur)
    /\ gpc' = "queue" /\ gcur' = None
    /\ gcount' = gcount + 1
    /\ UNCHANGED <<optionVars, gtodo, gseen, gdead, gchecks, ghit, xorbVars, gbad, gdry>>

\* The bounds end the pass, with dead shards left or just as they run out.
StopAtBound ==
    /\ \/ gpc = "queue"
       \/ gpc = "xorbs" /\ gdeadx # {}
    /\ Exhausted
    /\ EndPass

\* Phase 2 walks the stored shards again.
StartMark ==
    /\ gpc = "queue" /\ gdead = {} /\ ~Capped
    /\ gpc' = "mark"
    /\ gtodo' = Shard
    /\ UNCHANGED <<storeVars, optionVars, gseen, gdead, shardVars, xorbVars, resultVars>>

\* Defect: only the shards phase 1 saw an entry for protect their xorbs.
MarkShardSeenOnly(s) ==
    /\ gpc = "mark" /\ s \in gtodo
    /\ gtodo' = gtodo \ {s}
    /\ grefs' = grefs \cup (IF s \in shards \cap gseen THEN Refs[s] ELSE {})
    /\ UNCHANGED <<storeVars, gpc, optionVars, gseen, gdead, shardVars, gdeadx, resultVars>>

\* Defect: a dry run counts the shards it reported as stored.
MarkShardReported(s) ==
    /\ gpc = "mark" /\ s \in gtodo
    /\ gtodo' = gtodo \ {s}
    /\ grefs' = grefs \cup (IF s \in shards THEN Refs[s] ELSE {})
    /\ UNCHANGED <<storeVars, gpc, optionVars, gseen, gdead, shardVars, gdeadx, resultVars>>

\* markShardXorbs for one shard the walk finds: a shard a dry run reported
\* or one that did not load is passed over, a missing one too.
MarkShard(s) ==
    /\ gpc = "mark" /\ s \in gtodo
    /\ gtodo' = gtodo \ {s}
    /\ \/ /\ s \notin shards \/ s \in gdry \cup gbad
          /\ UNCHANGED <<gbad, grefs>>
       \/ /\ s \in shards \ (gdry \cup gbad)
          /\ grefs' = grefs \cup Refs[s]
          /\ UNCHANGED gbad
       \/ /\ s \in (shards \cap Faulty) \ (gdry \cup gbad)
          /\ gbad' = gbad \cup {s}
          /\ UNCHANGED grefs
    /\ UNCHANGED <<storeVars, gpc, optionVars, gseen, gdead, shardVars, gdeadx, gdry, gcount>>

\* An unreadable shard may reference anything: the pass ends, Done.
StopUnreadable ==
    /\ gpc = "mark" /\ gtodo = {} /\ gbad # {}
    /\ EndPass

\* WalkXorbs, one step for the reason given at WalkShards.
WalkXorbs ==
    /\ gpc = "mark" /\ gtodo = {} /\ gbad = {}
    /\ gpc' = "xorbs"
    /\ gdeadx' = {x \in xorbs : x \notin grefs /\ xmod[x] < gcutoff}
    /\ UNCHANGED <<storeVars, optionVars, gtodo, gseen, gdead, shardVars, grefs, resultVars>>

SweepXorb(x) ==
    /\ gpc = "xorbs" /\ x \in gdeadx /\ ~Capped
    /\ gdeadx' = gdeadx \ {x}
    /\ \/ /\ gdryrun
          /\ gdry' = gdry \cup {x}
          /\ UNCHANGED <<storeVars, gcount>>
       \/ /\ ~gdryrun
          /\ RemoveXorb(x)
          /\ gcount' = gcount + 1
          /\ UNCHANGED gdry
    /\ UNCHANGED <<gpc, optionVars, gtodo, gseen, gdead, shardVars, grefs, gbad>>

\* Done.
FinishSweep ==
    /\ gpc = "xorbs" /\ gdeadx = {}
    /\ EndPass

\* A storage error or a cancelled context ends the pass where it stands.
SweepFails ==
    /\ MayFail /\ gpc # "idle"
    /\ EndPass

\* What a pass does by itself once it has started.
PassStep ==
    \/ \E k \in Key : WalkIndex(k) \/ DropEntry(k)
    \/ WalkShards \/ DeleteShard \/ StartMark
    \/ \E s \in Shard : ReportShard(s) \/ LoadDeadShard(s) \/ MarkShard(s)
    \/ \E c \in ShardStage \X Key : ReadEntry(c)
    \/ StopAtBound \/ StopUnreadable \/ WalkXorbs \/ FinishSweep
    \/ \E x \in Xorb : SweepXorb(x)

SweepStep ==
    \/ \E anchor \in Anchors : \E dryRun \in DryRuns : StartSweep(anchor, dryRun)
    \/ PassStep
    \/ SweepFails
=============================================================================
