------------------------------ MODULE Reclaim ------------------------------
(***************************************************************************)
(* The sweep alone on a store at rest: whatever uploads, crashes and       *)
(* unlinks left behind, sweeps are repeated under one anchor, as the       *)
(* comment on SweepStep asks, and no upload runs.                          *)
(***************************************************************************)
EXTENDS StoreGC

VARIABLES
    anchor,    \* the anchor every sweep is asked for
    reported   \* what the last complete dry run listed, None before one

reclaimVars == <<vars, anchor, reported>>

\* Any store without dangling entries or missing xorbs.
AtRest ==
    /\ now = MaxTime
    /\ shards \in SUBSET Shard
    /\ xorbs \in {X \in SUBSET Xorb : \A s \in shards : Refs[s] \subseteq X}
    /\ smod \in [Shard -> {0, MaxTime}]
    /\ xmod \in [Xorb -> {0, MaxTime}]
    /\ \A s \in Shard \ shards : smod[s] = 0
    /\ \A x \in Xorb \ xorbs : xmod[x] = 0
    /\ index \in [Key -> shards \cup {None}]
    /\ \A k \in Key : index[k] # None => k \in KeysOf(index[k])

ReclaimInit ==
    /\ AtRest /\ UploadInit /\ SweepInit
    /\ raced = {} /\ bypassed = {} /\ atRisk = [s \in Shard |-> {}]
    /\ anchor \in Anchors
    /\ reported = None

\* SweepStep, asked for again once it has returned.
Repeat(dryRun) ==
    /\ StartSweep(anchor, dryRun)
    /\ UNCHANGED <<uploadVars, history, anchor, reported>>

Pass ==
    /\ PassStep /\ Record
    /\ reported' = IF FinishSweep /\ gdryrun THEN gdry ELSE reported
    /\ UNCHANGED <<uploadVars, anchor>>

ReclaimNext == Pass \/ \E dryRun \in DryRuns : Repeat(dryRun)

\* A pass that has started runs on, and the caller, whatever dry runs it asks
\* for between them, asks for a sweep again.
ReclaimSpec ==
    /\ ReclaimInit /\ [][ReclaimNext]_reclaimVars
    /\ WF_reclaimVars(Pass) /\ SF_reclaimVars(Repeat(FALSE))

\* What keeps a shard, by the comment on Sweep.
Live(s) ==
    \/ anchor # "sha256" /\ \E f \in File : index[f] = s
    \/ anchor # "files" /\ \E d \in Digest : index[d] = s
    \/ anchor = "sha256" /\ hasUnanchorableFile(s) /\ \E f \in File : index[f] = s

Fresh(t) == t >= now - Grace

\* Repeated sweeps, however small their bounds, leave nothing dead: items that
\* cannot be swept never stall the others.  Xorbs wait for the shards that do
\* not load.
Reclaimed ==
    <>[](/\ \A s \in shards \ Faulty : Live(s) \/ Fresh(smod[s])
         /\ shards \cap Faulty = {}
              => \A x \in xorbs : Fresh(xmod[x]) \/ \E s \in shards : x \in Refs[s])

\* A sweep deletes only what is dead at that moment, and whatever it deletes a
\* complete dry run had listed: the listing is an upper bound.
DeletesOnlyDead ==
    [][/\ \A s \in shards \ shards' : ~Live(s) /\ ~Fresh(smod[s])
       /\ \A x \in xorbs \ xorbs' : ~Fresh(xmod[x]) /\ \A s \in shards : x \notin Refs[s]
       /\ reported # None => (shards \ shards') \cup (xorbs \ xorbs') \subseteq reported]_reclaimVars
=============================================================================
