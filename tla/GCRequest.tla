----------------------------- MODULE GCRequest -----------------------------
(***************************************************************************)
(* POST /internal/gc: one request runs the storage pass and, once that has *)
(* ended, the spool's and the mirror's, spending one wall-clock budget.    *)
(* Requests overlap: the storage pass is exclusive, the later ones are     *)
(* not.  Nothing new dies meanwhile, so the model is of a store whose      *)
(* garbage a caller drains by repeating requests.                          *)
(***************************************************************************)
EXTENDS Integers, FiniteSets

CONSTANTS
    Request,     \* the requests, each sent again while it is turned away
    Garbage,     \* pass -> the items that are dead for it
    Owner,       \* xorb -> the dead shard that refers to it
    Configured,  \* the later passes of this server
    Bounds       \* the parameters max (0 for none), budget and dry_run of a request

Storage == {"shards", "xorbs"}
Passes == Storage \cup {"spools", "mirror"}

ASSUME GCRequestAssumption ==
    /\ Garbage = [p \in Passes |-> Garbage[p]]
    /\ Owner \in [Garbage["xorbs"] -> Garbage["shards"]]
    /\ Configured \subseteq {"spools", "mirror"}
    /\ Bounds \subseteq [max : Nat, budget : BOOLEAN, dry : BOOLEAN]

VARIABLES
    dead,     \* pass -> the items that are still there
    holder,   \* the requests in the storage pass: GC.mu
    at,       \* request -> the pass it runs or is about to, "idle"
    opened,   \* request -> the pass has marked its candidates
    queue,    \* request -> the candidates left to the pass
    count,    \* request -> the items this pass has swept
    swept,    \* request -> handDown's swept is positive
    moved,    \* request -> it has swept something, the mirror's items included
    done, failed,
    bounds,   \* request -> [max, budget, dry]
    spent,    \* request -> its deadline has passed
    answer,   \* request -> its last response
    left      \* request -> the items it met and left where they are, while it
              \* may still answer done

requestVars == <<at, opened, queue, count, swept, moved, done, failed, bounds, spent, answer, left>>
gcVars == <<dead, holder, requestVars>>

NoBounds == [max |-> 0, budget |-> FALSE, dry |-> FALSE]

GCInit ==
    /\ dead = Garbage /\ holder = {}
    /\ at = [r \in Request |-> "idle"] /\ opened = [r \in Request |-> FALSE]
    /\ queue = [r \in Request |-> {}] /\ count = [r \in Request |-> 0]
    /\ swept = [r \in Request |-> FALSE] /\ moved = [r \in Request |-> FALSE]
    /\ done = [r \in Request |-> TRUE] /\ failed = [r \in Request |-> FALSE]
    /\ bounds = [r \in Request |-> NoBounds] /\ spent = [r \in Request |-> FALSE]
    /\ answer = [r \in Request |-> "none"]
    /\ left = [r \in Request |-> {}]

\* handleGC up to SweepStep, whose TryLock fails while another storage pass runs.
ReceiveGC(r) ==
    /\ at[r] = "idle" /\ answer[r] \in {"none", "busy"}
    /\ IF holder = {}
         THEN /\ \E b \in Bounds : bounds' = [bounds EXCEPT ![r] = b]
              /\ holder' = {r}
              /\ at' = [at EXCEPT ![r] = "shards"]
              /\ answer' = [answer EXCEPT ![r] = "none"]
         ELSE /\ answer' = [answer EXCEPT ![r] = "busy"]
              /\ UNCHANGED <<holder, at, bounds>>
    /\ UNCHANGED <<dead, opened, queue, count, swept, moved, done, failed, spent, left>>

\* The request has a deadline and it passes.
Deadline(r) == bounds[r].budget /\ ~bounds[r].dry

Expire(r) ==
    /\ at[r] # "idle" /\ Deadline(r) /\ ~spent[r]
    /\ spent' = [spent EXCEPT ![r] = TRUE]
    /\ UNCHANGED <<dead, holder, at, opened, queue, count, swept, moved, done, failed, bounds, answer, left>>

-----------------------------------------------------------------------------
\* What is dead for a pass: a xorb no stored shard refers to.
Marked(p) ==
    IF p = "xorbs" THEN {x \in dead["xorbs"] : Owner[x] \notin dead["shards"]} ELSE dead[p]

\* Defect: a request whose budget is gone hands nothing down.
MayRunStrictly(r, p) ==
    \/ p \in Storage
    \/ ~Deadline(r) \/ ~spent[r]

\* handDown: no deadline, some of it left, or nothing swept yet.
MayRun(r, p) ==
    \/ p \in Storage
    \/ ~Deadline(r) \/ ~spent[r] \/ ~swept[r]

\* The passes that follow p, and the response after the last.
NextPass(p) == CASE p = "shards" -> "xorbs" [] p = "xorbs" -> "spools" [] p = "spools" -> "mirror"
              [] p = "mirror" -> "idle"

Verdict(r, d, f) == CASE f -> "failed" [] ~f /\ ~d -> "more" [] ~f /\ d -> IF bounds[r].dry THEN "reported" ELSE "done"

\* r goes on to pass p with its done d, failed f and swept s, having left
\* spared; GC.mu is held through the storage passes only.  The response ends
\* what is the request's own.
Go(r, p, d, f, s, spared) ==
    /\ at' = [at EXCEPT ![r] = p] /\ opened' = [opened EXCEPT ![r] = FALSE]
    /\ queue' = [queue EXCEPT ![r] = {}]
    /\ count' = [count EXCEPT ![r] = IF p \in Storage THEN count[r] ELSE 0]
    /\ done' = [done EXCEPT ![r] = d \/ p = "idle"] /\ failed' = [failed EXCEPT ![r] = f /\ p # "idle"]
    /\ swept' = [swept EXCEPT ![r] = s /\ p # "idle"]
    /\ moved' = [moved EXCEPT ![r] = @ /\ (p # "idle" \/ ~d)]
    /\ spent' = [spent EXCEPT ![r] = @ /\ p # "idle"]
    /\ bounds' = IF p = "idle" THEN [bounds EXCEPT ![r] = NoBounds] ELSE bounds
    /\ holder' = IF p \in Storage THEN holder ELSE holder \ {r}
    /\ answer' = IF p = "idle" THEN [answer EXCEPT ![r] = Verdict(r, d, f)] ELSE answer
    /\ left' = [left EXCEPT ![r] = IF d THEN spared ELSE {}]
    /\ UNCHANGED dead

\* r marks the candidates of the pass it is at, from scratch.
Mark(r) ==
    /\ opened' = [opened EXCEPT ![r] = TRUE]
    /\ queue' = [queue EXCEPT ![r] = Marked(at[r])]
    /\ UNCHANGED <<dead, holder, at, count, swept, moved, done, failed, bounds, spent, answer, left>>

\* Defect: a pass that gets no budget is not held against done.
OpenPassSkipped(r) ==
    /\ at[r] # "idle" /\ ~opened[r]
    /\ IF at[r] \in Storage \cup Configured /\ MayRun(r, at[r]) THEN Mark(r)
       ELSE Go(r, NextPass(at[r]), done[r], failed[r], swept[r], left[r])

\* A later pass that is not configured, or gets no budget, is skipped.
OpenPass(r) ==
    /\ at[r] # "idle" /\ ~opened[r]
    /\ CASE at[r] \notin Storage \cup Configured -> Go(r, NextPass(at[r]), done[r], failed[r], swept[r], left[r])
         [] at[r] \in Storage \cup Configured /\ ~MayRun(r, at[r]) ->
              Go(r, NextPass(at[r]), FALSE, failed[r], swept[r], left[r])
         [] OTHER -> Mark(r)

\* exhausted of the three passes: max is the storage pass's only, and the
\* clock counts once something was swept.
OverMax(r) == at[r] \in Storage /\ bounds[r].max > 0 /\ ~bounds[r].dry /\ count[r] >= bounds[r].max
OverTime(r) == Deadline(r) /\ spent[r] /\ count[r] > 0

\* A candidate is swept and counted, unless this is a dry run or another
\* request swept it first.
Reclaim(r, i) ==
    IF ~bounds[r].dry /\ i \in dead[at[r]]
      THEN /\ dead' = [dead EXCEPT ![at[r]] = @ \ {i}]
           /\ count' = [count EXCEPT ![r] = @ + 1]
           /\ moved' = [moved EXCEPT ![r] = TRUE]
           /\ UNCHANGED left
      ELSE UNCHANGED <<dead, count, moved, left>>

\* A candidate stays where it is, uncounted, and the pass goes on.
Spare(r, i) ==
    /\ ~bounds[r].dry /\ i \in dead[at[r]]
    /\ left' = [left EXCEPT ![r] = IF done[r] THEN @ \cup {i} ELSE @]
    /\ UNCHANGED <<dead, count, moved>>

\* sweepShard spares a shard an entry anchors again, or that does not load.
SweepShard(r, i) ==
    /\ at[r] = "shards"
    /\ Reclaim(r, i) \/ Spare(r, i)

SweepXorb(r, i) == at[r] = "xorbs" /\ Reclaim(r, i)

\* A spool that does not unlink is left for the next pass.
SweepSpool(r, i) ==
    /\ at[r] = "spools"
    /\ Reclaim(r, i) \/ Spare(r, i)

\* So is a manifest that a writer opened or rewrote meanwhile.
SweepManifest(r, i) ==
    /\ at[r] = "mirror"
    /\ Reclaim(r, i) \/ Spare(r, i)

SweepItem(r) ==
    /\ opened[r] /\ ~OverMax(r)
    /\ \E i \in queue[r] :
        /\ queue' = [queue EXCEPT ![r] = @ \ {i}]
        /\ SweepShard(r, i) \/ SweepXorb(r, i) \/ SweepSpool(r, i) \/ SweepManifest(r, i)
    /\ UNCHANGED <<holder, at, opened, swept, done, failed, bounds, spent, answer>>

\* swept after a pass that did not fail; the storage pass counts its xorbs with
\* its shards, and nothing follows the mirror's.
Counts(r) == swept[r] \/ (at[r] # "mirror" /\ count[r] > 0)

\* A pass out of bounds leaves the rest to the next request; the shards' also
\* when its queue has just drained.  The later passes do not run after a
\* storage pass that is not done.
Exhaust(r) ==
    /\ opened[r] /\ (OverMax(r) \/ OverTime(r)) /\ (queue[r] # {} \/ at[r] = "shards")
    /\ Go(r, IF at[r] \in Storage THEN "idle" ELSE NextPass(at[r]), FALSE, failed[r], Counts(r), left[r])

\* A pass at its end is done.  The storage pass ends with the shards, leaving
\* all xorbs, when a stored one did not load in the sweep or in the walk after it.
EndPass(r) ==
    /\ opened[r] /\ queue[r] = {} /\ ~(at[r] = "shards" /\ OverMax(r))
    /\ \/ at[r] = "shards" /\ Go(r, "xorbs", done[r], failed[r], swept[r], left[r])
       \/ at[r] = "shards" /\ Go(r, "spools", done[r], failed[r], Counts(r), left[r] \cup dead["xorbs"])
       \/ at[r] # "shards" /\ Go(r, NextPass(at[r]), done[r], failed[r], Counts(r), left[r])

\* A pass that fails reports nothing swept, and does not stop those after it.
FailPass(r) ==
    /\ opened[r]
    /\ Go(r, IF at[r] \in Storage THEN "spools" ELSE NextPass(at[r]), FALSE, TRUE, swept[r], left[r])

Handle(r) ==
    ReceiveGC(r) \/ Expire(r) \/ OpenPass(r) \/ SweepItem(r) \/ Exhaust(r) \/ EndPass(r) \/ FailPass(r)

GCNext == \E r \in Request : Handle(r)

-----------------------------------------------------------------------------
\* "progress never stalls": a response that asks to be repeated, with no error
\* in it, has swept something, however its budget ran out between and inside
\* the passes and whatever other requests swept first.  As what is dead is
\* finite, repeating requests reaches done.
NeverStalls == \A r \in Request : answer[r] = "more" => moved[r]

\* "repeat until the top-level done is true": a request that answers so has
\* itself met, in that one response, every item that is still dead, and left
\* only what resisted it then: shards anchored again or unreadable, spools that
\* did not unlink, manifests in use.  Xorbs stay only behind a shard it left, or
\* all of them when a shard did not load.  Nothing is passed over for want of
\* budget, or because another request was at it.
DoneSwept ==
    \A r \in Request : answer[r] = "done" =>
        /\ dead["shards"] \subseteq left[r]
        /\ \A x \in dead["xorbs"] : x \in left[r] \/ Owner[x] \in left[r]
        /\ \A p \in Configured : dead[p] \subseteq left[r]
=============================================================================
