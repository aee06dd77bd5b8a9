----------------------------- MODULE ApiProofs ------------------------------
(***************************************************************************)
(* Proofs about the HTTP interface, for any bodies, any garbage and any    *)
(* number of attempts, heartbeats and requests: the garbage collection     *)
(* request (a response that asks for another request has made progress, one *)
(* that says done tells the truth) and the client's two uploads (a xorb sent *)
(* through retries over one shared reader, a shard sent over a stream of   *)
(* frames).                                                                *)
(***************************************************************************)
EXTENDS Retry, ShardStream, GCRequest, TLAPS

-----------------------------------------------------------------------------
(* The garbage collection request.                                         *)

\* What a pass may remove, and how a request may be bounded.
Item == UNION {Garbage[p] : p \in Passes}
Bound == [max : Nat, budget : BOOLEAN, dry : BOOLEAN]
Response == {"none", "busy", "failed", "more", "reported", "done"}

\* The types of the state.
GCTypeOK ==
    /\ dead \in [Passes -> SUBSET Item] /\ \A p \in Passes : dead[p] \subseteq Garbage[p]
    /\ holder \subseteq Request
    /\ at \in [Request -> Passes \cup {"idle"}]
    /\ opened \in [Request -> BOOLEAN]
    /\ queue \in [Request -> SUBSET Item]
    /\ count \in [Request -> Nat]
    /\ swept \in [Request -> BOOLEAN]
    /\ moved \in [Request -> BOOLEAN]
    /\ done \in [Request -> BOOLEAN]
    /\ failed \in [Request -> BOOLEAN]
    /\ bounds \in [Request -> Bound]
    /\ spent \in [Request -> BOOLEAN]
    /\ answer \in [Request -> Response]
    /\ left \in [Request -> SUBSET Item]

\* A request at rest has marked, counted and failed nothing; one that is not has
\* no answer yet.
Rest(r) ==
    /\ at[r] = "idle" => ~opened[r] /\ count[r] = 0 /\ done[r] /\ ~failed[r]
    /\ at[r] # "idle" => answer[r] # "done"

\* Only what was swept counts, or takes done away without a failure.
Progressing(r) ==
    /\ count[r] > 0 => moved[r]
    /\ swept[r] => moved[r]
    /\ ~done[r] /\ ~failed[r] => moved[r]
    /\ answer[r] = "more" => moved[r]

\* What of the dead items D is not accounted for in pass p by what a request has
\* spared: a xorb is, also by the shard that refers to it.
Todo(D, p, spared) ==
    IF p = "xorbs" THEN {x \in D["xorbs"] : x \notin spared /\ Owner[x] \notin spared}
    ELSE D[p] \ spared

\* What a request must have behind it when it goes on to pass p.
Behind(D, p, spared) ==
    /\ p # "shards" => Todo(D, "shards", spared) = {}
    /\ p \notin Storage => Todo(D, "xorbs", spared) = {}
    /\ p = "mirror" /\ "spools" \in Configured => Todo(D, "spools", spared) = {}

\* What a request that answers done must have behind it.
Clean(D, spared) ==
    /\ Todo(D, "shards", spared) = {} /\ Todo(D, "xorbs", spared) = {}
    /\ \A p \in Configured : Todo(D, p, spared) = {}

\* As long as a request is done so far, the passes behind it have met all that
\* was dead, and the candidates of the one it is in hold the rest.
Swept(r) ==
    at[r] # "idle" /\ done[r] /\ ~bounds[r].dry =>
        /\ opened[r] => Todo(dead, at[r], left[r]) \subseteq queue[r]
        /\ Behind(dead, at[r], left[r])

\* A request that answered done has accounted for all that is dead.
Reported == \A r \in Request : answer[r] = "done" => Clean(dead, left[r])

\* The inductive invariant of the collection requests.
GCInv ==
    /\ GCTypeOK
    /\ \A r \in Request : Rest(r) /\ Progressing(r) /\ Swept(r)
    /\ Reported

-----------------------------------------------------------------------------
\* What a sweep may do to the dead items: take some.
Shrinks ==
    /\ dead' \in [Passes -> SUBSET Item]
    /\ \A p \in Passes : dead'[p] \subseteq dead[p]

\* A request that takes no step.
Keeps(q) ==
    /\ at'[q] = at[q] /\ opened'[q] = opened[q] /\ queue'[q] = queue[q] /\ count'[q] = count[q]
    /\ swept'[q] = swept[q] /\ moved'[q] = moved[q] /\ done'[q] = done[q] /\ failed'[q] = failed[q]
    /\ bounds'[q] = bounds[q] /\ spent'[q] = spent[q] /\ answer'[q] = answer[q] /\ left'[q] = left[q]

\* Deletions leave less to do, also for a request that leaves more items.
LEMMA TodoShrinks ==
    ASSUME NEW D, NEW E, \A p \in Passes : E[p] \subseteq D[p],
           NEW S, NEW T, S \subseteq T, NEW p \in Passes
    PROVE  Todo(E, p, T) \subseteq Todo(D, p, S)
<1>1. E[p] \subseteq D[p] /\ E["xorbs"] \subseteq D["xorbs"]
  BY DEF Passes, Storage
<1> QED BY <1>1, Zenon DEF Todo

\* So they undo nothing that a pass has achieved.
LEMMA ShrinkKeeps ==
    ASSUME NEW D, NEW E, \A p \in Passes : E[p] \subseteq D[p], NEW S
    PROVE  /\ \A p \in Passes \cup {"idle"} : Behind(D, p, S) => Behind(E, p, S)
           /\ Clean(D, S) => Clean(E, S)
<1>1. ASSUME NEW p \in Passes, Todo(D, p, S) = {}
      PROVE  Todo(E, p, S) = {}
  BY <1>1, TodoShrinks
<1>2. /\ Todo(D, "shards", S) = {} => Todo(E, "shards", S) = {}
      /\ Todo(D, "xorbs", S) = {} => Todo(E, "xorbs", S) = {}
      /\ Todo(D, "spools", S) = {} => Todo(E, "spools", S) = {}
  BY <1>1 DEF Passes, Storage
<1>3. \A p \in Configured : Todo(D, p, S) = {} => Todo(E, p, S) = {}
  BY <1>1, GCRequestAssumption DEF Passes
<1> QED BY <1>2, <1>3, Zenon DEF Behind, Clean

\* A request that takes no step keeps its part, whatever another one deletes.
LEMMA OthersKept ==
    ASSUME GCInv, Shrinks, NEW q \in Request, Keeps(q)
    PROVE  Rest(q)' /\ Progressing(q)' /\ Swept(q)'
<1>1. Rest(q)' /\ Progressing(q)'
  BY DEF GCInv, Keeps, Rest, Progressing
<1>2. SUFFICES ASSUME at[q] # "idle", done[q], ~bounds[q].dry
               PROVE  /\ opened[q] => Todo(dead', at[q], left[q]) \subseteq queue[q]
                      /\ Behind(dead', at[q], left[q])
  BY <1>1 DEF Keeps, Swept
<1>3. /\ opened[q] => Todo(dead, at[q], left[q]) \subseteq queue[q]
      /\ Behind(dead, at[q], left[q]) /\ at[q] \in Passes
  BY <1>2 DEF GCInv, GCTypeOK, Swept
<1>4. \A p \in Passes : dead'[p] \subseteq dead[p]
  BY DEF Shrinks
<1>5. Todo(dead', at[q], left[q]) \subseteq Todo(dead, at[q], left[q])
  BY <1>3, <1>4, TodoShrinks
<1>6. Behind(dead', at[q], left[q])
  BY <1>3, <1>4, ShrinkKeeps
<1> QED BY <1>3, <1>5, <1>6

\* A step that only shrinks what is dead keeps what was reported.
LEMMA DoneKept ==
    ASSUME Reported, Shrinks,
           \A q \in Request : answer'[q] = "done" =>
               Clean(dead, left'[q]) \/ (answer[q] = "done" /\ left'[q] = left[q])
    PROVE  Reported'
<1> SUFFICES ASSUME NEW q \in Request, answer'[q] = "done"
             PROVE  Clean(dead', left'[q])
  BY DEF Reported
<1>1. Clean(dead, left'[q])
  BY DEF Reported
<1> QED BY <1>1, ShrinkKeeps DEF Shrinks

\* The initial state.
LEMMA GCInitInv == GCInit => GCInv
<1> SUFFICES ASSUME GCInit
             PROVE  GCInv
  OBVIOUS
<1>1. dead \in [Passes -> SUBSET Item] /\ \A p \in Passes : dead[p] \subseteq Garbage[p]
  BY GCRequestAssumption DEF GCInit, Item
<1>2. GCTypeOK
  BY <1>1 DEF GCInit, GCTypeOK, Bound, NoBounds, Response
<1>3. \A r \in Request : Rest(r) /\ Progressing(r) /\ Swept(r)
  BY DEF GCInit, Rest, Progressing, Swept
<1>4. Reported
  BY DEF GCInit, Reported
<1> QED BY <1>2, <1>3, <1>4 DEF GCInv

-----------------------------------------------------------------------------
\* What going on to pass p does to the request and leaves to the others.
LEMMA GoEffect ==
    ASSUME GCTypeOK, NEW r \in Request, NEW p \in Passes \cup {"idle"},
           NEW d \in BOOLEAN, NEW f \in BOOLEAN, NEW s \in BOOLEAN, NEW spared \in SUBSET Item,
           Go(r, p, d, f, s, spared)
    PROVE  /\ GCTypeOK' /\ Shrinks
           /\ \A q \in Request \ {r} : Keeps(q)
           /\ at'[r] = p /\ ~opened'[r]
           /\ count'[r] = IF p \in Storage THEN count[r] ELSE 0
           /\ done'[r] = (d \/ p = "idle") /\ failed'[r] = (f /\ p # "idle")
           /\ swept'[r] = (s /\ p # "idle") /\ moved'[r] = (moved[r] /\ (p # "idle" \/ ~d))
           /\ p # "idle" => bounds'[r] = bounds[r] /\ answer'[r] = answer[r]
           /\ p = "idle" => answer'[r] = Verdict(r, d, f)
           /\ d => left'[r] = spared
<1> USE DEF GCTypeOK
<1>1. /\ at' \in [Request -> Passes \cup {"idle"}] /\ opened' \in [Request -> BOOLEAN]
      /\ queue' \in [Request -> SUBSET Item] /\ done' \in [Request -> BOOLEAN]
      /\ failed' \in [Request -> BOOLEAN] /\ spent' \in [Request -> BOOLEAN]
      /\ moved' \in [Request -> BOOLEAN] /\ swept' \in [Request -> BOOLEAN]
      /\ count' \in [Request -> Nat] /\ holder' \subseteq Request
  BY Zenon DEF Go
<1>2. bounds' \in [Request -> Bound] /\ left' \in [Request -> SUBSET Item]
  BY DEF Go, NoBounds, Bound
<1>3. Verdict(r, d, f) \in Response
  BY DEF Verdict, Response
<1>4. answer' \in [Request -> Response]
  BY <1>3 DEF Go
<1>5. dead' = dead
  BY DEF Go
<1>6. \A q \in Request \ {r} : Keeps(q)
  BY DEF Go, Keeps
<1>7. /\ at'[r] = p /\ ~opened'[r]
      /\ count'[r] = IF p \in Storage THEN count[r] ELSE 0
      /\ done'[r] = (d \/ p = "idle") /\ failed'[r] = (f /\ p # "idle")
      /\ swept'[r] = (s /\ p # "idle") /\ moved'[r] = (moved[r] /\ (p # "idle" \/ ~d))
      /\ p # "idle" => bounds'[r] = bounds[r] /\ answer'[r] = answer[r]
      /\ p = "idle" => answer'[r] = Verdict(r, d, f)
      /\ d => left'[r] = spared
  BY DEF Go
<1> QED BY <1>1, <1>2, <1>4, <1>5, <1>6, <1>7 DEF Shrinks

\* Going on keeps the invariant if done is still true only with all earlier
\* passes complete, and false only after progress or a failure.
LEMMA GoKeeps ==
    ASSUME GCInv, NEW r \in Request, at[r] # "idle", NEW p \in Passes \cup {"idle"},
           NEW d \in BOOLEAN, NEW f \in BOOLEAN, NEW s \in BOOLEAN, NEW spared \in SUBSET Item,
           Go(r, p, d, f, s, spared),
           s => moved[r],
           ~d /\ ~f => moved[r],
           d /\ ~bounds[r].dry => Behind(dead, p, spared) /\ (p = "idle" => Clean(dead, spared))
    PROVE  GCInv'
<1> DEFINE Effect ==
             /\ GCTypeOK' /\ Shrinks
             /\ \A q \in Request \ {r} : Keeps(q)
             /\ at'[r] = p /\ ~opened'[r]
             /\ count'[r] = IF p \in Storage THEN count[r] ELSE 0
             /\ done'[r] = (d \/ p = "idle") /\ failed'[r] = (f /\ p # "idle")
             /\ swept'[r] = (s /\ p # "idle") /\ moved'[r] = (moved[r] /\ (p # "idle" \/ ~d))
             /\ p # "idle" => bounds'[r] = bounds[r] /\ answer'[r] = answer[r]
             /\ p = "idle" => answer'[r] = Verdict(r, d, f)
             /\ d => left'[r] = spared
<1>1. Effect
  BY GoEffect DEF GCInv
<1>2. \A q \in Request \ {r} : Rest(q)' /\ Progressing(q)' /\ Swept(q)'
  BY <1>1, OthersKept
<1>3. Rest(r)'
  <2>1. answer[r] # "done"
    BY DEF GCInv, Rest
  <2> QED BY <1>1, <2>1, Zenon DEF Rest, Storage
<1>4. Progressing(r)'
  <2>1. /\ count[r] > 0 => moved[r]
        /\ answer[r] = "more" => moved[r]
        /\ count[r] \in Nat
    BY DEF GCInv, Progressing, GCTypeOK
  <2>2. answer'[r] = "more" => moved'[r]
    BY <1>1, <2>1, Zenon DEF Verdict
  <2>3. count'[r] > 0 => moved'[r]
    <3>1. CASE p \in Storage
      <4>1. p # "idle"
        BY <3>1 DEF Storage
      <4> QED BY <1>1, <2>1, <3>1, <4>1, Zenon
    <3>2. CASE p \notin Storage
      <4>1. count'[r] = 0
        BY <1>1, <3>2, Zenon
      <4> QED BY <4>1
    <3> QED BY <3>1, <3>2
  <2>4. (~done'[r] /\ ~failed'[r] => moved'[r]) /\ (swept'[r] => moved'[r])
    BY <1>1, Zenon
  <2> QED BY <2>2, <2>3, <2>4 DEF Progressing
<1>5. Swept(r)'
  <2>1. SUFFICES ASSUME p # "idle", d, ~bounds[r].dry
                 PROVE  Behind(dead', p, spared)
    BY <1>1, Zenon DEF Swept
  <2> QED BY <1>1, <2>1, ShrinkKeeps, Zenon DEF Shrinks
<1>6. Reported'
  <2>1. answer'[r] = "done" => Clean(dead, left'[r])
    <3>1. answer[r] # "done"
      BY DEF GCInv, Rest
    <3> QED BY <1>1, <3>1 DEF Verdict
  <2> QED BY <1>1, <2>1, DoneKept DEF GCInv, Keeps
<1> QED BY <1>1, <1>2, <1>3, <1>4, <1>5, <1>6 DEF GCInv

-----------------------------------------------------------------------------
\* A request begins with nothing swept and nothing achieved, or is turned away.
LEMMA ReceiveKeeps ==
    ASSUME GCInv, NEW r \in Request, ReceiveGC(r)
    PROVE  GCInv'
<1> USE DEF GCInv
<1>1. GCTypeOK'
  <2>1. CASE holder = {}
    <3>1. PICK b \in Bounds : bounds' = [bounds EXCEPT ![r] = b]
      BY <2>1 DEF ReceiveGC
    <3>2. b \in Bound
      BY GCRequestAssumption DEF Bound
    <3>3. bounds' \in [Request -> Bound]
      BY <3>1, <3>2 DEF GCTypeOK
    <3>4. at' \in [Request -> Passes \cup {"idle"}]
      BY <2>1 DEF ReceiveGC, GCTypeOK, Passes, Storage
    <3>5. holder' = {r}
      BY <2>1 DEF ReceiveGC
    <3>6. answer' \in [Request -> Response]
      BY <2>1 DEF ReceiveGC, GCTypeOK, Response
    <3> QED BY <3>3, <3>4, <3>5, <3>6 DEF GCTypeOK, ReceiveGC
  <2>2. CASE holder # {}
    BY <2>2 DEF ReceiveGC, GCTypeOK, Response
  <2> QED BY <2>1, <2>2
<1>2. Shrinks
  BY DEF ReceiveGC, Shrinks, GCTypeOK
<1>3. \A q \in Request \ {r} : Keeps(q)
  BY DEF ReceiveGC, Keeps, GCTypeOK
<1>4. \A q \in Request \ {r} : Rest(q)' /\ Progressing(q)' /\ Swept(q)'
  BY <1>2, <1>3, OthersKept
<1>5. Rest(r)' /\ Progressing(r)' /\ Swept(r)'
  BY DEF ReceiveGC, Rest, Progressing, Swept, Behind, GCTypeOK, Storage
<1>6. Reported'
  <2>1. answer'[r] # "done"
    BY DEF ReceiveGC, GCTypeOK
  <2> QED BY <1>2, <1>3, <2>1, DoneKept DEF Keeps
<1> QED BY <1>1, <1>4, <1>5, <1>6

\* The deadline passes.
LEMMA ExpireKeeps ==
    ASSUME GCInv, NEW r \in Request, Expire(r)
    PROVE  GCInv'
<1>1. GCTypeOK'
  BY DEF GCInv, GCTypeOK, Expire
<1> QED BY SMTT(20), <1>1 DEF GCInv, Expire, Rest, Progressing, Swept, Reported

\* A pass marks all that is dead for it, or is passed over: one that gets no
\* budget takes done away, which handDown allows only after something was swept.
LEMMA OpenKeeps ==
    ASSUME GCInv, NEW r \in Request, OpenPass(r)
    PROVE  GCInv'
<1> USE DEF GCInv
<1>1. at[r] \in Passes /\ NextPass(at[r]) \in Passes \cup {"idle"} /\ at[r] # "idle"
  BY DEF GCTypeOK, OpenPass, NextPass, Passes, Storage
<1>2. /\ done[r] \in BOOLEAN /\ failed[r] \in BOOLEAN /\ swept[r] \in BOOLEAN /\ FALSE \in BOOLEAN
      /\ left[r] \in SUBSET Item
      /\ swept[r] => moved[r]
      /\ ~done[r] /\ ~failed[r] => moved[r]
  BY DEF GCTypeOK, OpenPass, Progressing
<1>3. ASSUME at[r] \notin Storage \cup Configured,
             Go(r, NextPass(at[r]), done[r], failed[r], swept[r], left[r])
      PROVE  GCInv'
  <2>1. done[r] /\ ~bounds[r].dry => Behind(dead, at[r], left[r])
    BY <1>1 DEF Swept
  <2>2. done[r] /\ ~bounds[r].dry =>
          /\ Behind(dead, NextPass(at[r]), left[r])
          /\ NextPass(at[r]) = "idle" => Clean(dead, left[r])
    BY <1>1, <1>3, <2>1, GCRequestAssumption DEF Behind, Clean, NextPass, Passes, Storage
  <2> QED BY <1>1, <1>2, <1>3, <2>2, GoKeeps
<1>4. ASSUME ~MayRun(r, at[r]), Go(r, NextPass(at[r]), FALSE, failed[r], swept[r], left[r])
      PROVE  GCInv'
  BY <1>1, <1>2, <1>4, GoKeeps, Zenon DEF MayRun
<1>5. ASSUME Mark(r)
      PROVE  GCInv'
  <2>1. Marked(at[r]) \subseteq Item
    BY SMTT(20), <1>1 DEF Marked, GCTypeOK, Passes, Storage
  <2>2. GCTypeOK'
    BY <1>5, <2>1 DEF Mark, GCTypeOK
  <2>3. Shrinks
    BY <1>5 DEF Mark, Shrinks, GCTypeOK
  <2>4. \A q \in Request \ {r} : Keeps(q)
    BY <1>5 DEF Mark, Keeps, GCTypeOK
  <2>5. \A q \in Request \ {r} : Rest(q)' /\ Progressing(q)' /\ Swept(q)'
    BY <2>3, <2>4, OthersKept
  <2>6. Rest(r)' /\ Progressing(r)'
    BY SMTT(20), <1>1, <1>5 DEF Mark, Rest, Progressing, Passes, Storage
  <2>7. Swept(r)'
    <3>1. SUFFICES ASSUME done[r], ~bounds[r].dry
                   PROVE  Todo(dead, at[r], left[r]) \subseteq Marked(at[r])
      BY <1>5 DEF Mark, Swept, GCTypeOK
    <3>2. at[r] = "xorbs" => dead["shards"] \ left[r] = {}
      BY <1>1, <3>1 DEF Swept, Behind, Todo
    <3> QED BY <3>2 DEF Todo, Marked
  <2>8. Reported'
    BY <1>5 DEF Mark, Reported
  <2> QED BY SMTT(20), <2>2, <2>5, <2>6, <2>7, <2>8
<1> QED BY <1>3, <1>4, <1>5, Zenon DEF OpenPass

\* Sweeping one candidate: what leaves the queue is swept, or left for a reason.
LEMMA SweepKeeps ==
    ASSUME GCInv, NEW r \in Request, SweepItem(r)
    PROVE  GCInv'
<1> USE DEF GCInv
<1>1. PICK i \in queue[r] :
        /\ queue' = [queue EXCEPT ![r] = @ \ {i}]
        /\ Reclaim(r, i) \/ Spare(r, i)
  BY Zenon DEF SweepItem, SweepShard, SweepXorb, SweepSpool, SweepManifest
<1>2. opened[r] /\ UNCHANGED <<holder, at, opened, swept, done, failed, bounds, spent, answer>>
  BY DEF SweepItem
<1>3. at[r] \in Passes /\ at[r] # "idle" /\ i \in Item /\ answer[r] # "done"
  BY <1>2 DEF GCTypeOK, Rest, Passes, Storage
<1>4. /\ dead' \in [Passes -> SUBSET Item] /\ \A p \in Passes : dead'[p] \subseteq dead[p]
      /\ count' \in [Request -> Nat] /\ \A q \in Request \ {r} : count'[q] = count[q]
      /\ moved' \in [Request -> BOOLEAN] /\ \A q \in Request \ {r} : moved'[q] = moved[q]
      /\ left' \in [Request -> SUBSET Item] /\ \A q \in Request \ {r} : left'[q] = left[q]
      /\ (count'[r] = count[r] /\ moved'[r] = moved[r]) \/ moved'[r]
      /\ left[r] \subseteq left'[r]
      /\ done[r] /\ ~bounds[r].dry => i \notin dead'[at[r]] \/ i \in left'[r]
  <2>1. CASE Spare(r, i)
    BY SMTT(20), <1>3, <2>1 DEF Spare, GCTypeOK
  <2>2. CASE Reclaim(r, i) /\ ~bounds[r].dry /\ i \in dead[at[r]]
    <3>1. /\ dead' = [dead EXCEPT ![at[r]] = @ \ {i}]
          /\ count' = [count EXCEPT ![r] = @ + 1]
          /\ moved' = [moved EXCEPT ![r] = TRUE]
          /\ left' = left
      BY <2>2, Zenon DEF Reclaim
    <3>2. /\ dead' \in [Passes -> SUBSET Item] /\ \A p \in Passes : dead'[p] \subseteq dead[p]
          /\ i \notin dead'[at[r]]
      BY <1>3, <3>1 DEF GCTypeOK
    <3>3. count' \in [Request -> Nat] /\ \A q \in Request \ {r} : count'[q] = count[q]
      BY <3>1 DEF GCTypeOK
    <3>4. moved' \in [Request -> BOOLEAN] /\ moved'[r] /\ \A q \in Request \ {r} : moved'[q] = moved[q]
      BY <3>1, Zenon DEF GCTypeOK
    <3> QED BY <3>1, <3>2, <3>3, <3>4, Zenon DEF GCTypeOK
  <2>3. CASE Reclaim(r, i) /\ ~(~bounds[r].dry /\ i \in dead[at[r]])
    <3>1. UNCHANGED <<dead, count, moved, left>>
      BY <2>3, Zenon DEF Reclaim
    <3>2. done[r] /\ ~bounds[r].dry => i \notin dead[at[r]]
      BY <2>3
    <3> QED BY <3>1, <3>2, Zenon DEF GCTypeOK
  <2> QED BY <1>1, <2>1, <2>2, <2>3, Zenon
<1>5. Shrinks
  BY <1>4 DEF Shrinks
<1>6. GCTypeOK'
  <2>1. queue[r] \ {i} \in SUBSET Item
    BY DEF GCTypeOK
  <2>2. queue' \in [Request -> SUBSET Item]
    BY <1>1, <2>1 DEF GCTypeOK
  <2>3. \A p \in Passes : dead'[p] \subseteq Garbage[p]
    BY <1>4 DEF GCTypeOK
  <2> QED BY <1>2, <1>4, <2>2, <2>3 DEF GCTypeOK
<1>7. \A q \in Request \ {r} : Keeps(q)
  BY <1>1, <1>2, <1>4 DEF Keeps, GCTypeOK
<1>8. \A q \in Request \ {r} : Rest(q)' /\ Progressing(q)' /\ Swept(q)'
  BY <1>5, <1>7, OthersKept, Zenon
<1>9. Rest(r)' /\ Progressing(r)'
  BY <1>2, <1>3, <1>4 DEF Rest, Progressing
<1>10. Swept(r)'
  <2>1. SUFFICES ASSUME done[r], ~bounds[r].dry
                 PROVE  /\ Todo(dead', at[r], left'[r]) \subseteq queue'[r]
                        /\ Behind(dead', at[r], left'[r])
    BY <1>2 DEF Swept
  <2>2. Todo(dead, at[r], left[r]) \subseteq queue[r] /\ Behind(dead, at[r], left[r])
    BY <1>2, <1>3, <2>1 DEF Swept
  <2>3. Todo(dead', at[r], left'[r]) \subseteq Todo(dead, at[r], left[r])
    BY <1>3, <1>4, TodoShrinks
  <2>4. i \notin Todo(dead', at[r], left'[r])
    BY <1>4, <2>1 DEF Todo
  <2>5. queue'[r] = queue[r] \ {i}
    BY <1>1 DEF GCTypeOK
  <2>6. Behind(dead', at[r], left'[r])
    <3>1. \A p \in Passes : Todo(dead', p, left'[r]) \subseteq Todo(dead, p, left[r])
      BY <1>4, TodoShrinks
    <3>2. /\ Todo(dead', "shards", left'[r]) \subseteq Todo(dead, "shards", left[r])
          /\ Todo(dead', "xorbs", left'[r]) \subseteq Todo(dead, "xorbs", left[r])
          /\ Todo(dead', "spools", left'[r]) \subseteq Todo(dead, "spools", left[r])
      BY <3>1 DEF Passes, Storage
    <3> QED BY <2>2, <3>2 DEF Behind
  <2> QED BY <2>2, <2>3, <2>4, <2>5, <2>6
<1>11. Reported'
  BY <1>2, <1>3, <1>4, <1>5, DoneKept
<1> QED BY <1>6, <1>8, <1>9, <1>10, <1>11

\* A pass out of bounds has swept something.
LEMMA ExhaustKeeps ==
    ASSUME GCInv, NEW r \in Request, Exhaust(r)
    PROVE  GCInv'
<1> DEFINE p == IF at[r] \in Storage THEN "idle" ELSE NextPass(at[r])
<1>1. at[r] \in Passes /\ at[r] # "idle"
  BY DEF GCInv, GCTypeOK, Exhaust, Rest
<1>2. p \in Passes \cup {"idle"}
  BY <1>1 DEF NextPass, Passes, Storage
<1>3. /\ count[r] \in Nat /\ bounds[r].max \in Nat /\ failed[r] \in BOOLEAN /\ FALSE \in BOOLEAN
      /\ Counts(r) \in BOOLEAN /\ left[r] \in SUBSET Item
  BY DEF GCInv, GCTypeOK, Bound, Counts
<1>4. moved[r]
  BY SMTT(20), <1>3 DEF GCInv, Progressing, Exhaust, OverMax, OverTime
<1>5. Go(r, p, FALSE, failed[r], Counts(r), left[r])
  BY ZenonT(30) DEF Exhaust
<1> QED BY <1>1, <1>2, <1>3, <1>4, <1>5, GoKeeps, Zenon

\* A pass at its end has no candidate left.
LEMMA EndKeeps ==
    ASSUME GCInv, NEW r \in Request, EndPass(r)
    PROVE  GCInv'
<1>1. at[r] \in Passes /\ at[r] # "idle" /\ opened[r] /\ queue[r] = {}
  BY SMTT(20) DEF GCInv, GCTypeOK, EndPass, Rest
<1>2. /\ done[r] \in BOOLEAN /\ failed[r] \in BOOLEAN /\ (~done[r] /\ ~failed[r] => moved[r])
      /\ swept[r] \in BOOLEAN /\ Counts(r) \in BOOLEAN /\ (swept[r] => moved[r])
      /\ left[r] \in SUBSET Item
  BY SMTT(20) DEF GCInv, GCTypeOK, Progressing, Counts
<1>3. Counts(r) => moved[r]
  BY SMTT(20) DEF GCInv, Progressing, Counts
<1>4. done[r] /\ ~bounds[r].dry => Todo(dead, at[r], left[r]) = {} /\ Behind(dead, at[r], left[r])
  BY SMTT(20), <1>1 DEF GCInv, Swept
<1>5. CASE at[r] = "shards" /\ Go(r, "xorbs", done[r], failed[r], swept[r], left[r])
  <2>1. done[r] /\ ~bounds[r].dry => Behind(dead, "xorbs", left[r])
    BY <1>4, <1>5 DEF Behind, Storage
  <2> QED BY <1>1, <1>2, <1>5, <2>1, GoKeeps DEF Passes, Storage
<1>6. CASE at[r] = "shards" /\ Go(r, "spools", done[r], failed[r], Counts(r), left[r] \cup dead["xorbs"])
  <2> DEFINE spared == left[r] \cup dead["xorbs"]
  <2>1. spared \in SUBSET Item
    BY <1>2 DEF GCInv, GCTypeOK, Passes, Storage
  <2>2. done[r] /\ ~bounds[r].dry => Behind(dead, "spools", spared)
    <3>1. done[r] /\ ~bounds[r].dry => Todo(dead, "shards", spared) = {}
      BY <1>4, <1>6 DEF Todo
    <3>2. Todo(dead, "xorbs", spared) = {}
      BY DEF Todo
    <3> QED BY <3>1, <3>2 DEF Behind
  <2>3. "spools" \in Passes \cup {"idle"} /\ "spools" # "idle"
    BY DEF Passes
  <2>4. Go(r, "spools", done[r], failed[r], Counts(r), spared)
    BY <1>6
  <2> HIDE DEF spared
  <2> QED BY <1>1, <1>2, <1>3, <2>1, <2>2, <2>3, <2>4, GoKeeps, ZenonT(30)
<1>7. CASE at[r] # "shards" /\ Go(r, NextPass(at[r]), done[r], failed[r], Counts(r), left[r])
  <2>1. NextPass(at[r]) \in Passes \cup {"idle"}
    BY <1>1 DEF NextPass, Passes, Storage
  <2>2. done[r] /\ ~bounds[r].dry =>
          /\ Behind(dead, NextPass(at[r]), left[r])
          /\ NextPass(at[r]) = "idle" => Clean(dead, left[r])
    BY SMTT(20), <1>1, <1>4, <1>7, GCRequestAssumption DEF Behind, Clean, NextPass, Passes, Storage
  <2> HIDE DEF Counts
  <2> QED BY <1>1, <1>2, <1>3, <1>7, <2>1, <2>2, GoKeeps, ZenonT(30)
<1> QED BY Zenon, <1>5, <1>6, <1>7 DEF EndPass

\* A pass that fails leaves done false and a failure behind.
LEMMA FailKeeps ==
    ASSUME GCInv, NEW r \in Request, FailPass(r)
    PROVE  GCInv'
<1> DEFINE p == IF at[r] \in Storage THEN "spools" ELSE NextPass(at[r])
<1>1. p \in Passes \cup {"idle"} /\ at[r] # "idle"
  BY DEF GCInv, GCTypeOK, FailPass, Rest, NextPass, Passes, Storage
<1>2. swept[r] \in BOOLEAN /\ (swept[r] => moved[r]) /\ left[r] \in SUBSET Item
  BY DEF GCInv, GCTypeOK, Progressing
<1>3. Go(r, p, FALSE, TRUE, swept[r], left[r]) /\ TRUE \in BOOLEAN /\ FALSE \in BOOLEAN
  BY Zenon DEF FailPass
<1> QED BY <1>1, <1>2, <1>3, GoKeeps, Zenon

-----------------------------------------------------------------------------
\* Requests one step at a time.
GCSpec == GCInit /\ [][GCNext]_gcVars

\* Every step keeps it.
LEMMA GCStep == GCInv /\ [GCNext]_gcVars => GCInv'
<1>1. ASSUME GCInv, NEW r \in Request, Handle(r)
      PROVE  GCInv'
  BY SMTT(20), <1>1, ReceiveKeeps, ExpireKeeps, OpenKeeps, SweepKeeps, ExhaustKeeps, EndKeeps, FailKeeps
     DEF Handle
<1>2. ASSUME GCInv, UNCHANGED gcVars
      PROVE  GCInv'
  BY Zenon, <1>2 DEF gcVars, requestVars, GCInv, GCTypeOK, Rest, Progressing, Swept, Reported
<1> QED BY <1>1, <1>2 DEF GCNext

\* So it always holds.
LEMMA GCInvariance == GCSpec => []GCInv
  BY GCInitInv, GCStep, PTL DEF GCSpec

\* "progress never stalls": a response of handleGC that is not done and reports
\* no error has swept something.
THEOREM RequestsProgress == GCSpec => []NeverStalls
<1>1. GCInv => NeverStalls
  BY Zenon DEF GCInv, Progressing, NeverStalls
<1> QED BY <1>1, GCInvariance, PTL

\* "repeat until the top-level done is true": when handleGC answers done, that
\* request has met all that is still dead and left only what resisted it.
THEOREM DoneIsSwept == GCSpec => []DoneSwept
<1>1. GCInv => DoneSwept
  <2> SUFFICES ASSUME GCInv, NEW r \in Request, answer[r] = "done"
               PROVE  /\ dead["shards"] \subseteq left[r]
                      /\ \A x \in dead["xorbs"] : x \in left[r] \/ Owner[x] \in left[r]
                      /\ \A p \in Configured : dead[p] \subseteq left[r]
    BY DEF DoneSwept
  <2>1. Clean(dead, left[r])
    BY DEF GCInv, Reported
  <2>2. \A p \in Configured : p # "xorbs"
    BY GCRequestAssumption
  <2> QED BY <2>1, <2>2 DEF Clean, Todo
<1> QED BY <1>1, GCInvariance, PTL

-----------------------------------------------------------------------------
(* The uploads.                                                            *)

\* The facts about sequences the two uploads need.
LEMMA LenOf ==
    ASSUME NEW S, NEW q \in Seq(S)
    PROVE  Len(q) \in Nat /\ DOMAIN q = 1 .. Len(q) /\ q \in [1 .. Len(q) -> S]
  OBVIOUS

\* An element of a sequence.
LEMMA ElementOf ==
    ASSUME NEW S, NEW q \in Seq(S), NEW k \in 1 .. Len(q)
    PROVE  q[k] \in S
  OBVIOUS

\* The empty sequence.
LEMMA EmptyOf ==
    ASSUME NEW S
    PROVE  <<>> \in Seq(S) /\ Len(<<>>) = 0 /\ \A q \in Seq(S) : q # <<>> => Len(q) \in Nat \ {0}
  OBVIOUS

\* Sequences equal at each index are equal.
LEMMA EqualOf ==
    ASSUME NEW S, NEW p \in Seq(S), NEW q \in Seq(S), Len(p) = Len(q),
           \A k \in 1 .. Len(p) : p[k] = q[k]
    PROVE  p = q
  OBVIOUS

\* One element more.
LEMMA AppendOf ==
    ASSUME NEW S, NEW q \in Seq(S), NEW e \in S
    PROVE  /\ Append(q, e) \in Seq(S) /\ Append(q, e) # <<>> /\ Len(Append(q, e)) = Len(q) + 1
           /\ \A k \in 1 .. Len(q) : Append(q, e)[k] = q[k]
           /\ Append(q, e)[Len(q) + 1] = e
  OBVIOUS

\* One element changed.
LEMMA ExceptOf ==
    ASSUME NEW S, NEW q \in Seq(S), NEW k \in 1 .. Len(q), NEW e \in S
    PROVE  /\ [q EXCEPT ![k] = e] \in Seq(S) /\ Len([q EXCEPT ![k] = e]) = Len(q)
           /\ \A i \in 1 .. Len(q) : [q EXCEPT ![k] = e][i] = IF i = k THEN e ELSE q[i]
  OBVIOUS

\* A part of a sequence.
LEMMA SubSeqOf ==
    ASSUME NEW S, NEW q, NEW m \in Int, NEW n \in Int, \A k \in m .. n : q[k] \in S
    PROVE  /\ SubSeq(q, m, n) \in Seq(S)
           /\ Len(SubSeq(q, m, n)) = IF m <= n THEN n - m + 1 ELSE 0
           /\ \A k \in 1 .. n - m + 1 : SubSeq(q, m, n)[k] = q[m + k - 1]
  OBVIOUS

\* A function on the places of a sequence is a sequence as long.
LEMMA SameLength ==
    ASSUME NEW S, NEW s \in Seq(S), NEW t \in [DOMAIN s -> S]
    PROVE  t \in Seq(S) /\ Len(t) = Len(s) /\ DOMAIN t = DOMAIN s
<1>1. Len(s) \in Nat /\ DOMAIN s = 1 .. Len(s)
  BY LenOf
<1>2. t \in Seq(S)
  BY <1>1
<1>3. Len(t) \in Nat /\ DOMAIN t = 1 .. Len(t) /\ DOMAIN t = 1 .. Len(s)
  BY <1>1, <1>2, LenOf
<1> QED BY <1>1, <1>2, <1>3

-----------------------------------------------------------------------------
(* UploadXorb.                                                             *)

\* What one attempt consists of.
Attempt ==
    [got : Seq(Nat), sending : BOOLEAN, answer : {"none", "cut", "200", "served", "500", "403"},
     alone : BOOLEAN, late : BOOLEAN]

\* The types of the state.
RetryTypeOK ==
    /\ call \in [pc : {"do", "wait", "ok", "error"}, live : BOOLEAN]
    /\ offset \in 0 .. Blocks
    /\ conn \in Seq(Attempt)

\* A success was answered by a server that stores the xorb.
AnsweredStored == \A j \in DOMAIN conn : conn[j].answer = "200" => stored = Xorb

\* The reader stands where the only sender that has read from it does.
OffsetShared ==
    /\ conn = <<>> => offset = 0 /\ call.pc # "wait"
    /\ conn # <<>> /\ conn[cur].alone =>
         Len(conn[cur].got) = offset /\ \A i \in 1 .. offset : conn[cur].got[i] = i

\* An attempt that began after its context ended is followed by no other.
LateLast == \A j \in DOMAIN conn : conn[j].late => ~call.live /\ call.pc # "do"

\* The inductive invariant of an upload with retries.
RetryInv ==
    /\ RetryTypeOK /\ StoredSound /\ SuccessStored
    /\ AnsweredStored /\ OffsetShared /\ LateLast /\ OneLateAttempt

\* It holds at the start.
LEMMA RetryInitInv == RetryInit => RetryInv
<1> SUFFICES ASSUME RetryInit
             PROVE  RetryInv
  OBVIOUS
<1>1. conn \in Seq(Attempt) /\ DOMAIN conn = {}
  BY EmptyOf DEF RetryInit
<1> QED
  BY <1>1, RetryAssumption
     DEF RetryInit, RetryInv, RetryTypeOK, StoredSound, SuccessStored, AnsweredStored, OffsetShared,
         LateLast, OneLateAttempt

\* The current attempt is one of the attempts.
LEMMA Current ==
    ASSUME RetryTypeOK
    PROVE  /\ cur \in Nat /\ DOMAIN conn = 1 .. cur
           /\ conn # <<>> => cur \in DOMAIN conn
           /\ \A j \in DOMAIN conn : conn[j] \in Attempt /\ conn # <<>>
  BY LenOf, EmptyOf, ElementOf DEF RetryTypeOK, cur

\* A step that changes one attempt's answer, or that it sends.
LEMMA AnswerKeeps ==
    ASSUME RetryInv, NEW j \in DOMAIN conn, NEW a \in Attempt, conn' = [conn EXCEPT ![j] = a],
           a.got = conn[j].got, a.alone = conn[j].alone, a.late = conn[j].late,
           UNCHANGED <<call, offset>>,
           stored' = stored \/ stored' = Xorb,
           a.answer = "200" => stored' = Xorb \/ conn[j].answer = "200"
    PROVE  RetryInv'
<1>1. /\ conn \in Seq(Attempt) /\ cur \in Nat /\ DOMAIN conn = 1 .. cur
      /\ cur \in DOMAIN conn /\ conn # <<>>
  BY Current DEF RetryInv, RetryTypeOK
<1>2. conn' \in [DOMAIN conn -> Attempt]
  BY <1>1, Current DEF RetryInv
<1>3. conn' \in Seq(Attempt) /\ Len(conn') = Len(conn) /\ DOMAIN conn' = DOMAIN conn
  BY <1>1, <1>2, SameLength
<1>4. cur' = cur /\ conn' # <<>>
  BY <1>1, <1>3, EmptyOf DEF cur
<1>5. \A k \in DOMAIN conn :
        /\ conn'[k].got = conn[k].got /\ conn'[k].alone = conn[k].alone /\ conn'[k].late = conn[k].late
        /\ k # j => conn'[k] = conn[k]
  BY <1>1
<1>6. RetryTypeOK' /\ StoredSound' /\ SuccessStored'
  BY <1>3 DEF RetryInv, RetryTypeOK, StoredSound, SuccessStored, Xorb
<1>7. AnsweredStored'
  BY <1>1, <1>3, <1>5 DEF RetryInv, AnsweredStored, Xorb
<1>8. OffsetShared'
  BY <1>1, <1>4, <1>5 DEF RetryInv, OffsetShared
<1>9. LateLast' /\ OneLateAttempt'
  BY <1>3, <1>5 DEF RetryInv, LateLast, OneLateAttempt
<1> QED BY <1>6, <1>7, <1>8, <1>9 DEF RetryInv

\* Steps of one attempt's connection.
LEMMA ConnectionKeeps ==
    ASSUME RetryInv, NEW j \in DOMAIN conn,
           SendEnd(j) \/ SendStop(j) \/ AlreadyStored(j) \/ Serve(j) \/ Upset(j) \/ Refuse(j)
    PROVE  RetryInv'
<1>1. conn[j] \in Attempt
  BY Current DEF RetryInv
<1> DEFINE With(x) == [conn[j] EXCEPT !.answer = x]
<1>2. CASE SendEnd(j)
  <2> DEFINE a == [conn[j] EXCEPT !.sending = FALSE,
                                  !.answer = IF @ = "none" /\ Len(conn[j].got) < Blocks THEN "cut" ELSE @]
  <2>1. conn' = [conn EXCEPT ![j] = a]
    BY <1>2, Zenon DEF SendEnd
  <2>2. /\ a \in Attempt /\ a.got = conn[j].got /\ a.alone = conn[j].alone /\ a.late = conn[j].late
        /\ a.answer = "200" => conn[j].answer = "200"
    BY <1>1, Zenon DEF Attempt
  <2>3. UNCHANGED <<call, offset, stored>>
    BY <1>2 DEF SendEnd
  <2> HIDE DEF a
  <2> QED BY <2>1, <2>2, <2>3, AnswerKeeps, Zenon
<1>3. CASE SendStop(j)
  <2> DEFINE a == [conn[j] EXCEPT !.sending = FALSE]
  <2>1. conn' = [conn EXCEPT ![j] = a]
    BY <1>3 DEF SendStop
  <2>2. /\ a \in Attempt /\ a.got = conn[j].got /\ a.alone = conn[j].alone /\ a.late = conn[j].late
        /\ a.answer = conn[j].answer
    BY <1>1, Zenon DEF Attempt
  <2>3. UNCHANGED <<call, offset, stored>>
    BY <1>3 DEF SendStop
  <2> HIDE DEF a
  <2> QED BY <2>1, <2>2, <2>3, AnswerKeeps, Zenon
<1>4. ASSUME NEW x \in {"cut", "200", "served", "500", "403"}, conn' = [conn EXCEPT ![j].answer = x],
             UNCHANGED <<call, offset>>, stored' = stored \/ stored' = Xorb,
             x = "200" => stored' = Xorb
      PROVE  RetryInv'
  <2>1. conn' = [conn EXCEPT ![j] = With(x)]
    BY <1>4
  <2>2. /\ With(x) \in Attempt /\ With(x).got = conn[j].got /\ With(x).alone = conn[j].alone
        /\ With(x).late = conn[j].late /\ With(x).answer = x
    BY <1>1 DEF Attempt
  <2> HIDE DEF With
  <2> QED BY <1>4, <2>1, <2>2, AnswerKeeps, Zenon
<1>5. CASE Serve(j)
  <2>1. CASE Matches(conn[j].got) /\ stored' = conn[j].got /\ Respond(j, "200")
    BY <1>4, <1>5, <2>1, Zenon DEF Serve, Matches, Respond
  <2>2. CASE ~Matches(conn[j].got) /\ UNCHANGED stored /\ Respond(j, "500")
    BY <1>4, <1>5, <2>2, Zenon DEF Serve, Respond
  <2> QED BY <1>5, <2>1, <2>2, Zenon DEF Serve
<1>6. CASE Upset(j)
  BY <1>4, <1>6, Zenon DEF Upset
<1>7. CASE Refuse(j)
  BY <1>4, <1>7, Zenon DEF Refuse, Respond
<1>8. CASE AlreadyStored(j)
  <2>1. stored = Xorb
    BY <1>8 DEF AlreadyStored, RetryInv, StoredSound
  <2> QED BY <1>4, <1>8, <2>1, Zenon DEF AlreadyStored, Respond
<1> QED BY <1>2, <1>3, <1>5, <1>6, <1>7, <1>8

\* A sender reads: alone, it extends what it sent; else the current attempt
\* is not alone any more.
LEMMA SendKeeps ==
    ASSUME RetryInv, NEW j \in DOMAIN conn, SendBlock(j)
    PROVE  RetryInv'
<1>1. /\ conn \in Seq(Attempt) /\ cur \in Nat /\ DOMAIN conn = 1 .. cur
      /\ cur \in DOMAIN conn /\ conn # <<>> /\ \A k \in DOMAIN conn : conn[k] \in Attempt
  BY Current DEF RetryInv, RetryTypeOK
<1>2. offset \in Nat /\ offset < Blocks /\ offset' = offset + 1 /\ UNCHANGED <<call, stored>>
  BY RetryAssumption DEF RetryInv, RetryTypeOK, SendBlock
<1> DEFINE more == [conn[j] EXCEPT !.got = Append(@, offset + 1)]
           new(k) == IF k = j /\ Len(conn[j].got) < Blocks THEN more
                     ELSE IF k = cur /\ k # j THEN [conn[k] EXCEPT !.alone = FALSE]
                     ELSE conn[k]
<1>3. conn' = [k \in DOMAIN conn |-> new(k)]
  BY DEF SendBlock
<1>4. /\ more \in Attempt /\ more.answer = conn[j].answer /\ more.late = conn[j].late
      /\ more.alone = conn[j].alone /\ more.got = Append(conn[j].got, offset + 1)
      /\ Len(more.got) = Len(conn[j].got) + 1 /\ more.got[Len(conn[j].got) + 1] = offset + 1
      /\ \A i \in 1 .. Len(conn[j].got) : more.got[i] = conn[j].got[i]
  <2>1. conn[j] \in Attempt /\ conn[j].got \in Seq(Nat) /\ offset + 1 \in Nat
    BY <1>1, <1>2 DEF Attempt
  <2>2. Append(conn[j].got, offset + 1) \in Seq(Nat)
    BY <2>1, AppendOf
  <2>3. more \in Attempt
    BY <2>1, <2>2, Zenon DEF Attempt
  <2>4. /\ more.answer = conn[j].answer /\ more.late = conn[j].late
        /\ more.alone = conn[j].alone /\ more.got = Append(conn[j].got, offset + 1)
    BY <2>1 DEF Attempt
  <2> QED BY <2>1, <2>3, <2>4, AppendOf
<1> HIDE DEF more
<1>5. \A k \in DOMAIN conn : new(k) \in Attempt
  BY <1>1, <1>4, Zenon DEF Attempt
<1>6. conn' \in [DOMAIN conn -> Attempt]
  BY <1>3, <1>5
<1>7. conn' \in Seq(Attempt) /\ Len(conn') = Len(conn) /\ DOMAIN conn' = DOMAIN conn
  BY <1>1, <1>6, SameLength
<1>8. cur' = cur
  BY <1>7 DEF cur
<1>9. \A k \in DOMAIN conn : conn'[k].answer = conn[k].answer /\ conn'[k].late = conn[k].late
  BY SMTT(20), <1>1, <1>3, <1>4 DEF Attempt
<1>10. RetryTypeOK' /\ StoredSound' /\ SuccessStored' /\ AnsweredStored' /\ LateLast' /\ OneLateAttempt'
  <2>1. RetryTypeOK'
    BY <1>2, <1>7, RetryAssumption DEF RetryInv, RetryTypeOK
  <2>2. StoredSound' /\ SuccessStored'
    BY <1>2 DEF RetryInv, StoredSound, SuccessStored, Xorb
  <2>3. AnsweredStored'
    BY <1>2, <1>7, <1>9 DEF RetryInv, AnsweredStored, Xorb
  <2>4. LateLast' /\ OneLateAttempt'
    BY <1>2, <1>7, <1>9 DEF RetryInv, LateLast, OneLateAttempt
  <2> QED BY <2>1, <2>2, <2>3, <2>4
<1>11. ASSUME conn'[cur].alone
       PROVE  Len(conn'[cur].got) = offset + 1 /\ \A i \in 1 .. offset + 1 : conn'[cur].got[i] = i
  <2>1. j = cur
    BY <1>1, <1>3, <1>11 DEF Attempt
  <2>2. conn[cur].alone
    BY <1>1, <1>3, <1>4, <1>11, <2>1
  <2>3. Len(conn[cur].got) = offset /\ \A i \in 1 .. offset : conn[cur].got[i] = i
    BY <1>1, <2>2 DEF RetryInv, OffsetShared
  <2>4. conn'[cur] = more
    BY <1>1, <1>2, <1>3, <2>1, <2>3
  <2> QED BY SMTT(20), <1>2, <1>4, <2>1, <2>3, <2>4
<1>12. OffsetShared'
  <2>1. conn' # <<>>
    BY <1>1, <1>7, EmptyOf
  <2> QED BY <1>2, <1>8, <1>11, <2>1 DEF OffsetShared
<1> QED BY <1>10, <1>12 DEF RetryInv

\* The next attempt starts at the start of the reader, and late only if no
\* earlier one was.
LEMMA DoKeeps ==
    ASSUME RetryInv, Do
    PROVE  RetryInv'
<1> DEFINE a == [got |-> <<>>, sending |-> TRUE, answer |-> "none", alone |-> TRUE, late |-> ~call.live]
<1>1. conn \in Seq(Attempt) /\ cur \in Nat /\ DOMAIN conn = 1 .. cur
  BY SMTT(20), Current DEF RetryInv, RetryTypeOK
<1>2. a \in Attempt /\ a.answer = "none" /\ a.alone /\ a.got = <<>> /\ Len(a.got) = 0
  BY EmptyOf DEF Attempt, RetryInv, RetryTypeOK
<1>3. a.late = ~call.live
  OBVIOUS
<1>4. conn' = Append(conn, a) /\ call.pc = "do" /\ call' = [call EXCEPT !.pc = "wait"] /\ UNCHANGED stored
  BY DEF Do
<1> HIDE DEF a
<1>5. /\ conn' \in Seq(Attempt) /\ Len(conn') = cur + 1 /\ conn' # <<>>
      /\ \A i \in 1 .. cur : conn'[i] = conn[i]
      /\ conn'[cur + 1] = a
  BY <1>1, <1>2, <1>4, AppendOf DEF cur
<1>6. cur' = cur + 1 /\ DOMAIN conn' = 1 .. cur + 1
  BY <1>5, LenOf DEF cur
<1>7. offset' = 0
  BY DEF Do, resetRequestBody, RetryInv, OffsetShared
<1>8. /\ call'.pc = "wait" /\ call'.live = call.live
      /\ call' \in [pc : {"do", "wait", "ok", "error"}, live : BOOLEAN]
  BY SMTT(20), <1>4 DEF RetryInv, RetryTypeOK
<1>9. RetryTypeOK'
  BY <1>5, <1>7, <1>8, RetryAssumption DEF RetryTypeOK
<1>10. StoredSound' /\ SuccessStored'
  BY <1>4, <1>8 DEF RetryInv, StoredSound, SuccessStored, Xorb
<1>11. AnsweredStored'
  BY <1>1, <1>2, <1>4, <1>5, <1>6 DEF RetryInv, AnsweredStored, Xorb
<1>12. OffsetShared'
  BY <1>2, <1>5, <1>6, <1>7 DEF OffsetShared
<1>13. \A j \in DOMAIN conn : ~conn[j].late
  BY <1>4 DEF RetryInv, LateLast
<1>14. ASSUME NEW j \in DOMAIN conn', conn'[j].late
       PROVE  j = cur + 1 /\ ~call.live
  <2>1. j \in 1 .. cur \/ j = cur + 1
    BY <1>1, <1>6
  <2>2. j \notin 1 .. cur
    BY <1>1, <1>5, <1>13, <1>14
  <2> QED BY <1>3, <1>5, <1>14, <2>1, <2>2, Zenon
<1>15. LateLast' /\ OneLateAttempt'
  BY <1>8, <1>14 DEF LateLast, OneLateAttempt
<1> QED BY <1>9, <1>10, <1>11, <1>12, <1>15 DEF RetryInv

\* Steps of the call itself.
LEMMA CallKeeps ==
    ASSUME RetryInv, Receive \/ Abort \/ RetryCancel
    PROVE  RetryInv'
<1>1. /\ conn \in Seq(Attempt) /\ call \in [pc : {"do", "wait", "ok", "error"}, live : BOOLEAN]
      /\ offset \in 0 .. Blocks
  BY DEF RetryInv, RetryTypeOK
<1>2. ASSUME call.pc = "wait"
      PROVE  cur \in DOMAIN conn /\ conn[cur] \in Attempt /\ conn # <<>>
  BY <1>2, Current DEF RetryInv, OffsetShared
<1>3. CASE Receive
  <2>1. UNCHANGED <<offset, conn, stored>> /\ cur' = cur /\ call.pc = "wait"
    BY <1>3 DEF Receive, cur
  <2>2. PICK x : call' = [call EXCEPT !.pc = x] /\ (x = Outcome \/ x = "error")
    BY <1>3, Zenon DEF Receive
  <2>3. x \in {"ok", "error", "do"}
    BY <2>2 DEF Outcome
  <2>4. call'.pc = x /\ call'.live = call.live
    BY <1>1, <2>2
  <2>5. /\ x = "ok" => conn[cur].answer = "200"
        /\ x = "do" => call.live
    BY <2>2 DEF Outcome
  <2>6. call' \in [pc : {"do", "wait", "ok", "error"}, live : BOOLEAN]
    BY <1>1, <2>2, <2>3
  <2>7. RetryTypeOK' /\ StoredSound' /\ AnsweredStored' /\ OneLateAttempt'
    BY <2>1, <2>6 DEF RetryInv, RetryTypeOK, StoredSound, AnsweredStored, OneLateAttempt, Xorb
  <2>8. SuccessStored'
    BY <1>2, <2>1, <2>4, <2>5 DEF RetryInv, SuccessStored, AnsweredStored, Xorb
  <2>9. OffsetShared' /\ LateLast'
    BY <1>2, <2>1, <2>3, <2>4, <2>5 DEF RetryInv, OffsetShared, LateLast
  <2> QED BY <2>7, <2>8, <2>9 DEF RetryInv
<1>4. CASE Abort
  <2> DEFINE a == [conn[cur] EXCEPT !.answer = "cut"]
  <2>1. conn' = [conn EXCEPT ![cur] = a] /\ UNCHANGED <<call, offset, stored>> /\ call.pc = "wait"
    BY <1>4 DEF Abort
  <2>2. /\ a \in Attempt /\ a.got = conn[cur].got /\ a.alone = conn[cur].alone
        /\ a.late = conn[cur].late /\ a.answer = "cut"
    BY SMTT(20), <1>2, <2>1 DEF Attempt
  <2> HIDE DEF a
  <2> QED BY <1>2, <2>1, <2>2, AnswerKeeps, Zenon
<1>5. CASE RetryCancel
  <2>1. /\ UNCHANGED <<offset, conn, stored>> /\ cur' = cur
        /\ call'.pc = call.pc /\ ~call'.live /\ call.live
        /\ call' \in [pc : {"do", "wait", "ok", "error"}, live : BOOLEAN]
    BY <1>1, <1>5, Zenon DEF RetryCancel, cur
  <2>2. RetryTypeOK' /\ StoredSound' /\ SuccessStored' /\ AnsweredStored' /\ OneLateAttempt'
    BY SMTT(20), <2>1 DEF RetryInv, RetryTypeOK, StoredSound, SuccessStored, AnsweredStored,
                          OneLateAttempt, Xorb
  <2>3. OffsetShared' /\ LateLast'
    BY <2>1 DEF RetryInv, OffsetShared, LateLast
  <2> QED BY <2>2, <2>3 DEF RetryInv
<1> QED BY <1>3, <1>4, <1>5

\* One upload, attempt by attempt.
RetrySpec == RetryInit /\ [][RetryNext]_retryVars

\* Every step keeps it.
LEMMA RetryStep == RetryInv /\ [RetryNext]_retryVars => RetryInv'
<1>1. ASSUME RetryInv, RetryNext
      PROVE  RetryInv'
  BY SMTT(20), <1>1, DoKeeps, CallKeeps, SendKeeps, ConnectionKeeps DEF RetryNext
<1>2. ASSUME RetryInv, UNCHANGED retryVars
      PROVE  RetryInv'
  BY <1>2
     DEF retryVars, RetryInv, RetryTypeOK, StoredSound, SuccessStored, AnsweredStored, OffsetShared,
         LateLast, OneLateAttempt, Xorb, cur
<1> QED BY <1>1, <1>2

\* What an undisturbed attempt has sent is the xorb from its start.
LEMMA InvRewound == RetryInv => RewoundForRetry
<1> SUFFICES ASSUME RetryInv, conn # <<>>, conn[cur].alone
             PROVE  conn[cur].got = SubSeq(Xorb, 1, Len(conn[cur].got))
  BY DEF RewoundForRetry
<1> DEFINE got == conn[cur].got
<1>1. got \in Seq(Nat) /\ Len(got) = offset /\ offset \in 0 .. Blocks /\ \A i \in 1 .. offset : got[i] = i
  BY Current DEF RetryInv, RetryTypeOK, OffsetShared, Attempt
<1>2. \A i \in 1 .. offset : Xorb[i] = i /\ Xorb[i] \in Nat
  BY <1>1, RetryAssumption DEF Xorb
<1>3. /\ SubSeq(Xorb, 1, offset) \in Seq(Nat)
      /\ Len(SubSeq(Xorb, 1, offset)) = offset
      /\ \A i \in 1 .. offset : SubSeq(Xorb, 1, offset)[i] = i
  <2>1. 1 \in Int /\ offset \in Int /\ \A i \in 1 .. offset : Xorb[i] \in Nat
    BY <1>1, <1>2, RetryAssumption
  <2>2. /\ SubSeq(Xorb, 1, offset) \in Seq(Nat)
        /\ Len(SubSeq(Xorb, 1, offset)) = IF 1 <= offset THEN offset - 1 + 1 ELSE 0
        /\ \A i \in 1 .. offset - 1 + 1 : SubSeq(Xorb, 1, offset)[i] = Xorb[1 + i - 1]
    BY <2>1, SubSeqOf
  <2> QED BY <1>1, <1>2, <2>1, <2>2, RetryAssumption
<1>4. got = SubSeq(Xorb, 1, offset)
  BY <1>1, <1>3, EqualOf
<1> QED BY <1>1, <1>4

\* UploadXorb through doWithNetworkRetry: whatever blocks a leftover sender
\* took, the server stores the xorb or nothing, a success is a stored xorb, an
\* undisturbed attempt starts over, and a cancelled call starts no more than
\* the one attempt it had decided on.
THEOREM XorbUploads == RetrySpec => []XorbUploadSound
<1>1. RetryInv => XorbUploadSound
  BY InvRewound DEF RetryInv, XorbUploadSound
<1> QED BY <1>1, RetryInitInv, RetryStep, PTL DEF RetrySpec

-----------------------------------------------------------------------------
(* UploadShardV2.                                                          *)

\* What a stream is made of.
Frame == Terminal \cup {"progress"}
Stream ==
    [at : {"decode", "put", "put-done", "stop", "done"}, block : Nat, wire : Seq(Frame), seen : Nat,
     last : Frame, open : BOOLEAN, heart : {"on", "stopping", "off"}, beats : Nat,
     say : Terminal \cup {"none", "nothing"}]

\* An attempt's stream: until its handler is done there are only progress
\* frames for the heartbeat to repeat, the handler is done only after the
\* heartbeat, and a result is announced only once the shard is kept.
Sound(s, kept) ==
    /\ s.at = "done" => s.heart = "off"
    /\ s.at \notin {"stop", "done"} => s.heart = "on"
    /\ s.at = "stop" => s.say # "none"
    /\ s.at # "done" => s.last = "progress" /\ \A k \in 1 .. Len(s.wire) : s.wire[k] = "progress"
    /\ \A k \in 1 .. Len(s.wire) : s.wire[k] \in Terminal => k = Len(s.wire)
    /\ s.at = "put-done" \/ s.say = "result" => kept
    /\ \A k \in 1 .. Len(s.wire) : s.wire[k] = "result" => kept

\* The inductive invariant of a streamed shard upload.
StreamInv ==
    /\ client \in {"send", "read", "ok", "error"}
    /\ stream \in Seq(Stream) /\ shardKept \in BOOLEAN
    /\ client = "read" => stream # <<>>
    /\ \A n \in 1 .. Len(stream) : Sound(stream[n], shardKept)
    /\ client = "ok" => shardKept

\* It holds at the start.
LEMMA StreamInitInv == StreamInit => StreamInv
<1> SUFFICES ASSUME StreamInit
             PROVE  StreamInv
  OBVIOUS
<1>1. stream \in Seq(Stream) /\ Len(stream) = 0
  BY EmptyOf DEF StreamInit
<1>2. \A n \in 1 .. Len(stream) : Sound(stream[n], shardKept)
  <2>1. 1 .. Len(stream) = {}
    BY <1>1
  <2> QED BY <2>1
<1>3. client = "send" /\ shardKept = FALSE
  BY DEF StreamInit
<1> QED BY <1>1, <1>2, <1>3, Zenon DEF StreamInv

\* A step that changes one attempt's stream.
LEMMA SetKeeps ==
    ASSUME StreamInv, NEW n \in 1 .. Len(stream), NEW v \in Stream, stream' = [stream EXCEPT ![n] = v],
           shardKept' \in BOOLEAN, shardKept => shardKept', Sound(v, shardKept'),
           client' \in {"send", "read", "ok", "error"}, client' = "ok" => shardKept'
    PROVE  StreamInv'
<1>1. stream \in Seq(Stream)
  BY DEF StreamInv
<1>2. /\ stream' \in Seq(Stream) /\ Len(stream') = Len(stream)
      /\ \A k \in 1 .. Len(stream) : stream'[k] = IF k = n THEN v ELSE stream[k]
  BY <1>1, ExceptOf
<1>3. stream' # <<>>
  BY SMTT(20), <1>1, <1>2, LenOf, EmptyOf
<1>4. \A k \in 1 .. Len(stream) : Sound(stream[k], shardKept')
  BY DEF StreamInv, Sound
<1>5. \A k \in 1 .. Len(stream') : Sound(stream'[k], shardKept')
  BY <1>2, <1>4
<1> QED BY <1>2, <1>3, <1>5 DEF StreamInv

\* A frame at the end of a stream of progress frames.
LEMMA AppendFrame ==
    ASSUME NEW s \in Stream, NEW f \in Frame,
           \A k \in 1 .. Len(s.wire) : s.wire[k] = "progress"
    PROVE  LET w == Append(s.wire, f)
           IN  /\ w \in Seq(Frame) /\ \A k \in 1 .. Len(w) : w[k] = "progress" \/ (k = Len(w) /\ w[k] = f)
               /\ f = "progress" => \A k \in 1 .. Len(w) : w[k] = "progress"
<1>1. s.wire \in Seq(Frame) /\ Len(s.wire) \in Nat
  BY LenOf DEF Stream
<1>2. /\ Append(s.wire, f) \in Seq(Frame) /\ Len(Append(s.wire, f)) = Len(s.wire) + 1
      /\ \A k \in 1 .. Len(s.wire) : Append(s.wire, f)[k] = s.wire[k]
      /\ Append(s.wire, f)[Len(s.wire) + 1] = f
  BY <1>1, AppendOf
<1> QED BY <1>1, <1>2

\* A handler's progress, and the end it comes to.
LEMMA ProgressSound ==
    ASSUME NEW s \in Stream, NEW kept \in BOOLEAN, Sound(s, kept), s.at \notin {"stop", "done"},
           NEW a \in {"decode", "put", "put-done"}, NEW b \in Nat, a = "put-done" => kept
    PROVE  LET v == [s EXCEPT !.wire = Append(@, "progress"), !.last = "progress", !.at = a, !.block = b]
           IN  v \in Stream /\ Sound(v, kept)
<1> DEFINE w == Append(s.wire, "progress")
           v == [s EXCEPT !.wire = w, !.last = "progress", !.at = a, !.block = b]
<1>1. /\ w \in Seq(Frame) /\ \A k \in 1 .. Len(w) : w[k] = "progress"
  <2>1. "progress" \in Frame /\ \A k \in 1 .. Len(s.wire) : s.wire[k] = "progress"
    BY DEF Sound, Frame
  <2> QED BY <2>1, AppendFrame
<1> HIDE DEF w
<1>2. v \in Stream
  BY <1>1, Zenon DEF Stream, Frame
<1>3. Sound(v, kept)
  BY <1>1 DEF Stream, Sound, Terminal
<1> QED BY <1>2, <1>3 DEF w

\* The handler is done and tells the heartbeat to stop.
LEMMA FinishSound ==
    ASSUME NEW s \in Stream, NEW kept \in BOOLEAN, Sound(s, kept), s.at \notin {"stop", "done"},
           NEW f \in Terminal \cup {"nothing"}, f = "result" => kept
    PROVE  LET v == [s EXCEPT !.at = "stop", !.heart = "stopping", !.say = f]
           IN  v \in Stream /\ Sound(v, kept)
  BY Zenon DEF Stream, Sound, Terminal

\* What stopHeartbeat lets the handler write, if anything.
LEMMA StoppedSound ==
    ASSUME NEW s \in Stream, NEW kept \in BOOLEAN, Sound(s, kept), s.at = "stop", s.heart = "off",
           s.say # "nothing"
    PROVE  LET v == [[s EXCEPT !.wire = Append(@, s.say), !.last = s.say] EXCEPT !.at = "done"]
           IN  v \in Stream /\ Sound(v, kept)
<1> DEFINE w == Append(s.wire, s.say)
           v == [[s EXCEPT !.wire = w, !.last = s.say] EXCEPT !.at = "done"]
<1>1. s.say \in Terminal /\ s.say \in Frame
  BY DEF Stream, Sound, Frame
<1>2. /\ w \in Seq(Frame) /\ \A k \in 1 .. Len(w) : w[k] = "progress" \/ (k = Len(w) /\ w[k] = s.say)
  <2>1. \A k \in 1 .. Len(s.wire) : s.wire[k] = "progress"
    BY DEF Sound
  <2> QED BY <1>1, <2>1, AppendFrame
<1> HIDE DEF w
<1>3. v \in Stream
  BY <1>1, <1>2, Zenon DEF Stream, Frame
<1>4. v.at = "done" /\ v.heart = "off" /\ v.wire = w /\ v.say = s.say
  BY DEF Stream
<1>5. Sound(v, kept)
  BY <1>2, <1>4 DEF Sound, Terminal
<1> QED BY <1>3, <1>5 DEF w

\* A tick while the handler runs repeats a progress frame.
LEMMA BeatSound ==
    ASSUME NEW s \in Stream, NEW kept \in BOOLEAN, Sound(s, kept), s.heart # "off"
    PROVE  LET v == [s EXCEPT !.beats = @ + 1, !.wire = IF s.open THEN Append(@, s.last) ELSE @]
           IN  v \in Stream /\ Sound(v, kept)
<1>1. s.at # "done" /\ s.last = "progress" /\ "progress" \in Frame
  BY DEF Stream, Sound, Frame
<1> DEFINE w == IF s.open THEN Append(s.wire, s.last) ELSE s.wire
           v == [s EXCEPT !.beats = @ + 1, !.wire = w]
<1>6. s.beats + 1 \in Nat
  BY SMTT(20) DEF Stream
<1>2. w \in Seq(Frame) /\ \A k \in 1 .. Len(w) : w[k] = "progress"
  <2>1. \A k \in 1 .. Len(s.wire) : s.wire[k] = "progress"
    BY <1>1 DEF Sound
  <2>2. CASE s.open
    BY <1>1, <2>1, <2>2, AppendFrame
  <2>3. CASE ~s.open
    BY <2>1, <2>3 DEF Stream
  <2> QED BY <2>2, <2>3
<1> HIDE DEF w
<1>3. v \in Stream
  BY <1>2, <1>6, Zenon DEF Stream
<1>4. v.at = s.at /\ v.heart = s.heart /\ v.wire = w /\ v.say = s.say /\ v.last = s.last
  BY DEF Stream
<1>5. Sound(v, kept)
  BY <1>1, <1>2, <1>4 DEF Sound, Terminal
<1> QED BY <1>3, <1>5 DEF w

\* What the client's side of the connection changes: how far it read, whether
\* it is still there, and which frames were lost with it.
LEMMA ClientSound ==
    ASSUME NEW s \in Stream, NEW kept \in BOOLEAN, Sound(s, kept), NEW k \in Nat, NEW o \in BOOLEAN
    PROVE  LET v == [[s EXCEPT !.seen = k] EXCEPT !.open = o]
           IN  v \in Stream /\ Sound(v, kept)
  BY Zenon DEF Stream, Sound

\* The connection breaks and the client loses what it has not read.
LEMMA BreakSound ==
    ASSUME NEW s \in Stream, NEW kept \in BOOLEAN, Sound(s, kept), NEW m \in s.seen .. Len(s.wire)
    PROVE  LET v == [[s EXCEPT !.open = FALSE] EXCEPT !.wire = SubSeq(@, 1, m)]
           IN  v \in Stream /\ Sound(v, kept)
<1> DEFINE w == SubSeq(s.wire, 1, m)
           v == [[s EXCEPT !.open = FALSE] EXCEPT !.wire = w]
<1>1. s.wire \in Seq(Frame) /\ Len(s.wire) \in Nat /\ s.seen \in Nat
  BY LenOf DEF Stream
<1>2. /\ w \in Seq(Frame) /\ Len(w) = m /\ m <= Len(s.wire)
      /\ \A k \in 1 .. m : w[k] = s.wire[k]
  BY <1>1, SubSeqOf
<1> HIDE DEF w
<1>3. v \in Stream
  BY <1>2, Zenon DEF Stream
<1>4. v.at = s.at /\ v.heart = s.heart /\ v.wire = w /\ v.say = s.say /\ v.last = s.last
  BY DEF Stream
<1>5. Sound(v, kept)
  <2>1. s.at # "done" => \A k \in 1 .. Len(w) : w[k] = "progress"
    BY <1>1, <1>2 DEF Sound
  <2>2. \A k \in 1 .. Len(w) : w[k] \in Terminal => k = Len(w)
    BY <1>1, <1>2 DEF Sound
  <2>3. \A k \in 1 .. Len(w) : w[k] = "result" => kept
    BY <1>1, <1>2 DEF Sound
  <2> QED BY <1>4, <2>1, <2>2, <2>3 DEF Sound
<1> QED BY <1>3, <1>5 DEF w

\* Each step of the handler of attempt n.
LEMMA HandlerKeeps ==
    ASSUME StreamInv, NEW n \in 1 .. Len(stream), Handler(n) \/ Reject(n) \/ Beat(n)
    PROVE  StreamInv'
<1>1. /\ stream \in Seq(Stream) /\ stream[n] \in Stream /\ Sound(stream[n], shardKept)
      /\ shardKept \in BOOLEAN
      /\ StreamBlocks \in Nat
  BY ElementOf, StreamAssumption DEF StreamInv
<1>2. client' = client
  BY Zenon DEF Handler, DecodeBlock, ShardDecoded, PutShardV2, Commit, Stopped, HeartStops, Reject, Beat
<1>3. /\ client' \in {"send", "read", "ok", "error"}
      /\ shardKept' \in BOOLEAN /\ (shardKept => shardKept')
  BY <1>1, <1>2, Zenon DEF StreamInv, Handler, DecodeBlock, ShardDecoded, PutShardV2, Commit, Stopped,
                           HeartStops, Reject, Beat
<1>4. client' = "ok" => shardKept'
  BY SMTT(20), <1>2, <1>3 DEF StreamInv
<1>5. Sound(stream[n], shardKept')
  BY Zenon, <1>1, <1>3 DEF Sound
<1>7. ASSUME NEW v, v \in Stream, Sound(v, shardKept'), Set(n, v)
      PROVE  StreamInv'
  BY <1>3, <1>4, <1>7, SetKeeps, Zenon DEF Set
<1>8. ASSUME NEW f \in Terminal \cup {"nothing"}, f = "result" => shardKept', Finish(n, f),
             stream[n].at \notin {"stop", "done"}
      PROVE  StreamInv'
  BY <1>1, <1>3, <1>5, <1>7, <1>8, FinishSound, Zenon DEF Finish
<1>9. ASSUME NEW a \in {"decode", "put", "put-done"}, NEW b \in Nat, a = "put-done" => shardKept', Progress(n, a, b),
             stream[n].at \notin {"stop", "done"}
      PROVE  StreamInv'
  <2>1. CASE stream[n].open
    <3> DEFINE s == stream[n]
               v == [s EXCEPT !.wire = Append(@, "progress"), !.last = "progress", !.at = a, !.block = b]
    <3>1. v \in Stream /\ Sound(v, shardKept')
      BY <1>1, <1>3, <1>5, <1>9, ProgressSound, Zenon
    <3>2. Set(n, v)
      BY <1>9, <2>1 DEF Progress, Put
    <3> HIDE DEF v
    <3> QED BY <3>1, <3>2, <1>7
  <2>2. CASE ~stream[n].open
    BY <1>9, <2>2, <1>8 DEF Progress, Returns, Finish, Terminal
  <2> QED BY <2>1, <2>2
<1>10. CASE DecodeBlock(n)
  <2>1. stream[n].block + 1 \in Nat /\ stream[n].at = "decode"
    <3>1. stream[n].block \in Nat
      BY <1>1 DEF Stream
    <3> QED BY <3>1, <1>10 DEF DecodeBlock
  <2>2. Finish(n, "retry") \/ Finish(n, "fatal") \/ Progress(n, "decode", stream[n].block + 1)
    BY <1>10 DEF DecodeBlock
  <2> QED BY <2>1, <2>2, <1>8, <1>9 DEF Terminal
<1>11. CASE Reject(n)
  BY <1>11, <1>8 DEF Reject, Terminal
<1>12. CASE ShardDecoded(n)
  BY <1>1, <1>12, <1>9 DEF ShardDecoded
<1>13. CASE PutShardV2(n)
  BY <1>1, <1>13, <1>8, <1>9, Zenon DEF PutShardV2, Terminal
<1>14. CASE Commit(n)
  <2>1. shardKept'
    BY <1>1, <1>3, <1>14 DEF Commit, Sound
  <2> QED BY SMTT(20), <2>1, <1>14, <1>8 DEF Commit, Terminal
<1>15. CASE Stopped(n)
  <2>1. CASE stream[n].say # "nothing" /\ stream[n].open
    <3> DEFINE s == stream[n]
               v == [[s EXCEPT !.wire = Append(@, s.say), !.last = s.say] EXCEPT !.at = "done"]
    <3>1. v \in Stream /\ Sound(v, shardKept')
      BY <1>1, <1>3, <1>5, <1>15, <2>1, StoppedSound, Zenon DEF Stopped
    <3>2. Set(n, v)
      BY <1>15, <2>1 DEF Stopped, Put
    <3> HIDE DEF v
    <3> QED BY <3>1, <3>2, <1>7
  <2>2. CASE ~(stream[n].say # "nothing" /\ stream[n].open)
    <3> DEFINE v == [stream[n] EXCEPT !.at = "done"]
    <3>1. v \in Stream /\ Sound(v, shardKept')
      BY <1>1, <1>5, <1>15, Zenon DEF Stopped, Stream, Sound
    <3>2. Set(n, v)
      BY <1>15, <2>2 DEF Stopped
    <3> HIDE DEF v
    <3> QED BY <3>1, <3>2, <1>7
  <2> QED BY <2>1, <2>2
<1>16. CASE Beat(n)
  <2> DEFINE s == stream[n]
             v == [s EXCEPT !.beats = @ + 1, !.wire = IF s.open THEN Append(@, s.last) ELSE @]
  <2>1. v \in Stream /\ Sound(v, shardKept')
    BY <1>1, <1>3, <1>5, <1>16, BeatSound, Zenon DEF Beat
  <2>2. Set(n, v)
    BY <1>16 DEF Beat
  <2> HIDE DEF v
  <2> QED BY <2>1, <2>2, <1>7
<1>17. CASE HeartStops(n)
  <2> DEFINE v == [stream[n] EXCEPT !.heart = "off"]
  <2>1. v \in Stream /\ Sound(v, shardKept')
    BY <1>1, <1>5, <1>17, Zenon DEF HeartStops, Stream, Sound
  <2>2. Set(n, v)
    BY <1>17 DEF HeartStops
  <2> HIDE DEF v
  <2> QED BY <2>1, <2>2, <1>7
<1> QED BY <1>10, <1>11, <1>12, <1>13, <1>14, <1>15, <1>16, <1>17 DEF Handler

\* The client reads the last attempt's stream: a success is a result frame.
LEMMA ReaderKeeps ==
    ASSUME StreamInv, ReadFrame \/ ReadEOF \/ Break \/ Quit
    PROVE  StreamInv'
<1>1. stream \in Seq(Stream) /\ shardKept \in BOOLEAN /\ shardKept' = shardKept /\ Len(stream) \in Nat
  BY LenOf DEF StreamInv, ReadFrame, ReadEOF, Break, Quit
<1>2. ASSUME client = "read"
      PROVE  this \in 1 .. Len(stream) /\ stream[this] \in Stream /\ Sound(stream[this], shardKept)
  <2>1. stream # <<>>
    BY <1>2 DEF StreamInv
  <2>2. this \in 1 .. Len(stream)
    BY <1>1, <2>1, EmptyOf DEF this
  <2> QED BY <1>1, <2>2, ElementOf DEF StreamInv
<1>3. CASE ReadFrame
  <2> DEFINE s == stream[this]
             frame == s.wire[s.seen + 1]
             o == client' = "read"
             v == [[s EXCEPT !.seen = s.seen + 1] EXCEPT !.open = o]
  <2>1. client = "read"
    BY <1>3 DEF ReadFrame
  <2>2. s.seen \in Nat /\ s.wire \in Seq(Frame) /\ Len(s.wire) \in Nat
    BY <1>2, <2>1, LenOf DEF Stream
  <2>3. s.seen + 1 \in 1 .. Len(s.wire)
    BY <2>2, <1>3 DEF ReadFrame
  <2>4. frame = "result" => shardKept
    BY <2>1, <2>3, <1>2 DEF Sound
  <2>5. client' = After(frame)
    BY <1>3 DEF ReadFrame
  <2> HIDE DEF frame
  <2>6. client' \in {"send", "read", "ok", "error"} /\ (client' = "ok" => frame = "result")
    BY <2>5 DEF After
  <2>7. o \in BOOLEAN /\ s.seen + 1 \in Nat
    BY <2>2
  <2>8. stream' = [stream EXCEPT ![this] = v]
    BY <1>3, <1>2, <2>1, Zenon DEF ReadFrame
  <2> HIDE DEF o
  <2>9. v \in Stream /\ Sound(v, shardKept)
    BY <1>1, <1>2, <2>1, <2>7, ClientSound, Zenon
  <2> HIDE DEF v
  <2> QED BY <1>1, <1>2, <2>1, <2>4, <2>6, <2>8, <2>9, SetKeeps, Zenon
<1>4. ASSUME client = "read", stream' = [stream EXCEPT ![this].open = FALSE], client' = "error"
      PROVE  StreamInv'
  <2> DEFINE v == [stream[this] EXCEPT !.open = FALSE]
  <2>1. v \in Stream /\ Sound(v, shardKept)
    BY <1>2, <1>4, Zenon DEF Stream, Sound
  <2>2. stream' = [stream EXCEPT ![this] = v]
    BY <1>4
  <2> HIDE DEF v
  <2> QED BY <1>1, <1>2, <1>4, <2>1, <2>2, SetKeeps, Zenon
<1>5. CASE ReadEOF
  BY <1>4, <1>5 DEF ReadEOF, AfterEOF
<1>6. CASE Break
  <2> DEFINE s == stream[this]
  <2>1. client = "read" /\ client' = client
    BY <1>6 DEF Break
  <2>2. PICK m \in s.seen .. Len(s.wire) :
            stream' = [stream EXCEPT ![this].open = FALSE, ![this].wire = SubSeq(@, 1, m)]
    BY <1>6, Zenon DEF Break
  <2> DEFINE v == [[s EXCEPT !.open = FALSE] EXCEPT !.wire = SubSeq(@, 1, m)]
  <2>3. v \in Stream /\ Sound(v, shardKept)
    BY <1>1, <1>2, <2>1, BreakSound, Zenon
  <2>4. stream' = [stream EXCEPT ![this] = v]
    BY <1>1, <1>2, <2>1, <2>2, Zenon
  <2> HIDE DEF v
  <2> QED BY <1>1, <1>2, <2>1, <2>3, <2>4, SetKeeps, Zenon
<1>7. CASE Quit
  <2>1. CASE client = "read"
    BY <1>4, <1>7, <2>1 DEF Quit
  <2>2. CASE client # "read"
    <3>1. stream' = stream /\ client' = "error"
      BY <1>7, <2>2 DEF Quit
    <3> QED BY <3>1, <1>1 DEF StreamInv
  <2> QED BY <2>1, <2>2
<1> QED BY <1>3, <1>5, <1>6, <1>7

\* Another attempt, whose stream starts with a progress frame.
LEMMA AttemptKeeps ==
    ASSUME StreamInv, Send
    PROVE  StreamInv'
<1> DEFINE w == <<"progress">>
           v == [at |-> "decode", block |-> 0, wire |-> w, seen |-> 0, last |-> "progress",
                 open |-> TRUE, heart |-> "on", beats |-> 0, say |-> "none"]
<1>1. w \in Seq(Frame) /\ \A k \in 1 .. Len(w) : w[k] = "progress"
  BY DEF Frame
<1>2. stream' = Append(stream, v) /\ client' = "read" /\ shardKept' = shardKept
  BY SMTT(20) DEF Send
<1> HIDE DEF w
<1>3. v \in Stream /\ Sound(v, shardKept)
  BY Zenon, <1>1 DEF Stream, Sound, Frame, Terminal
<1> HIDE DEF v
<1>4. stream \in Seq(Stream) /\ Len(stream) \in Nat
  BY SMTT(20), LenOf DEF StreamInv
<1>5. /\ stream' \in Seq(Stream) /\ Len(stream') = Len(stream) + 1
      /\ \A k \in 1 .. Len(stream) : stream'[k] = stream[k]
      /\ stream'[Len(stream) + 1] = v
  BY <1>2, <1>3, <1>4, AppendOf
<1>6. stream' # <<>>
  BY <1>4, <1>5, EmptyOf
<1>7. \A k \in 1 .. Len(stream') : Sound(stream'[k], shardKept)
  BY <1>3, <1>4, <1>5 DEF StreamInv
<1> QED BY <1>2, <1>5, <1>6, <1>7 DEF StreamInv

\* One shard upload, frame by frame.
StreamSpec == StreamInit /\ [][StreamNext]_streamVars

\* Every step keeps it.
LEMMA StreamInvStep == StreamInv /\ [StreamNext]_streamVars => StreamInv'
<1> SUFFICES ASSUME StreamInv, [StreamNext]_streamVars
             PROVE  StreamInv'
  OBVIOUS
<1>1. DOMAIN stream = 1 .. Len(stream)
  BY LenOf DEF StreamInv
<1>2. CASE Arrive \/ UNCHANGED streamVars
  BY <1>2 DEF Arrive, StreamInv, streamVars
<1>3. CASE \E n \in DOMAIN stream : Handler(n) \/ Reject(n) \/ Beat(n)
  BY <1>1, <1>3, HandlerKeeps
<1>4. CASE ReadFrame \/ ReadEOF \/ Break \/ Quit
  BY <1>4, ReaderKeeps
<1>5. CASE Send
  BY <1>5, AttemptKeeps
<1> QED BY <1>2, <1>3, <1>4, <1>5 DEF StreamNext, StreamStep

\* It implies the property.
LEMMA InvShardUpload == StreamInv => ShardUploadSound
<1> SUFFICES ASSUME StreamInv
             PROVE  ShardUploadSound
  OBVIOUS
<1>1. /\ DOMAIN stream = 1 .. Len(stream) /\ stream \in Seq(Stream)
      /\ \A n \in DOMAIN stream : stream[n] \in Stream /\ Sound(stream[n], shardKept)
  BY SMTT(20), LenOf, ElementOf DEF StreamInv
<1>2. \A n \in DOMAIN stream : DOMAIN stream[n].wire = 1 .. Len(stream[n].wire)
  BY <1>1, LenOf DEF Stream
<1>3. ResultCommitted
  BY SMTT(20) DEF StreamInv, ResultCommitted
<1>4. TerminalLast
  BY SMTT(20), <1>1, <1>2 DEF Sound, TerminalLast
<1>5. HeartbeatStopped
  BY <1>1 DEF Sound, HeartbeatStopped
<1> QED BY <1>3, <1>4, <1>5 DEF ShardUploadSound

\* UploadShardV2 reports success only for a shard the server committed, however
\* its attempts overlap and wherever their connections break; a terminal frame
\* ends its stream, and a handler that returned has stopped its heartbeat: for
\* every number of CAS blocks, attempts and heartbeats.
THEOREM ShardUploads == StreamSpec => []ShardUploadSound
<1>1. StreamSpec => []StreamInv
  BY StreamInitInv, StreamInvStep, PTL DEF StreamSpec
<1> QED BY <1>1, InvShardUpload, PTL
=============================================================================
