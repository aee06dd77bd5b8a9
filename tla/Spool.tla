------------------------------- MODULE Spool -------------------------------
(***************************************************************************)
(* mirror/spool and the ingest tasks of the mirror that drive it           *)
(* (mirror/task.go, mirror/fetch.go): a task attaches to the download of   *)
(* its content as the writer of a new flight or as a follower of the one   *)
(* in flight, the writer fetches, verifies and stores the bytes, every     *)
(* task settles on that one result.  Spools spill to files that survive a  *)
(* crash and are adopted, or swept.  A step is one critical section, one   *)
(* file operation or one call into the buffer.                             *)
(***************************************************************************)
EXTENDS Integers, FiniteSets, Sequences

CONSTANTS
    Task,         \* ingest tasks; a flight is named by the task that writes it
    Client,       \* the tasks a client streams from
    Source,       \* what tasks may ask for: [key, etag, size, sha, xet]
    Upstream,     \* the bodies the upstream may serve, in any request
    Inode,        \* identities of spool files
    None, Failed,
    MaxIngests,   \* ingestSlots
    MaxAttempts,  \* maxFetchAttempts
    MaxAccepts,   \* bound on the tasks started, over all restarts
    MaxEvents     \* bound on the crashes and sweeps

VARIABLES
    file,     \* path -> the file of that name
    bytes,    \* inode -> its contents
    flights,  \* path -> the flight registered on it
    flight,   \* task -> the flight it writes
    holds,    \* task -> who holds its flight's buffer
    openMu,   \* the holder of openMu
    task,     \* task -> what it does
    stored,   \* the contents in storage
    sweep,    \* the candidates of the sweep in progress
    events, accepts

diskVars == <<file, bytes>>
counts == <<events, accepts>>
vars == <<diskVars, flights, flight, holds, openMu, task, stored, sweep, counts>>

Sweeper == "sweeper"

\* isContentHash: the etags that name content; "" is no etag at all.
ContentHash(etag) == etag \in {"h1", "h2"}

\* fileName: the content's own spool, or the key's.
FileName(s, shared) ==
    IF shared /\ ContentHash(s.etag) THEN <<"origin", s.etag>> ELSE <<s.key, s.etag, s.size>>

Path == {FileName(s, shared) : s \in Source, shared \in BOOLEAN}

\* Item.NewReader: the hold of a task and that of a client streaming from it.
Reader(t) == <<"client", t>>
Holder == Task \cup {Reader(t) : t \in Task}

\* The bytes of the upstream's bodies, and what can be spooled of them.
Byte == UNION {{b[i] : i \in DOMAIN b} : b \in Upstream}
Content == UNION {[1 .. n -> Byte] : n \in {0} \cup UNION {0 .. Len(b) : b \in Upstream}}

ASSUME SpoolAssumption ==
    /\ Client \subseteq Task
    /\ MaxIngests \in Nat \ {0} /\ MaxAttempts \in Nat \ {0}
    /\ MaxAccepts \in Nat /\ MaxEvents \in Nat
    /\ \A s \in Source : s.size \in Int
    /\ Upstream \subseteq Seq(Byte)
    \* Names and identities are told apart.
    /\ None \notin Task /\ None \notin Source /\ None \notin Path /\ None \notin Inode
    /\ Sweeper \notin Task \cup {None}
    /\ \A t, u \in Task : Reader(t) # u
    \* Some identity is always free: names, flights and tasks cannot use them up.
    /\ IsFiniteSet(Path) /\ IsFiniteSet(Task) /\ IsFiniteSet(Inode)
    /\ Cardinality(Inode) > Cardinality(Path) + 2 * Cardinality(Task)

Idle == [pc |-> "idle", src |-> None, at |-> None, path |-> None, inode |-> None,
         body |-> None, tries |-> 0, err |-> FALSE, got |-> None]
NoFlight == [path |-> None, inode |-> None, shown |-> <<>>, size |-> -1, sized |-> FALSE,
             closed |-> FALSE, done |-> FALSE, res |-> None]

Init ==
    /\ file = [p \in Path |-> None] /\ bytes = [i \in Inode |-> <<>>]
    /\ flights = [p \in Path |-> None]
    /\ flight = [t \in Task |-> NoFlight]
    /\ holds = [t \in Task |-> {}]
    /\ openMu = None
    /\ task = [t \in Task |-> Idle]
    /\ stored = {}
    /\ sweep = {} /\ events = 0 /\ accepts = 0

Stage == {"idle", "sized", "hold", "open", "register", "slot", "fetch", "copy", "finish", "ingest",
          "settle", "wait", "settled"}

TypeOK ==
    /\ file \in [Path -> Inode \cup {None}]
    /\ \A i \in Inode : Len(bytes[i]) \in Nat
    /\ flights \in [Path -> Task \cup {None}]
    /\ holds \in [Task -> SUBSET Holder]
    /\ openMu \in Task \cup {Sweeper, None}
    /\ \A t \in Task :
         /\ task[t].pc \in Stage /\ task[t].src \in Source \cup {None}
         /\ task[t].at \in Task \cup {None} /\ task[t].tries \in 0 .. MaxAttempts
         /\ flight[t].path \in Path \cup {None} /\ flight[t].inode \in Inode \cup {None}
    /\ sweep \subseteq Path

Goto(t, stage) == task' = [task EXCEPT ![t].pc = stage]
Src(t) == task[t].src
Shared(t) == FileName(Src(t), TRUE)
Written(t) == Len(flight[t].shown)

\* The end of Accept with an error: startTask fails the task.
Refuse(t) == task' = [task EXCEPT ![t].pc = "settled", ![t].got = Failed]

\* swmr.NewReader fails once the buffer retired: the writer is done with it
\* and nobody holds it.
Retired(t) == flight[t].closed /\ holds[t] = {}

\* A file nobody names and no live buffer has open is gone.
InUse(i, fs, fl, hs) ==
    \/ \E p \in Path : fs[p] = i
    \/ \E t \in Task : fl[t].inode = i /\ hs[t] # {}
    \/ \E t \in Task : task[t].inode = i
Fresh == CHOOSE i \in Inode : ~InUse(i, file, flight, holds)

\* What the readers of a flight can read.
View(t) ==
    IF flight[t].inode = None THEN flight[t].shown
    ELSE LET c == bytes[flight[t].inode]
         IN  SubSeq(c, 1, IF Len(c) < Written(t) THEN Len(c) ELSE Written(t))

-----------------------------------------------------------------------------
\* startTask creates the task with the source its probe described; Accept
\* looks for a leader.
Accept(t, s) ==
    /\ task[t].pc = "idle" /\ accepts < MaxAccepts
    /\ accepts' = accepts + 1
    /\ LET leader == IF ContentHash(s.etag) THEN flights[FileName(s, TRUE)] ELSE None
       IN  task' = [task EXCEPT ![t] =
             [Idle EXCEPT !.src = s, !.at = leader,
                          !.pc = CASE leader = None                  -> "open"
                                   [] leader # None /\ s.size >= 0 -> "sized"
                                   [] leader # None /\ s.size < 0  -> "hold"]]
    /\ UNCHANGED <<diskVars, flights, flight, holds, openMu, stored, sweep, events>>

\* Accept, the wait for the leader's length.
AcceptSized(t) ==
    /\ task[t].pc = "sized"
    /\ LET leader == flight[task[t].at]
       IN  /\ leader.sized
           /\ \/ leader.size < 0 /\ Goto(t, "open")
              \/ leader.size >= 0 /\ leader.size # Src(t).size /\ Refuse(t)
              \/ leader.size = Src(t).size /\ Goto(t, "hold")
    /\ UNCHANGED <<diskVars, flights, flight, holds, openMu, stored, sweep, counts>>

\* Accept, the hold that makes a follower.
AcceptHold(t) ==
    /\ task[t].pc = "hold"
    /\ \/ /\ ~Retired(task[t].at)
          /\ holds' = [holds EXCEPT ![task[t].at] = @ \cup {t}]
          /\ Goto(t, "wait")
       \/ /\ Retired(task[t].at)
          /\ Goto(t, "open")
          /\ UNCHANGED holds
    /\ UNCHANGED <<diskVars, flights, flight, openMu, stored, sweep, counts>>

\* A leftover that can be a prefix of this content.
Adoptable(s, i) ==
    i # None /\ s.etag # "" /\ bytes[i] # <<>> /\ (s.size < 0 \/ Len(bytes[i]) <= s.size)

\* open: the leftover at path is adopted, or removed.
Open(t, path) ==
    LET i == IF Adoptable(Src(t), file[path]) THEN file[path] ELSE None
    IN  /\ task' = [task EXCEPT ![t].path = path, ![t].inode = i, ![t].pc = "register"]
        /\ file' = [file EXCEPT ![path] = i]

\* Defect: a content spool is always the content's own.
AcceptOpenShared(t) ==
    /\ task[t].pc = "open" /\ openMu = None
    /\ openMu' = t
    /\ Open(t, Shared(t))
    /\ UNCHANGED <<bytes, flights, flight, holds, stored, sweep, counts>>
\* Defect: openMu is not taken.
AcceptOpenUnlocked(t) ==
    /\ task[t].pc = "open"
    /\ LET path == FileName(Src(t), ContentHash(Src(t).etag) /\ flights[Shared(t)] = None)
       IN  \/ flights[path] = None /\ Open(t, path)
           \/ flights[path] # None /\ Refuse(t) /\ UNCHANGED file
    /\ UNCHANGED <<bytes, flights, flight, holds, openMu, stored, sweep, counts>>
\* Accept, openMu taken: the name of the new spool, refused when a flight is
\* registered on it, and its file.
AcceptOpen(t) ==
    /\ task[t].pc = "open" /\ openMu = None
    /\ LET path == FileName(Src(t), ContentHash(Src(t).etag) /\ flights[Shared(t)] = None)
       IN  \/ flights[path] = None /\ openMu' = t /\ Open(t, path)
           \/ flights[path] # None /\ Refuse(t) /\ UNCHANGED <<openMu, file>>
    /\ UNCHANGED <<bytes, flights, flight, holds, stored, sweep, counts>>

\* Accept, the rest under openMu: the flight is registered with the adopted
\* bytes shown and the writer's hold taken.
AcceptRegister(t) ==
    /\ task[t].pc = "register"
    /\ LET i == task[t].inode
       IN  flight' = [flight EXCEPT ![t] =
             [NoFlight EXCEPT !.path = task[t].path, !.inode = i,
                              !.shown = IF i = None THEN <<>> ELSE bytes[i],
                              !.size = Src(t).size,
                              !.sized = Src(t).size >= 0 \/ Src(t).xet]]
    /\ holds' = [holds EXCEPT ![t] = {t}]
    /\ flights' = [flights EXCEPT ![task[t].path] = t]
    /\ openMu' = IF openMu = t THEN None ELSE openMu
    /\ task' = [task EXCEPT ![t].pc = "slot", ![t].at = t, ![t].inode = None]
    /\ UNCHANGED <<diskVars, stored, sweep, counts>>

\* Stream.NewReader by a client of the task: a hold of its own, dropped when
\* the client closes.
ClientAttach(t) ==
    /\ t \in Client /\ task[t].at # None
    /\ task[t].pc \notin {"idle", "sized", "hold", "open", "register"}
    /\ ~Retired(task[t].at) /\ Reader(t) \notin holds[task[t].at]
    /\ holds' = [holds EXCEPT ![task[t].at] = @ \cup {Reader(t)}]
    /\ UNCHANGED <<diskVars, flights, flight, openMu, task, stored, sweep, counts>>

-----------------------------------------------------------------------------
\* Defect: a follower occupies a slot too.
AllSlotHolders ==
    {t \in Task : task[t].pc \in {"fetch", "copy", "finish", "ingest", "settle", "wait"}}
\* runTask: a writer takes an ingest slot, until it has seen its outcome.
SlotHolders ==
    {t \in Task : \/ task[t].pc \in {"fetch", "copy", "finish", "ingest", "settle"}
                  \/ task[t].pc = "wait" /\ task[t].at = t}

\* A spool a crashed process filled is not fetched again.
TakeSlot(t) ==
    /\ task[t].pc = "slot" /\ Cardinality(SlotHolders) < MaxIngests
    /\ Goto(t, IF flight[t].size >= 0 /\ Written(t) = flight[t].size THEN "finish" ELSE "fetch")
    /\ UNCHANGED <<diskVars, flights, flight, holds, openMu, stored, sweep, counts>>

\* flight.setSize: the first length wins.
SetSize(t, n) ==
    flight' = [flight EXCEPT ![t].size = IF @ < 0 THEN n ELSE @, ![t].sized = TRUE]

Rest(b, offset) == SubSeq(b, offset + 1, Len(b))

\* An attempt that ended in an error: fetchWithRetries' next one, or none left.
Retry(t) ==
    task' = [task EXCEPT ![t].tries = @ + 1, ![t].body = None,
                         ![t].err = task[t].tries + 1 = MaxAttempts,
                         ![t].pc = IF task[t].tries + 1 = MaxAttempts THEN "finish" ELSE "fetch"]

\* fetchPlainOnce, fetchXet: the response to a request from the spool's end.
Fetch(t) ==
    /\ task[t].pc = "fetch"
    /\ \/ \E b \in Upstream :
            \* The whole body to a fresh spool, or the part past the spool's end;
            \* a range no upstream serves is an error status.
            /\ Written(t) = 0 \/ Len(b) > Written(t)
            /\ task' = [task EXCEPT ![t].pc = "copy", ![t].body = Rest(b, Written(t))]
            /\ \/ ~Src(t).xet /\ SetSize(t, Len(b))
               \/ UNCHANGED flight
       \/ \E b \in Upstream :
            \* The Range is ignored: what the spool holds is skipped.
            /\ Written(t) > 0 /\ ~Src(t).xet
            /\ IF Len(b) < Written(t)
                 THEN Retry(t)
                 ELSE task' = [task EXCEPT ![t].pc = "copy", ![t].body = Rest(b, Written(t))]
            /\ UNCHANGED flight
       \/ Retry(t) /\ UNCHANGED flight
    /\ UNCHANGED <<diskVars, flights, holds, openMu, stored, sweep, counts>>

\* Bytes b written over the contents c at the end of what the flight shows.
WriteAt(c, t, b) ==
    SubSeq(c, 1, Written(t)) \o <<b>> \o SubSeq(c, Written(t) + 2, Len(c))

\* Item.Write: in memory, spilling to the path's file, created or truncated.
Write(t, b) ==
    /\ \/ flight[t].inode = None /\ UNCHANGED diskVars
          /\ flight' = [flight EXCEPT ![t].shown = @ \o <<b>>]
       \/ /\ flight[t].inode = None
          /\ LET p == flight[t].path
                 i == IF file[p] = None THEN Fresh ELSE file[p]
             IN  /\ file' = [file EXCEPT ![p] = i]
                 /\ bytes' = [bytes EXCEPT ![i] = flight[t].shown \o <<b>>]
                 /\ flight' = [flight EXCEPT ![t].inode = i, ![t].shown = @ \o <<b>>]
       \/ /\ flight[t].inode # None
          /\ bytes' = [bytes EXCEPT ![flight[t].inode] = WriteAt(@, t, b)]
          /\ flight' = [flight EXCEPT ![t].shown = @ \o <<b>>]
          /\ UNCHANGED file

\* The copy of the response body into the spool.
Copy(t) ==
    /\ task[t].pc = "copy"
    /\ \/ /\ task[t].body # <<>>
          /\ Write(t, Head(task[t].body))
          /\ task' = [task EXCEPT ![t].body = Tail(@)]
       \/ /\ task[t].body = <<>>
          /\ task' = [task EXCEPT ![t].body = None, ![t].pc = "finish"]
          /\ UNCHANGED <<diskVars, flight>>
       \/ task[t].body # <<>> /\ Retry(t) /\ UNCHANGED <<diskVars, flight>>
    /\ UNCHANGED <<flights, holds, openMu, stored, sweep, counts>>

\* Finish up to the ingest: the length is checked, the writer closed, the
\* length waiters released.
Finish(t) ==
    /\ task[t].pc = "finish"
    /\ LET err == task[t].err \/ (flight[t].size >= 0 /\ Written(t) # flight[t].size)
       IN  \/ /\ err
              /\ flight' = [flight EXCEPT ![t].closed = TRUE, ![t].sized = TRUE, ![t].res = Failed]
              /\ Goto(t, "settle")
           \/ /\ ~err
              /\ flight' = [flight EXCEPT ![t].closed = TRUE, ![t].sized = TRUE, ![t].size = Written(t)]
              /\ Goto(t, "ingest")
    /\ UNCHANGED <<diskVars, flights, holds, openMu, stored, sweep, counts>>

\* Defect: the store's error is dropped.
IngestUnstored(t) ==
    /\ task[t].pc = "ingest"
    /\ Goto(t, "settle")
    /\ \/ /\ Src(t).sha \in {None, View(t)}
          /\ flight' = [flight EXCEPT ![t].res = View(t)]
          /\ stored' \in {stored, stored \cup {View(t)}}
       \/ /\ flight' = [flight EXCEPT ![t].res = Failed]
          /\ UNCHANGED stored
    /\ UNCHANGED <<diskVars, flights, holds, openMu, sweep, counts>>
\* ingest: the bytes are verified and stored.
Ingest(t) ==
    /\ task[t].pc = "ingest"
    /\ Goto(t, "settle")
    /\ \/ /\ Src(t).sha \in {None, View(t)}
          /\ flight' = [flight EXCEPT ![t].res = View(t)]
          /\ stored' = IF View(t) = <<>> THEN stored ELSE stored \cup {View(t)}
       \/ \* A wrong digest, or a failing store.
          /\ flight' = [flight EXCEPT ![t].res = Failed]
          /\ UNCHANGED stored
    /\ UNCHANGED <<diskVars, flights, holds, openMu, sweep, counts>>

\* The end of Finish: the result is announced, the flight deregistered.
Settle(t) ==
    /\ task[t].pc = "settle"
    /\ flight' = [flight EXCEPT ![t].done = TRUE]
    /\ flights' = [p \in Path |-> IF p = flight[t].path /\ flights[p] = t THEN None ELSE flights[p]]
    /\ Goto(t, "wait")
    /\ UNCHANGED <<diskVars, holds, openMu, stored, sweep, counts>>

Expected(res, s) ==
    /\ res # Failed
    /\ s.size < 0 \/ Len(res) = s.size
    /\ s.sha \in {None, res}

\* A hold let go: the last one on a finished buffer retires it and unlinks its
\* file, by name.
Drop(f, h) ==
    /\ holds' = [holds EXCEPT ![f] = @ \ {h}]
    /\ LET retires == flight[f].closed /\ holds[f] = {h}
       IN  /\ file' = IF retires /\ flight[f].inode # None
                        THEN [file EXCEPT ![flight[f].path] = None] ELSE file
           /\ flight' = IF retires
                          THEN [flight EXCEPT ![f].inode = None, ![f].shown = <<>>] ELSE flight
    /\ bytes' = [i \in Inode |-> IF InUse(i, file', flight', holds') THEN bytes[i] ELSE <<>>]

\* Wait, publish or failTask and the deferred Release: the flight's result is
\* checked against the task's own source, a writer's slot is free again, the
\* hold let go.
Wait(t) ==
    /\ task[t].pc = "wait" /\ flight[task[t].at].done
    /\ LET res == flight[task[t].at].res
       IN  task' = [task EXCEPT ![t].pc = "settled",
                                ![t].got = IF Expected(res, Src(t)) THEN res ELSE Failed]
    /\ Drop(task[t].at, t)
    /\ UNCHANGED <<flights, openMu, stored, sweep, counts>>

ClientDetach(t) ==
    /\ \E f \in Task : Reader(t) \in holds[f] /\ Drop(f, Reader(t))
    /\ UNCHANGED <<flights, openMu, task, stored, sweep, counts>>

-----------------------------------------------------------------------------
\* Sweep takes openMu, and the files no flight is registered on.
SweepBegin ==
    /\ openMu = None /\ events < MaxEvents
    /\ openMu' = Sweeper
    /\ events' = events + 1
    /\ sweep' = {p \in Path : file[p] # None /\ flights[p] = None}
    /\ UNCHANGED <<diskVars, flights, flight, holds, task, stored, accepts>>

\* The candidates past their grace that the budget reaches and that can be
\* unlinked; a dry run unlinks none.
SweepUnlink ==
    /\ openMu = Sweeper
    /\ openMu' = None /\ sweep' = {}
    /\ \E gone \in SUBSET sweep :
         /\ file' = [p \in Path |-> IF p \in gone THEN None ELSE file[p]]
         /\ bytes' = [i \in Inode |-> IF InUse(i, file', flight, holds) THEN bytes[i] ELSE <<>>]
    /\ UNCHANGED <<flights, flight, holds, task, stored, counts>>

\* The process dies: the named files are all that is left.
Crash ==
    /\ events < MaxEvents
    /\ events' = events + 1
    /\ flights' = [p \in Path |-> None]
    /\ flight' = [t \in Task |-> NoFlight]
    /\ holds' = [t \in Task |-> {}]
    /\ openMu' = None
    /\ task' = [t \in Task |-> Idle]
    /\ bytes' = [i \in Inode |-> IF \E p \in Path : file[p] = i THEN bytes[i] ELSE <<>>]
    /\ sweep' = {}
    /\ UNCHANGED <<file, stored, accepts>>

TaskStep(t) ==
    \/ AcceptSized(t) \/ AcceptHold(t) \/ AcceptOpen(t) \/ AcceptRegister(t) \/ TakeSlot(t)
    \/ Fetch(t) \/ Copy(t) \/ Finish(t) \/ Ingest(t) \/ Settle(t) \/ Wait(t)

Next ==
    \/ \E t \in Task : \/ \E s \in Source : Accept(t, s)
                       \/ TaskStep(t) \/ ClientAttach(t) \/ ClientDetach(t)
    \/ SweepBegin \/ SweepUnlink \/ Crash

\* Goroutines run, attempts are bounded, a sweep ends; nothing else is due.
Fairness == (\A t \in Task : WF_vars(TaskStep(t))) /\ WF_vars(SweepUnlink)

Spec == Init /\ [][Next]_vars /\ Fairness

-----------------------------------------------------------------------------
\* Whoever holds a spool reads the bytes its writer appended, whatever is
\* adopted, spilled, unlinked or swept around it: no two writers share a file.
BytesStable == \A t \in Task : holds[t] # {} => View(t) = flight[t].shown

\* A registered flight's spool is live: whoever finds it can still hold it.
RegisteredLive == \A p \in Path : flights[p] # None => ~Retired(flights[p])

\* A follower that knows its length follows a download of that length.
FollowersSized ==
    \A t \in Task :
      task[t].pc = "wait" /\ task[t].at # t /\ Src(t).size >= 0
        => flight[task[t].at].size = Src(t).size

\* Sweep unlinks no file of a registered flight.
SweepSparesFlights ==
    [][\A p \in Path : p \in sweep \ sweep' /\ file'[p] # file[p] => flights[p] = None]_vars

\* Every task settles: no follower hangs on its writer, no length waiter on
\* its leader, no writer on the slots.
Settles == \A t \in Task : task[t].pc \notin {"idle", "settled"} ~> task[t].pc \in {"idle", "settled"}

\* What the tasks see implements Delivery.
Promise == INSTANCE Delivery WITH
    Caller <- Task, Body <- Content,
    asked <- [t \in Task |-> task[t].src], got <- [t \in Task |-> task[t].got], kept <- stored
\* A caller is settled once, with a failure or with stored content that its
\* own source described, whichever flight it attached to.
Delivers == Promise!DeliverySpec

\* Whoever finds a flight can follow it, follows the length it expects, and
\* reads what its writer appended.
SpoolSound == TypeOK /\ BytesStable /\ RegisteredLive /\ FollowersSized
=============================================================================
