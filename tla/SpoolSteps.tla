----------------------------- MODULE SpoolSteps -----------------------------
(***************************************************************************)
(* The inductive invariant of Spool, the lemmas about sequences its proof  *)
(* rests on, and its preservation by the writer's steps and by the first   *)
(* stages of Accept.                                                       *)
(***************************************************************************)
EXTENDS Spool, TLAPS

\* A task that has not joined or registered a flight yet.
Before == {"idle", "sized", "hold", "open", "register"}
\* A writer whose body has not all come.
Unfinished == {"slot", "fetch", "copy", "finish"}
\* A writer whose flight is registered.
Active == Unfinished \cup {"ingest", "settle"}

\* What a task, and a flight, consist of.
TaskRecord ==
    [pc : Stage, src : Source \cup {None}, at : Task \cup {None}, path : Path \cup {None},
     inode : Inode \cup {None}, body : Content \cup {None}, tries : 0 .. MaxAttempts,
     err : BOOLEAN, got : Content \cup {None, Failed}]
FlightRecord ==
    [path : Path \cup {None}, inode : Inode \cup {None}, shown : Content, size : Int,
     sized : BOOLEAN, closed : BOOLEAN, done : BOOLEAN, res : Content \cup {None, Failed}]

\* The types of the state.
Types ==
    /\ file \in [Path -> Inode \cup {None}]
    /\ bytes \in [Inode -> Content]
    /\ flights \in [Path -> Task \cup {None}]
    /\ flight \in [Task -> FlightRecord]
    /\ holds \in [Task -> SUBSET Holder]
    /\ openMu \in Task \cup {Sweeper, None}
    /\ task \in [Task -> TaskRecord]
    /\ stored \subseteq Content
    /\ sweep \subseteq Path

\* What a task knows of itself at each stage.
StageOk(t) ==
    /\ task[t].pc = "idle" => task[t].src = None
    /\ task[t].pc # "idle" => task[t].src \in Source
    /\ task[t].pc # "settled" => task[t].got = None
    /\ task[t].pc \in Before \cup {"slot", "fetch", "copy"} => task[t].tries < MaxAttempts
    /\ task[t].pc = "copy" => task[t].body \in Seq(Byte) /\ flight[t].shown \o task[t].body \in Content
    /\ task[t].pc \in Before => task[t].at # t
    /\ task[t].pc \in {"sized", "hold"} => task[t].at # None
    /\ task[t].pc \in Active => task[t].at = t
    /\ task[t].pc \in Active \cup {"wait"} => task[t].at # None /\ t \in holds[task[t].at]
\* Every task knows that of itself.
Stages == \A t \in Task : StageOk(t)

\* A leader writes its own flight, and a task that writes none has none.
Leaders ==
    \A t \in Task :
      /\ task[t].at # None => task[task[t].at].at = task[t].at
      /\ task[t].at # t => flight[t] = NoFlight /\ holds[t] = {}

\* The flights registered are those being written, and only they are open; the
\* outcome is there when they are announced; what nobody holds is retired.
Flights ==
    /\ \A p \in Path : flights[p] # None => task[flights[p]].pc \in Active /\ flight[flights[p]].path = p
    /\ \A t \in Task : task[t].at = t =>
         /\ flight[t].path \in Path
         /\ task[t].pc \in Active => flights[flight[t].path] = t
         /\ flight[t].closed <=> task[t].pc \notin Unfinished
         /\ task[t].pc \in {"settle", "wait", "settled"}
              => flight[t].res = Failed \/ flight[t].res \in stored \cup {<<>>}
         /\ flight[t].done => task[t].pc \in {"wait", "settled"}
    /\ \A t \in Task : holds[t] = {} => flight[t].inode = None

\* A follower with a length has found its leader's.
Sized ==
    \A t \in Task :
      task[t].pc \in {"hold", "wait"} /\ task[t].at # t /\ task[t].src.size >= 0
        => flight[task[t].at].size = task[t].src.size

\* openMu: one task at a time between open and register, and no sweep then.
Locked ==
    /\ \A t \in Task : task[t].pc = "register" =>
         /\ openMu = t /\ task[t].path \in Path
         /\ flights[task[t].path] = None /\ file[task[t].path] \in {None, task[t].inode}
    /\ \A t \in Task : task[t].pc # "register" => task[t].inode = None
    /\ sweep # {} => openMu = Sweeper
    /\ \A p \in sweep : flights[p] = None

\* A file belongs to one path: its name, and every flight that has it open or
\* task about to, agree on it.
OnePath ==
    /\ \A p, q \in Path : file[p] # None /\ file[p] = file[q] => p = q
    /\ \A t \in Task : flight[t].inode # None =>
         /\ \A p \in Path : file[p] = flight[t].inode => p = flight[t].path
         /\ \A u \in Task : flight[u].inode = flight[t].inode => flight[u].path = flight[t].path
         /\ \A u \in Task : task[u].inode = flight[t].inode => task[u].path = flight[t].path
    /\ \A t \in Task : task[t].inode # None =>
         \A p \in Path : file[p] = task[t].inode => p = task[t].path

\* a is what b starts with.
Prefix(a, b) == Len(a) <= Len(b) /\ \A k \in 1 .. Len(a) : a[k] = b[k]

\* A writer in memory has no file to spill over, one with a file has written
\* all of it, and every holder's bytes are still there.
Contents ==
    \A t \in Task :
      /\ task[t].pc \in Unfinished /\ flight[t].inode = None => file[flight[t].path] = None
      /\ task[t].pc \in Active /\ flight[t].inode # None => bytes[flight[t].inode] = flight[t].shown
      /\ flight[t].inode # None => Prefix(flight[t].shown, bytes[flight[t].inode])

\* The inductive invariant of the spool.
SpoolInv == Types /\ Stages /\ Leaders /\ Flights /\ Sized /\ Locked /\ OnePath /\ Contents

-----------------------------------------------------------------------------
(* The constants.                                                          *)

\* Names and identities are told apart.
LEMMA Apart ==
    /\ None \notin Task /\ None \notin Source /\ None \notin Path /\ None \notin Inode
    /\ Sweeper # None /\ Sweeper \notin Task
    /\ \A t, u \in Task : Reader(t) # u
  BY SpoolAssumption, Zenon

\* The numbers among the constants.
LEMMA Numbers == MaxAttempts \in Nat \ {0} /\ \A s \in Source : s.size \in Int
  BY SpoolAssumption, Zenon

-----------------------------------------------------------------------------
(* Sequences of bytes.                                                     *)

\* A sequence is a function on its indices.
LEMMA LenOf ==
    ASSUME NEW S, NEW q \in Seq(S)
    PROVE  Len(q) \in Nat /\ DOMAIN q = 1 .. Len(q) /\ q \in [1 .. Len(q) -> S]
  OBVIOUS

\* The empty sequence is the one of length 0.
LEMMA EmptyOf ==
    ASSUME NEW S
    PROVE  <<>> \in Seq(S) /\ Len(<<>>) = 0 /\ \A q \in Seq(S) : q # <<>> => Len(q) \in Nat \ {0}
  OBVIOUS

\* Sequences equal at each index are equal.
LEMMA EqualOf ==
    ASSUME NEW S, NEW p \in Seq(S), NEW q \in Seq(S), Len(p) = Len(q),
           \A k \in 1 .. Len(p) : p[k] = q[k]
    PROVE  p = q
  OBVIOUS

\* What a concatenation starts with.
LEMMA ConcatOf ==
    ASSUME NEW S, NEW p \in Seq(S), NEW q \in Seq(S)
    PROVE  /\ p \o q \in Seq(S) /\ Len(p \o q) = Len(p) + Len(q)
           /\ \A k \in 1 .. Len(p) : (p \o q)[k] = p[k]
  OBVIOUS

\* Nothing appended.
LEMMA ConcatNone ==
    ASSUME NEW S, NEW q \in Seq(S)
    PROVE  q \o <<>> = q
  OBVIOUS

\* A part of a sequence.
LEMMA SubSeqOf ==
    ASSUME NEW S, NEW q, NEW m \in Int, NEW n \in Int, \A k \in m .. n : q[k] \in S
    PROVE  /\ SubSeq(q, m, n) \in Seq(S)
           /\ Len(SubSeq(q, m, n)) = IF m <= n THEN n - m + 1 ELSE 0
           /\ \A k \in 1 .. n - m + 1 : SubSeq(q, m, n)[k] = q[m + k - 1]
  OBVIOUS

\* A sequence is its head and its tail.
LEMMA HeadTailOf ==
    ASSUME NEW S, NEW q \in Seq(S), q # <<>>
    PROVE  Head(q) \in S /\ Tail(q) \in Seq(S) /\ Len(Tail(q)) = Len(q) - 1
  OBVIOUS

\* The lengths of what a spool can hold.
Lengths == {0} \cup UNION {0 .. Len(b) : b \in Upstream}

\* Whatever is shorter than a spool's contents can be a spool's contents.
LEMMA LengthsDown ==
    /\ Lengths \subseteq Nat /\ 0 \in Lengths
    /\ \A n \in Lengths, m \in Nat : m <= n => m \in Lengths
    /\ \A b \in Upstream : Len(b) \in Lengths
<1>1. \A b \in Upstream : b \in Seq(Byte) /\ Len(b) \in Nat
  BY SpoolAssumption, LenOf, Zenon
<1> QED BY <1>1 DEF Lengths

\* The contents of a spool are sequences of the upstream's bytes.
LEMMA ContentIs == \A c : c \in Content <=> c \in Seq(Byte) /\ Len(c) \in Lengths
<1>1. ASSUME NEW c, c \in Content
      PROVE  c \in Seq(Byte) /\ Len(c) \in Lengths
  <2>1. PICK n \in Lengths : c \in [1 .. n -> Byte]
    BY <1>1, Zenon DEF Content, Lengths
  <2>2. n \in Nat
    BY LengthsDown, Zenon
  <2> QED BY <2>1, <2>2
<1>2. ASSUME NEW c, c \in Seq(Byte), Len(c) \in Lengths
      PROVE  c \in Content
  <2>1. c \in [1 .. Len(c) -> Byte]
    BY <1>2, LenOf, Zenon
  <2> QED BY <1>2, <2>1, Zenon DEF Content, Lengths
<1> QED BY <1>1, <1>2, Zenon

\* An empty spool.
LEMMA EmptyContent == <<>> \in Content
  BY ContentIs, LengthsDown, EmptyOf, Zenon

\* What is no longer than some content can be spooled as well.
LEMMA ShortContent ==
    ASSUME NEW c \in Content, NEW d \in Seq(Byte), Len(d) <= Len(c)
    PROVE  d \in Content
<1>1. Len(c) \in Lengths /\ Len(d) \in Nat
  BY ContentIs, LenOf, Zenon
<1> QED BY <1>1, ContentIs, LengthsDown, Zenon

\* The part of a body past what is spooled.
LEMMA RestContent ==
    ASSUME NEW c \in Content, NEW b \in Upstream, Len(c) <= Len(b)
    PROVE  /\ Rest(b, Len(c)) \in Seq(Byte) /\ Rest(b, Len(c)) \in Content
           /\ c \o Rest(b, Len(c)) \in Content
<1> DEFINE r == Rest(b, Len(c))
<1>1. /\ c \in Seq(Byte) /\ Len(c) \in Nat /\ b \in Seq(Byte) /\ Len(b) \in Nat /\ Len(b) \in Lengths
  BY ContentIs, LenOf, SpoolAssumption, LengthsDown, Zenon
<1>2. r \in Seq(Byte) /\ Len(r) = Len(b) - Len(c)
  <2>1. CASE Len(c) = Len(b)
    BY <1>1, <2>1, SubSeqOf DEF Rest
  <2>2. CASE Len(c) < Len(b)
    BY <1>1, <2>2, SubSeqOf DEF Rest
  <2> QED BY <1>1, <2>1, <2>2
<1> HIDE DEF r
<1>3. c \o r \in Seq(Byte) /\ Len(c \o r) = Len(b)
  BY <1>1, <1>2, ConcatOf
<1>4. Len(r) \in Lengths
  BY <1>1, <1>2, LengthsDown
<1> QED BY <1>1, <1>2, <1>3, <1>4, ContentIs, Zenon DEF r

\* One byte of the body moves to the spool.
LEMMA MoveByte ==
    ASSUME NEW c \in Content, NEW d \in Seq(Byte), d # <<>>, c \o d \in Content
    PROVE  /\ Head(d) \in Byte /\ Tail(d) \in Seq(Byte) /\ Tail(d) \in Content
           /\ c \o <<Head(d)>> \in Content
           /\ (c \o <<Head(d)>>) \o Tail(d) \in Content
<1>1. /\ c \in Seq(Byte) /\ Len(c) \in Nat /\ Len(d) \in Nat \ {0}
      /\ c \o d \in Content /\ Len(c \o d) = Len(c) + Len(d)
  BY ContentIs, LenOf, EmptyOf, ConcatOf
<1>2. Head(d) \in Byte /\ Tail(d) \in Seq(Byte) /\ Len(Tail(d)) = Len(d) - 1
  BY HeadTailOf, Zenon
<1> DEFINE h == Head(d) r == Tail(d)
<1> HIDE DEF h, r
<1>3. <<h>> \in Seq(Byte) /\ Len(<<h>>) = 1
  BY <1>2 DEF h
<1>4. c \o <<h>> \in Seq(Byte) /\ Len(c \o <<h>>) = Len(c) + 1
  BY <1>1, <1>3, ConcatOf
<1>5. (c \o <<h>>) \o r \in Seq(Byte) /\ Len((c \o <<h>>) \o r) = Len(c) + Len(d)
  BY <1>1, <1>2, <1>4, ConcatOf DEF r
<1> DEFINE a == c \o d
           x == c \o <<h>>
           y == (c \o <<h>>) \o r
<1>6. /\ a \in Content /\ x \in Seq(Byte) /\ y \in Seq(Byte) /\ r \in Seq(Byte)
      /\ Len(x) <= Len(a) /\ Len(y) <= Len(a) /\ Len(r) <= Len(a)
  BY <1>1, <1>2, <1>4, <1>5 DEF r
<1> HIDE DEF a, x, y
<1>7. x \in Content /\ y \in Content /\ r \in Content
  BY <1>6, ShortContent, Zenon
<1> QED BY <1>2, <1>7, Zenon DEF h, r, x, y

\* Writing at the end of a file appends to it.
LEMMA WriteEnd ==
    ASSUME NEW c \in Seq(Byte), NEW b \in Byte, NEW t, flight[t].shown = c
    PROVE  WriteAt(c, t, b) = c \o <<b>>
<1>1. Len(c) \in Nat /\ Written(t) = Len(c)
  BY LenOf, Zenon DEF Written
<1>2. SubSeq(c, 1, Len(c)) = c
  BY <1>1, SubSeqOf, EqualOf
<1>3. SubSeq(c, Len(c) + 2, Len(c)) = <<>>
  BY <1>1, SubSeqOf, EmptyOf
<1>4. c \o <<b>> \in Seq(Byte)
  BY ConcatOf
<1>5. (c \o <<b>>) \o <<>> = c \o <<b>>
  BY <1>4, ConcatNone, Zenon
<1> QED BY <1>1, <1>2, <1>3, <1>5, Zenon DEF WriteAt

\* A prefix of a file is one of the file written past it.
LEMMA PrefixAppend ==
    ASSUME NEW a \in Seq(Byte), NEW c \in Seq(Byte), NEW b \in Byte, Prefix(a, c)
    PROVE  Prefix(a, c \o <<b>>)
<1>1. Len(a) \in Nat /\ Len(c) \in Nat
  BY LenOf, Zenon
<1>2. Len(c \o <<b>>) = Len(c) + 1 /\ \A k \in 1 .. Len(c) : (c \o <<b>>)[k] = c[k]
  BY <1>1, ConcatOf
<1> QED BY <1>1, <1>2 DEF Prefix

\* A reader sees all that was appended while the file starts with it.
LEMMA ViewPrefix ==
    ASSUME NEW t, flight[t].shown \in Content,
           flight[t].inode # None =>
             bytes[flight[t].inode] \in Content /\ Prefix(flight[t].shown, bytes[flight[t].inode])
    PROVE  View(t) = flight[t].shown
<1> DEFINE s == flight[t].shown
           c == bytes[flight[t].inode]
<1>1. CASE flight[t].inode = None
  BY <1>1, Zenon DEF View
<1>2. CASE flight[t].inode # None
  <2>1. s \in Seq(Byte) /\ Len(s) \in Nat /\ c \in Seq(Byte) /\ Len(c) \in Nat
    BY <1>2, ContentIs, LenOf, Zenon
  <2>2. Len(s) <= Len(c) /\ \A k \in 1 .. Len(s) : s[k] = c[k]
    BY <1>2, Zenon DEF Prefix
  <2>3. View(t) = SubSeq(c, 1, Len(s))
    BY <1>2, <2>1, <2>2 DEF View, Written
  <2> HIDE DEF s, c
  <2>4. SubSeq(c, 1, Len(s)) \in Seq(Byte) /\ Len(SubSeq(c, 1, Len(s))) = Len(s)
        /\ \A k \in 1 .. Len(s) : SubSeq(c, 1, Len(s))[k] = c[k]
    BY <2>1, <2>2, SubSeqOf
  <2>5. SubSeq(c, 1, Len(s)) = s
    BY <2>1, <2>2, <2>4, EqualOf, Zenon
  <2> QED BY <2>3, <2>5, Zenon DEF s
<1> QED BY <1>1, <1>2, Zenon

\* Some identity is free, and Fresh is one.
FreshFree ==
    /\ Fresh \in Inode
    /\ \A p \in Path : file[p] # Fresh
    /\ \A t \in Task : holds[t] # {} => flight[t].inode # Fresh
    /\ \A t \in Task : task[t].inode # Fresh

-----------------------------------------------------------------------------
(* The initial state and a restart: no task, no flight.                     *)

\* Files as they may be, and nothing running.
Quiet ==
    /\ file \in [Path -> Inode \cup {None}] /\ bytes \in [Inode -> Content] /\ stored \subseteq Content
    /\ \A p, q \in Path : file[p] # None /\ file[p] = file[q] => p = q
    /\ flights = [p \in Path |-> None]
    /\ flight = [t \in Task |-> NoFlight]
    /\ holds = [t \in Task |-> {}]
    /\ openMu = None
    /\ task = [t \in Task |-> Idle]
    /\ sweep = {}

\* A state with no task and no flight: the initial one, and after a crash.
LEMMA QuietInv == Quiet => SpoolInv
<1> SUFFICES ASSUME Quiet
             PROVE  SpoolInv
  BY Zenon
<1>1. NoFlight \in FlightRecord
  BY EmptyContent DEF NoFlight, FlightRecord
<1>2. Idle \in TaskRecord
  BY Numbers DEF Idle, TaskRecord, Stage
<1>3. /\ \A t \in Task : task[t] = Idle /\ flight[t] = NoFlight /\ holds[t] = {}
      /\ \A p \in Path : flights[p] = None
  BY Zenon DEF Quiet
<1>4. /\ Idle.pc = "idle" /\ Idle.src = None /\ Idle.at = None /\ Idle.inode = None /\ Idle.got = None
      /\ Idle.tries < MaxAttempts /\ NoFlight.inode = None /\ None \notin Task
  BY Apart, Numbers DEF Idle, NoFlight
<1>5. Types
  BY <1>1, <1>2, Zenon DEF Quiet, Types
<1>6. Stages
  BY <1>3, <1>4, Zenon DEF Stages, StageOk, Before, Active, Unfinished
<1>7. Leaders
  BY <1>3, <1>4, Zenon DEF Leaders
<1>8. Flights
  BY <1>3, <1>4, Zenon DEF Flights
<1>9. Sized
  BY <1>3, <1>4, Zenon DEF Sized
<1>10. Locked
  BY <1>3, <1>4, Zenon DEF Locked, Quiet
<1>11. OnePath
  BY <1>3, <1>4, Zenon DEF OnePath, Quiet
<1>12. Contents
  BY <1>3, <1>4, Zenon DEF Contents, Active, Unfinished
<1> QED BY <1>5, <1>6, <1>7, <1>8, <1>9, <1>10, <1>11, <1>12, Zenon DEF SpoolInv

\* The same after a step.
LEMMA QuietInvPrime == Quiet' => SpoolInv'
  BY QuietInv, PTL

\* Initially.
LEMMA InitInv == Init => SpoolInv
<1> SUFFICES ASSUME Init
             PROVE  Quiet
  BY QuietInv, Zenon
<1> QED BY EmptyContent, Zenon DEF Init, Quiet

-----------------------------------------------------------------------------
(* A writer's steps that move neither bytes nor holds.                      *)

\* A writer moves on, and nothing but its own task and flight changes.
LEMMA ActiveMove ==
    ASSUME SpoolInv, NEW t \in Task, UNCHANGED <<file, bytes, flights, holds, openMu, sweep>>,
           NEW v \in TaskRecord, task' = [task EXCEPT ![t] = v],
           NEW w \in FlightRecord, flight' = [flight EXCEPT ![t] = w],
           stored \subseteq stored', stored' \subseteq Content,
           task[t].pc \in Active, v.pc \in Active, task[t].pc \notin Unfinished => v.pc \notin Unfinished,
           v.src = task[t].src, v.at = task[t].at, v.inode = task[t].inode, v.got = task[t].got,
           v.pc \in {"slot", "fetch", "copy"} => v.tries < MaxAttempts,
           v.pc = "copy" => v.body \in Seq(Byte) /\ w.shown \o v.body \in Content,
           w.path = flight[t].path, w.inode = flight[t].inode, w.shown = flight[t].shown,
           flight[t].size >= 0 => w.size = flight[t].size,
           w.closed <=> v.pc \notin Unfinished, ~w.done,
           v.pc = "settle" => w.res = Failed \/ w.res \in stored' \cup {<<>>}
    PROVE  SpoolInv'
<1>1. Types /\ Stages /\ Leaders /\ Flights /\ Sized /\ Locked /\ OnePath /\ Contents
  BY Zenon DEF SpoolInv
<1>2. /\ task'[t] = v /\ \A u \in Task : u # t => task'[u] = task[u]
      /\ task' \in [Task -> TaskRecord]
  BY <1>1, Zenon DEF Types
<1>3. /\ flight'[t] = w /\ \A u \in Task : u # t => flight'[u] = flight[u]
      /\ flight' \in [Task -> FlightRecord]
  BY <1>1, Zenon DEF Types
<1>4. /\ file' = file /\ bytes' = bytes /\ flights' = flights /\ holds' = holds /\ openMu' = openMu
      /\ sweep' = sweep
  BY Zenon
<1>5. /\ task[t].pc \notin Before \cup {"wait", "settled"} /\ task[t].at = t /\ v.at = t
      /\ v.pc \notin Before \cup {"wait", "settled"}
  BY <1>1, Zenon DEF Stages, StageOk, Before, Active, Unfinished
<1>6. \A u \in Task : /\ task'[u].at = task[u].at /\ task'[u].src = task[u].src
                      /\ task'[u].inode = task[u].inode
                      /\ flight'[u].path = flight[u].path /\ flight'[u].inode = flight[u].inode
                      /\ flight'[u].shown = flight[u].shown
  BY <1>2, <1>3, Zenon
<1>7. Types'
  BY <1>1, <1>2, <1>3, <1>4, Zenon DEF Types
<1>8. Stages'
  <2>1. SUFFICES ASSUME NEW u \in Task
                 PROVE  StageOk(u)'
    BY Zenon DEF Stages
  <2>2. CASE u = t
    BY <1>1, <1>2, <1>3, <1>4, <1>5, <2>2 DEF Stages, StageOk, Before
  <2>3. CASE u # t
    BY <1>1, <1>2, <1>3, <1>4, <2>3 DEF Stages, StageOk
  <2> QED BY <2>2, <2>3, Zenon
<1>9. Leaders'
  BY <1>1, <1>2, <1>3, <1>4, <1>5, <1>6 DEF Leaders, Types
<1>10. Flights'
  BY <1>1, <1>2, <1>3, <1>4, <1>5, <1>6 DEF Flights, Types
<1>11. Sized'
  BY <1>1, <1>2, <1>3, <1>5, <1>6 DEF Sized, Stages, StageOk, Types
<1>12. Locked'
  BY <1>1, <1>2, <1>4, <1>5, <1>6 DEF Locked, Before
<1>13. OnePath'
  <2>1. task'[t].inode = None
    BY <1>1, <1>2, <1>5, Zenon DEF Locked, Before
  <2> QED BY <1>1, <1>2, <1>4, <1>6, <2>1 DEF OnePath
<1>14. Contents'
  BY <1>1, <1>2, <1>4, <1>5, <1>6 DEF Contents
<1> QED BY <1>7, <1>8, <1>9, <1>10, <1>11, <1>12, <1>13, <1>14, Zenon DEF SpoolInv

\* What the invariant says of a writer.
LEMMA ActiveFacts ==
    ASSUME SpoolInv, NEW t \in Task, task[t].pc \in Active
    PROVE  /\ task[t] \in TaskRecord /\ task \in [Task -> TaskRecord]
           /\ flight[t] \in FlightRecord /\ flight = [flight EXCEPT ![t] = flight[t]]
           /\ flight[t].shown \in Content /\ View(t) = flight[t].shown /\ Len(flight[t].shown) \in Nat
           /\ task[t].at = t /\ task[t].got = None /\ t \in holds[t] /\ task[t].inode = None
           /\ task[t].src \in Source /\ task[t].src.size \in Int
           /\ flight[t].path \in Path /\ flights[flight[t].path] = t
           /\ flight[t].closed <=> task[t].pc \notin Unfinished
           /\ ~flight[t].done
           /\ task[t].pc \in {"slot", "fetch", "copy"} => task[t].tries < MaxAttempts
           /\ stored \subseteq Content
<1>1. Types /\ Stages /\ Flights /\ Locked /\ Contents
  BY Zenon DEF SpoolInv
<1>2. /\ task[t] \in TaskRecord /\ task \in [Task -> TaskRecord]
      /\ flight[t] \in FlightRecord /\ flight = [flight EXCEPT ![t] = flight[t]]
      /\ stored \subseteq Content
  BY <1>1, Zenon DEF Types
<1>3. task[t].pc \notin {"idle", "settled", "register", "wait"}
  BY Zenon DEF Active, Unfinished
<1>4. /\ task[t].at = t /\ task[t].got = None /\ t \in holds[t] /\ task[t].inode = None
      /\ task[t].src \in Source
      /\ task[t].pc \in {"slot", "fetch", "copy"} => task[t].tries < MaxAttempts
  BY <1>1, <1>3, Zenon DEF Stages, StageOk, Locked
<1>5. /\ flight[t].path \in Path /\ flights[flight[t].path] = t
      /\ flight[t].closed <=> task[t].pc \notin Unfinished
      /\ ~flight[t].done
  BY <1>1, <1>3, <1>4, Zenon DEF Flights
<1>6. task[t].src.size \in Int
  BY <1>4, Numbers, Zenon
<1>7. flight[t].shown \in Content /\ Len(flight[t].shown) \in Nat
  BY <1>2, ContentIs, LenOf, Zenon DEF FlightRecord
<1>8. View(t) = flight[t].shown
  <2>1. flight[t].inode # None => bytes[flight[t].inode] \in Content
    BY <1>1, <1>2, Zenon DEF Types, FlightRecord
  <2> QED BY <1>1, <1>7, <2>1, ViewPrefix, Zenon DEF Contents
<1> QED BY <1>2, <1>4, <1>5, <1>6, <1>7, <1>8, Zenon

\* A writer takes a slot.
LEMMA TakeSlotKeeps ==
    ASSUME SpoolInv, NEW t \in Task, TakeSlot(t)
    PROVE  SpoolInv'
<1>1. task[t].pc = "slot" /\ task[t].pc \in Active
  BY Zenon DEF TakeSlot, Active, Unfinished
<1>2. PICK pc \in {"finish", "fetch"} : task' = [task EXCEPT ![t].pc = pc]
  BY Zenon DEF TakeSlot, Goto
<1> DEFINE v == [task[t] EXCEPT !.pc = pc]
<1>3. v \in TaskRecord /\ task' = [task EXCEPT ![t] = v]
  BY <1>1, <1>2, ActiveFacts DEF TaskRecord, Stage
<1>4. /\ v.pc = pc /\ v.src = task[t].src /\ v.at = task[t].at /\ v.inode = task[t].inode
      /\ v.got = task[t].got /\ v.tries = task[t].tries
  BY <1>1, ActiveFacts DEF TaskRecord
<1>5. UNCHANGED <<file, bytes, flights, flight, holds, openMu, sweep, stored>>
  BY Zenon DEF TakeSlot, diskVars
<1>6. pc \in Active /\ pc \in Unfinished /\ "slot" \in Unfinished
  BY Zenon DEF Active, Unfinished
<1> HIDE DEF v
<1> QED BY <1>1, <1>3, <1>4, <1>5, <1>6, ActiveFacts, ActiveMove, Zenon

\* An attempt that failed, with or without another one to come.
LEMMA RetryKeeps ==
    ASSUME SpoolInv, NEW t \in Task, task[t].pc \in {"fetch", "copy"}, Retry(t),
           UNCHANGED <<file, bytes, flights, flight, holds, openMu, sweep, stored>>
    PROVE  SpoolInv'
<1>1. task[t].pc \in Active /\ task[t].pc \in Unfinished
  BY Zenon DEF Active, Unfinished
<1> DEFINE n == task[t].tries + 1
           last == n = MaxAttempts
           pc == IF n = MaxAttempts THEN "finish" ELSE "fetch"
           v == [task[t] EXCEPT !.tries = n, !.body = None, !.err = last, !.pc = pc]
<1>2. n \in 0 .. MaxAttempts
  BY <1>1, ActiveFacts, Numbers DEF TaskRecord
<1>3. last \in BOOLEAN /\ pc \in {"finish", "fetch"} /\ (pc = "fetch" => n < MaxAttempts)
  BY <1>2, Numbers
<1>4. v \in TaskRecord /\ task' = [task EXCEPT ![t] = v]
  <2>1. task' = [task EXCEPT ![t] = v]
    BY Zenon DEF Retry
  <2> HIDE DEF last, pc, n
  <2>2. task[t] \in TaskRecord
    BY <1>1, ActiveFacts, Zenon
  <2>3. v \in TaskRecord
    BY <1>2, <1>3, <2>2, Zenon DEF TaskRecord, Stage
  <2> QED BY <2>1, <2>3, Zenon
<1>5. /\ v.pc \in {"finish", "fetch"} /\ v.src = task[t].src /\ v.at = task[t].at
      /\ v.inode = task[t].inode
      /\ v.got = task[t].got /\ (v.pc = "fetch" => v.tries < MaxAttempts)
  BY <1>1, <1>3, ActiveFacts DEF TaskRecord
<1>6. v.pc \in Active /\ v.pc \in Unfinished
  BY <1>5, Zenon DEF Active, Unfinished
<1> HIDE DEF v
<1> QED BY <1>1, <1>4, <1>5, <1>6, ActiveFacts, ActiveMove, Zenon

\* The response to a request from the spool's end.
LEMMA FetchKeeps ==
    ASSUME SpoolInv, NEW t \in Task, Fetch(t)
    PROVE  SpoolInv'
<1>1. task[t].pc = "fetch" /\ task[t].pc \in Active /\ task[t].pc \in Unfinished
  BY Zenon DEF Fetch, Active, Unfinished
<1>2. UNCHANGED <<file, bytes, flights, holds, openMu, sweep, stored>>
  BY Zenon DEF Fetch, diskVars
<1>3. CASE Retry(t) /\ UNCHANGED flight
  BY <1>1, <1>2, <1>3, RetryKeeps, Zenon
<1>4. ASSUME NEW b \in Upstream, Len(b) >= Written(t),
             task' = [task EXCEPT ![t].pc = "copy", ![t].body = Rest(b, Written(t))],
             SetSize(t, Len(b)) \/ UNCHANGED flight
      PROVE  SpoolInv'
  <2> DEFINE r == Rest(b, Written(t))
             v == [task[t] EXCEPT !.pc = "copy", !.body = r]
             w == flight'[t]
  <2>1. Written(t) \in Nat /\ Len(b) \in Nat /\ Written(t) = Len(flight[t].shown)
    BY <1>1, ActiveFacts, Apart, LenOf DEF Written
  <2>2. r \in Seq(Byte) /\ r \in Content /\ flight[t].shown \o r \in Content
    BY <1>1, <1>4, <2>1, ActiveFacts, RestContent, Zenon
  <2> HIDE DEF r
  <2>3. task[t] \in TaskRecord /\ flight[t] \in FlightRecord /\ flight \in [Task -> FlightRecord]
    BY <1>1, ActiveFacts, Zenon DEF SpoolInv, Types
  <2>4. v \in TaskRecord /\ task' = [task EXCEPT ![t] = v]
    <3>1. v \in TaskRecord
      BY <2>2, <2>3, Zenon DEF TaskRecord, Stage
    <3>2. task' = [task EXCEPT ![t] = v]
      BY <1>4, Zenon DEF r
    <3> QED BY <3>1, <3>2, Zenon
  <2>5. /\ v.pc = "copy" /\ v.src = task[t].src /\ v.at = task[t].at /\ v.inode = task[t].inode
        /\ v.got = task[t].got /\ v.tries = task[t].tries /\ v.body = r
    BY <1>1, ActiveFacts DEF TaskRecord
  <2>6. v.pc \in Active /\ v.pc \in Unfinished
    BY <2>5, Zenon DEF Active, Unfinished
  <2>7. /\ w \in FlightRecord /\ flight' = [flight EXCEPT ![t] = w]
        /\ w.path = flight[t].path /\ w.inode = flight[t].inode /\ w.shown = flight[t].shown
        /\ flight[t].size >= 0 => w.size = flight[t].size
        /\ ~w.closed /\ ~w.done
    <3>1. CASE UNCHANGED flight
      BY <1>1, <3>1, ActiveFacts, Zenon
    <3>2. CASE SetSize(t, Len(b))
      <4> DEFINE n == IF flight[t].size < 0 THEN Len(b) ELSE flight[t].size
                 x == [flight[t] EXCEPT !.size = n, !.sized = TRUE]
      <4>1. flight' = [flight EXCEPT ![t] = x]
        BY <3>2, Zenon DEF SetSize
      <4>2. flight[t].size \in Int
        BY <2>3, Zenon DEF FlightRecord
      <4>3. n \in Int /\ (flight[t].size >= 0 => n = flight[t].size)
        BY <2>1, <4>2
      <4> HIDE DEF n
      <4>4. /\ x \in FlightRecord /\ x.path = flight[t].path /\ x.inode = flight[t].inode
            /\ x.shown = flight[t].shown
            /\ flight[t].size >= 0 => x.size = flight[t].size
            /\ x.closed = flight[t].closed /\ x.done = flight[t].done
        BY <2>3, <4>3, Zenon DEF FlightRecord
      <4>5. w = x
        BY <2>3, <4>1, Zenon
      <4> HIDE DEF x
      <4> QED BY <1>1, <4>1, <4>4, <4>5, ActiveFacts, Zenon
    <3> QED BY <1>4, <3>1, <3>2, Zenon
  <2> HIDE DEF v, w
  <2> QED BY <1>1, <1>2, <2>2, <2>4, <2>5, <2>6, <2>7, ActiveFacts, ActiveMove, Zenon
<1>5. Written(t) \in Nat /\ \A b \in Upstream : Len(b) \in Nat
  BY <1>1, ActiveFacts, Apart, LenOf DEF Written
<1> QED BY <1>3, <1>4, <1>5 DEF Fetch

\* The end of a response body.
LEMMA CopiedKeeps ==
    ASSUME SpoolInv, NEW t \in Task, task[t].pc = "copy",
           task' = [task EXCEPT ![t].body = None, ![t].pc = "finish"],
           UNCHANGED <<file, bytes, flights, flight, holds, openMu, sweep, stored>>
    PROVE  SpoolInv'
<1>1. task[t].pc \in Active /\ task[t].pc \in Unfinished
  BY Zenon DEF Active, Unfinished
<1> DEFINE v == [task[t] EXCEPT !.body = None, !.pc = "finish"]
<1>2. task[t] \in TaskRecord
  BY <1>1, ActiveFacts, Zenon
<1>3. v \in TaskRecord /\ task' = [task EXCEPT ![t] = v]
  BY <1>2, Zenon DEF TaskRecord, Stage
<1>4. /\ v.pc = "finish" /\ v.src = task[t].src /\ v.at = task[t].at /\ v.inode = task[t].inode
      /\ v.got = task[t].got
  BY <1>2, Zenon DEF TaskRecord
<1>5. v.pc \in Active /\ v.pc \in Unfinished
  BY <1>4, Zenon DEF Active, Unfinished
<1> HIDE DEF v
<1> QED BY <1>1, <1>3, <1>4, <1>5, ActiveFacts, ActiveMove, Zenon

\* Finish closes the writer and releases those that wait for the length.
LEMMA FinishKeeps ==
    ASSUME SpoolInv, NEW t \in Task, Finish(t)
    PROVE  SpoolInv'
<1>1. task[t].pc = "finish" /\ task[t].pc \in Active /\ task[t].pc \in Unfinished
  BY Zenon DEF Finish, Active, Unfinished
<1>2. /\ task[t] \in TaskRecord /\ flight[t] \in FlightRecord /\ Written(t) \in Nat
  BY <1>1, ActiveFacts, Zenon DEF Written
<1>3. UNCHANGED <<file, bytes, flights, holds, openMu, sweep, stored>>
  BY Zenon DEF Finish, diskVars
<1>4. ASSUME NEW pc \in {"settle", "ingest"}, Goto(t, pc),
             NEW w \in FlightRecord, flight' = [flight EXCEPT ![t] = w],
             w.path = flight[t].path, w.inode = flight[t].inode, w.shown = flight[t].shown,
             flight[t].size >= 0 => w.size = flight[t].size,
             w.closed, w.done = flight[t].done, pc = "settle" => w.res = Failed
      PROVE  SpoolInv'
  <2> DEFINE v == [task[t] EXCEPT !.pc = pc]
  <2>1. v \in TaskRecord /\ task' = [task EXCEPT ![t] = v]
    BY <1>2, <1>4 DEF TaskRecord, Stage, Goto
  <2>2. /\ v.pc = pc /\ v.src = task[t].src /\ v.at = task[t].at /\ v.inode = task[t].inode
        /\ v.got = task[t].got
    BY <1>2, Zenon DEF TaskRecord
  <2>3. /\ pc \in Active /\ pc \notin Unfinished
    BY Zenon DEF Active, Unfinished
  <2> HIDE DEF v
  <2> QED BY <1>1, <1>3, <1>4, <2>1, <2>2, <2>3, ActiveFacts, ActiveMove, Zenon
<1>5. CASE Goto(t, "settle") /\ flight' = [flight EXCEPT ![t].closed = TRUE, ![t].sized = TRUE, ![t].res = Failed]
  <2> DEFINE w == [flight[t] EXCEPT !.closed = TRUE, !.sized = TRUE, !.res = Failed]
  <2>1. /\ w \in FlightRecord /\ w.path = flight[t].path /\ w.inode = flight[t].inode
        /\ w.shown = flight[t].shown
        /\ w.size = flight[t].size /\ w.closed /\ w.done = flight[t].done /\ w.res = Failed
    BY <1>2, Zenon DEF FlightRecord
  <2>2. flight' = [flight EXCEPT ![t] = w]
    BY <1>5, Zenon
  <2> HIDE DEF w
  <2> QED BY <1>4, <1>5, <2>1, <2>2, Zenon
<1>6. CASE /\ Goto(t, "ingest") /\ (flight[t].size >= 0 => Written(t) = flight[t].size)
           /\ flight' = [flight EXCEPT ![t].closed = TRUE, ![t].sized = TRUE, ![t].size = Written(t)]
  <2> DEFINE n == Written(t)
             w == [flight[t] EXCEPT !.closed = TRUE, !.sized = TRUE, !.size = n]
  <2>1. n \in Int
    BY <1>2
  <2>2. flight' = [flight EXCEPT ![t] = w]
    BY <1>6, Zenon
  <2> HIDE DEF n
  <2>3. /\ w \in FlightRecord /\ w.path = flight[t].path /\ w.inode = flight[t].inode
        /\ w.shown = flight[t].shown
        /\ w.size = n /\ w.closed /\ w.done = flight[t].done
    BY <1>2, <2>1, Zenon DEF FlightRecord
  <2> HIDE DEF w
  <2> QED BY <1>4, <1>6, <2>3, <2>2, Zenon DEF n
<1> QED BY <1>5, <1>6, Zenon DEF Finish

\* ingest: the flight's bytes are stored before its result names them.
LEMMA IngestKeeps ==
    ASSUME SpoolInv, NEW t \in Task, Ingest(t)
    PROVE  SpoolInv'
<1>1. /\ task[t].pc = "ingest" /\ task[t].pc \in Active /\ task[t].pc \notin Unfinished
      /\ "settle" \in Active /\ "settle" \notin Unfinished
  BY Zenon DEF Ingest, Active, Unfinished
<1>2. /\ task[t] \in TaskRecord /\ flight[t] \in FlightRecord /\ View(t) \in Content
      /\ stored \subseteq Content
  BY <1>1, ActiveFacts, Zenon
<1>3. UNCHANGED <<file, bytes, flights, holds, openMu, sweep>>
  BY Zenon DEF Ingest, diskVars
<1> DEFINE v == [task[t] EXCEPT !.pc = "settle"]
<1>4. v \in TaskRecord /\ task' = [task EXCEPT ![t] = v]
  BY <1>2, Zenon DEF TaskRecord, Stage, Ingest, Goto
<1>5. /\ v.pc = "settle" /\ v.src = task[t].src /\ v.at = task[t].at /\ v.inode = task[t].inode
      /\ v.got = task[t].got
  BY <1>2, Zenon DEF TaskRecord
<1>6. PICK res \in Content \cup {Failed} :
         /\ flight' = [flight EXCEPT ![t].res = res]
         /\ res = Failed \/ res \in stored' \cup {<<>>}
         /\ stored \subseteq stored' /\ stored' \subseteq Content
  <2>1. CASE flight' = [flight EXCEPT ![t].res = View(t)] /\ stored' = IF View(t) = <<>> THEN stored ELSE stored \cup {View(t)}
    BY <1>2, <2>1, Zenon
  <2>2. CASE flight' = [flight EXCEPT ![t].res = Failed] /\ stored' = stored
    BY <1>2, <2>2, Zenon
  <2> QED BY <2>1, <2>2, Zenon DEF Ingest
<1> DEFINE w == [flight[t] EXCEPT !.res = res]
<1>7. /\ w \in FlightRecord /\ w.path = flight[t].path /\ w.inode = flight[t].inode
      /\ w.shown = flight[t].shown
      /\ w.size = flight[t].size /\ w.closed = flight[t].closed /\ w.done = flight[t].done /\ w.res = res
  BY <1>2, Zenon DEF FlightRecord
<1>8. flight' = [flight EXCEPT ![t] = w]
  BY <1>6, Zenon
<1>9. (w.closed <=> v.pc \notin Unfinished) /\ ~w.done
  BY <1>1, <1>5, <1>7, ActiveFacts, Zenon
<1>10. v.pc \in Active /\ v.pc \notin Unfinished /\ v.pc \notin {"slot", "fetch", "copy"}
  BY <1>1, <1>5, Zenon
<1>11. w.res = Failed \/ w.res \in stored' \cup {<<>>}
  BY <1>6, <1>7, Zenon
<1>12. stored \subseteq stored' /\ stored' \subseteq Content
  BY <1>6, Zenon
<1> HIDE DEF v, w
<1> QED BY <1>1, <1>3, <1>4, <1>5, <1>7, <1>8, <1>9, <1>10, <1>11, <1>12, ActiveMove, Zenon

\* The end of Finish: the flight leaves the register with its result set.
LEMMA SettleKeeps ==
    ASSUME SpoolInv, NEW t \in Task, Settle(t)
    PROVE  SpoolInv'
<1>1. Types /\ Stages /\ Leaders /\ Flights /\ Sized /\ Locked /\ OnePath /\ Contents
  BY Zenon DEF SpoolInv
<1>2. task[t].pc = "settle" /\ task[t].pc \in Active /\ task[t].pc \notin Unfinished
  BY Zenon DEF Settle, Active, Unfinished
<1>3. /\ task[t] \in TaskRecord /\ flight[t] \in FlightRecord /\ task[t].at = t /\ t \in holds[t]
      /\ flight[t].path \in Path /\ flights[flight[t].path] = t /\ task[t].inode = None
      /\ task[t].got = None
      /\ flight[t].closed
  BY <1>2, ActiveFacts, Zenon
<1> DEFINE v == [task[t] EXCEPT !.pc = "wait"]
           w == [flight[t] EXCEPT !.done = TRUE]
<1>4. /\ task'[t] = v /\ \A u \in Task : u # t => task'[u] = task[u]
      /\ flight'[t] = w /\ \A u \in Task : u # t => flight'[u] = flight[u]
  BY <1>1, Zenon DEF Settle, Goto, Types
<1>5. v \in TaskRecord /\ w \in FlightRecord
  <2>1. task[t] \in TaskRecord /\ flight[t] \in FlightRecord
    BY <1>3, Zenon
  <2>2. v \in TaskRecord
    BY <2>1, Zenon DEF TaskRecord, Stage
  <2>3. w \in FlightRecord
    BY <2>1, Zenon DEF FlightRecord
  <2> QED BY <2>2, <2>3, Zenon
<1>6. task' \in [Task -> TaskRecord] /\ flight' \in [Task -> FlightRecord]
  <2>1. task' = [task EXCEPT ![t] = v] /\ flight' = [flight EXCEPT ![t] = w]
    BY Zenon DEF Settle, Goto
  <2> HIDE DEF v, w
  <2> QED BY <1>1, <1>5, <2>1, Zenon DEF Types
<1>7. /\ v.pc = "wait" /\ v.at = t /\ v.src = task[t].src /\ v.inode = None /\ v.got = None
      /\ v.path = task[t].path
      /\ w.path = flight[t].path /\ w.inode = flight[t].inode /\ w.shown = flight[t].shown
      /\ w.size = flight[t].size /\ w.closed /\ w.res = flight[t].res
  BY <1>3, Zenon DEF TaskRecord, FlightRecord
<1> HIDE DEF v, w
<1>8. /\ file' = file /\ bytes' = bytes /\ holds' = holds /\ openMu' = openMu /\ sweep' = sweep
      /\ stored' = stored
  BY Zenon DEF Settle, diskVars
<1>9. /\ flights' \in [Path -> Task \cup {None}]
      /\ \A p \in Path : flights'[p] = IF p = flight[t].path THEN None ELSE flights[p]
  BY <1>1, <1>3, Zenon DEF Settle, Types
<1>10. "wait" \notin Before /\ "wait" \notin Active /\ "wait" \notin Unfinished
  BY Zenon DEF Before, Active, Unfinished
<1>11. \A u \in Task : /\ task'[u].at = task[u].at /\ task'[u].src = task[u].src
                       /\ task'[u].inode = task[u].inode
                       /\ task'[u].path = task[u].path
                       /\ flight'[u].path = flight[u].path /\ flight'[u].inode = flight[u].inode
                       /\ flight'[u].shown = flight[u].shown /\ flight'[u].size = flight[u].size
                       /\ task'[u].pc \in Active => task[u].pc \in Active
                       /\ task'[u].pc \in Unfinished => task[u].pc \in Unfinished
  BY <1>3, <1>4, <1>7, <1>10
<1>12. Types'
  BY <1>1, <1>6, <1>8, <1>9, Zenon DEF Types
<1>13. Stages'
  <2>1. SUFFICES ASSUME NEW u \in Task
                 PROVE  StageOk(u)'
    BY Zenon DEF Stages
  <2>2. CASE u = t
    BY <1>1, <1>2, <1>3, <1>4, <1>7, <1>8, <1>10, <2>2, Apart DEF Stages, StageOk
  <2>3. CASE u # t
    BY <1>1, <1>4, <1>8, <2>3, Zenon DEF Stages, StageOk
  <2> QED BY <2>2, <2>3, Zenon
<1>14. \A u \in Task : task[u].at \in Task \cup {None}
  BY <1>1, Zenon DEF Types, TaskRecord
<1>15. Leaders'
  BY <1>1, <1>3, <1>4, <1>8, <1>11, <1>14 DEF Leaders
<1>16. Flights'
  <2>1. \A p \in Path : flights'[p] # None => task'[flights'[p]].pc \in Active /\ flight'[flights'[p]].path = p
    BY <1>1, <1>3, <1>4, <1>9, <1>11 DEF Flights, Types
  <2>2. ASSUME NEW u \in Task, task'[u].at = u
        PROVE  /\ flight'[u].path \in Path
               /\ task'[u].pc \in Active => flights'[flight'[u].path] = u
               /\ flight'[u].closed <=> task'[u].pc \notin Unfinished
               /\ task'[u].pc \in {"settle", "wait", "settled"}
                    => flight'[u].res = Failed \/ flight'[u].res \in stored' \cup {<<>>}
               /\ flight'[u].done => task'[u].pc \in {"wait", "settled"}
    <3>1. CASE u = t
      BY <1>1, <1>2, <1>3, <1>4, <1>7, <1>8, <1>10, <3>1, Zenon DEF Flights
    <3>2. CASE u # t
      BY <1>1, <1>3, <1>4, <1>8, <1>9, <2>2, <3>2, Apart DEF Flights
    <3> QED BY <3>1, <3>2, Zenon
  <2>3. \A u \in Task : holds'[u] = {} => flight'[u].inode = None
    BY <1>1, <1>8, <1>11 DEF Flights
  <2> QED BY <2>1, <2>2, <2>3, Zenon DEF Flights
<1>17. Sized'
  <2>1. SUFFICES ASSUME NEW u \in Task, task'[u].pc \in {"hold", "wait"}, task'[u].at # u, task'[u].src.size >= 0
                 PROVE  flight'[task'[u].at].size = task'[u].src.size
    BY Zenon DEF Sized
  <2>2. u # t /\ task[u].pc \in {"hold", "wait"}
    BY <1>3, <1>4, <1>11, <2>1
  <2>3. task[u].at \in Task
    BY <1>1, <1>14, <2>2, Zenon DEF Stages, StageOk
  <2> QED BY <1>1, <1>11, <2>1, <2>2, <2>3 DEF Sized
<1>18. Locked'
  <2>1. \A u \in Task : task'[u].pc = "register" => task[u].pc = "register"
    BY <1>4, <1>3, <1>7, Zenon
  <2>2. \A u \in Task : task'[u].pc # "register" => task'[u].inode = None
    BY <1>1, <1>3, <1>4, <1>7 DEF Locked
  <2>3. \A p \in Path : flights[p] = None => flights'[p] = None
    BY <1>9, Zenon
  <2>4. sweep \subseteq Path
    BY <1>1, Zenon DEF Types
  <2> QED BY <1>1, <1>8, <1>11, <2>1, <2>2, <2>3, <2>4 DEF Locked
<1>19. OnePath'
  BY <1>1, <1>8, <1>11 DEF OnePath
<1>20. Contents'
  BY <1>1, <1>8, <1>11 DEF Contents
<1> QED BY <1>12, <1>13, <1>15, <1>16, <1>17, <1>18, <1>19, <1>20, Zenon DEF SpoolInv

-----------------------------------------------------------------------------
(* Accept and the clients of a task.                                       *)

\* The name of a spool is one of the paths.
LEMMA PathOf ==
    ASSUME NEW s \in Source, NEW shared \in BOOLEAN
    PROVE  FileName(s, shared) \in Path
  BY DEF Path

\* A task that has not registered moves on within Accept, its leader
\* unchanged or found, and nothing else changes.
LEMMA BeforeMove ==
    ASSUME SpoolInv, NEW t \in Task, UNCHANGED <<file, bytes, flights, flight, openMu, stored, sweep>>,
           NEW v \in TaskRecord, task' = [task EXCEPT ![t] = v],
           task[t].pc \in Before \ {"register"},
           v.pc \in {"sized", "hold", "open", "wait", "settled"},
           v.src \in Source, v.pc # "settled" => v.got = None, v.inode = None, v.at # t,
           v.at # None => task[v.at].at = v.at,
           v.pc \in Before => v.tries < MaxAttempts,
           v.pc \in {"sized", "hold", "wait"} => v.at # None,
           v.pc \in {"hold", "wait"} /\ v.src.size >= 0 => flight[v.at].size = v.src.size,
           holds' \in [Task -> SUBSET Holder], \A u \in Task : holds[u] \subseteq holds'[u],
           \A u \in Task : task[u].at # u => holds'[u] = holds[u],
           v.pc = "wait" => t \in holds'[v.at]
    PROVE  SpoolInv'
<1>1. Types /\ Stages /\ Leaders /\ Flights /\ Sized /\ Locked /\ OnePath /\ Contents
  BY Zenon DEF SpoolInv
<1>2. /\ task'[t] = v /\ \A u \in Task : u # t => task'[u] = task[u]
      /\ task' \in [Task -> TaskRecord]
      /\ \A u \in Task : task[u].at \in Task \cup {None}
  BY <1>1, Zenon DEF Types, TaskRecord
<1>3. /\ file' = file /\ bytes' = bytes /\ flights' = flights /\ flight' = flight
      /\ openMu' = openMu /\ stored' = stored /\ sweep' = sweep
  BY Zenon
<1>4. /\ task[t].pc \notin Active /\ v.pc \notin Active /\ task[t].pc \notin Unfinished
      /\ v.pc \notin Unfinished
      /\ task[t].pc # "register" /\ v.pc # "register" /\ v.pc # "idle" /\ v.pc # "copy"
      /\ v.pc \notin {"slot", "fetch", "copy"}
  BY Zenon DEF Before, Active, Unfinished
<1>5. task[t].at # t /\ task[t].inode = None
  BY <1>1, <1>4, Zenon DEF Stages, StageOk, Locked
<1>6. \A p \in Path : flights[p] \in Task \cup {None} /\ flights[p] # t
  <2>1. t # None
    BY Apart, Zenon
  <2> QED BY <1>1, <1>4, <2>1, Zenon DEF Types, Flights
<1>7. \A u \in Task : task[u].at # t
  BY <1>1, <1>5, Apart DEF Leaders
<1>8. v.at \in Task \cup {None}
  BY Zenon DEF TaskRecord
<1>9. Types'
  BY <1>1, <1>2, <1>3, Zenon DEF Types
<1>10. Stages'
  <2>1. SUFFICES ASSUME NEW u \in Task
                 PROVE  StageOk(u)'
    BY Zenon DEF Stages
  <2>2. CASE u = t
    BY <1>2, <1>4, <2>2, Zenon DEF StageOk
  <2>3. CASE u # t
    <3>1. task'[u] = task[u] /\ StageOk(u)
      BY <1>1, <1>2, <2>3, Zenon DEF Stages
    <3>2. task[u].at # None => holds[task[u].at] \subseteq holds'[task[u].at]
      BY <1>2, Zenon
    <3> QED BY <1>3, <3>1, <3>2, Zenon DEF StageOk
  <2> QED BY <2>2, <2>3, Zenon
<1>11. Leaders'
  <2>1. \A u \in Task : u # t => task'[u].at = task[u].at
    BY <1>2, Zenon
  <2>2. \A u \in Task : task'[u].at # u => task[u].at # u
    BY <1>2, <1>5, Zenon
  <2>3. \A u \in Task : task'[u].at # None => task'[task'[u].at].at = task'[u].at
    BY <1>1, <1>2, <1>5, <1>7, <1>8 DEF Leaders
  <2> QED BY <1>1, <1>3, <2>2, <2>3 DEF Leaders
<1>12. Flights'
  <2>1. \A p \in Path : flights'[p] # None => task'[flights'[p]].pc \in Active /\ flight'[flights'[p]].path = p
    BY <1>1, <1>2, <1>3, <1>6 DEF Flights
  <2>2. \A u \in Task : task'[u].at = u => task'[u] = task[u] /\ task[u].at = u
    BY <1>2, Zenon
  <2>3. \A u \in Task : holds'[u] = {} => flight'[u].inode = None
    BY <1>1, <1>3 DEF Flights
  <2> QED BY <1>1, <1>3, <2>1, <2>2, <2>3 DEF Flights
<1>13. Sized'
  BY SMTT(20), <1>1, <1>2, <1>3 DEF Sized
<1>14. Locked'
  BY <1>1, <1>2, <1>3, <1>4 DEF Locked
<1>15. OnePath'
  <2>1. \A u \in Task : task'[u].inode = task[u].inode /\ (task[u].inode # None => task'[u].path = task[u].path)
    BY <1>2, <1>5, Zenon
  <2> QED BY <1>1, <1>3, <2>1 DEF OnePath
<1>16. Contents'
  <2>1. \A u \in Task : /\ task'[u].pc \in Unfinished => task[u].pc \in Unfinished
                        /\ task'[u].pc \in Active => task[u].pc \in Active
    BY <1>2, <1>4, Zenon
  <2> QED BY <1>1, <1>3, <2>1 DEF Contents
<1> QED BY <1>9, <1>10, <1>11, <1>12, <1>13, <1>14, <1>15, <1>16, Zenon DEF SpoolInv

\* A new task, and the leader it may have found.
LEMMA AcceptKeeps ==
    ASSUME SpoolInv, NEW t \in Task, NEW s \in Source, Accept(t, s)
    PROVE  SpoolInv'
<1>1. Types /\ Stages /\ Flights
  BY Zenon DEF SpoolInv
<1>2. task[t].pc = "idle" /\ task[t].pc \in Before \ {"register"} /\ task[t].pc \notin Active
  BY Zenon DEF Accept, Before, Active, Unfinished
<1> DEFINE own == FileName(s, TRUE)
           leader == IF ContentHash(s.etag) THEN flights[own] ELSE None
           pc == CASE leader = None                -> "open"
                   [] leader # None /\ s.size >= 0 -> "sized"
                   [] leader # None /\ s.size < 0  -> "hold"
           v == [Idle EXCEPT !.src = s, !.at = leader, !.pc = pc]
<1>3. task' = [task EXCEPT ![t] = v]
  BY Zenon DEF Accept
<1>4. UNCHANGED <<file, bytes, flights, flight, openMu, stored, sweep, holds>>
  BY Zenon DEF Accept, diskVars
<1>5. s.size \in Int /\ None \notin Task
  BY Apart, Numbers, Zenon
<1>6. /\ leader \in Task \cup {None} /\ leader # t
      /\ leader # None => task[leader].at = leader
  <2>1. own \in Path
    BY PathOf, Zenon
  <2> HIDE DEF own
  <2>2. \A p \in Path : /\ flights[p] \in Task \cup {None}
                        /\ flights[p] # None => task[flights[p]].pc \in Active
    BY <1>1 DEF Types, Flights
  <2>3. leader = flights[own] \/ leader = None
    BY Zenon
  <2> HIDE DEF leader
  <2>4. leader \in Task \cup {None} /\ (leader # None => task[leader].pc \in Active)
    BY <2>1, <2>2, <2>3, Zenon
  <2>5. \A u \in Task : task[u].pc \in Active => task[u].at = u
    BY <1>1, Zenon DEF Stages, StageOk
  <2> QED BY <1>2, <1>5, <2>4, <2>5, Zenon
<1> HIDE DEF leader
<1>7. /\ pc \in {"open", "sized", "hold"} /\ (pc = "open" <=> leader = None)
      /\ pc = "hold" => s.size < 0
  BY <1>5
<1> HIDE DEF pc
<1>8. Idle \in TaskRecord
  BY Numbers DEF Idle, TaskRecord, Stage
<1>9. v \in TaskRecord
  BY <1>6, <1>7, <1>8, Zenon DEF TaskRecord, Stage
<1>10. /\ v.pc = pc /\ v.src = s /\ v.at = leader /\ v.inode = None /\ v.got = None
       /\ v.tries < MaxAttempts
  BY Numbers DEF Idle
<1> HIDE DEF v
<1>11. v.pc \in {"hold", "wait"} /\ v.src.size >= 0 => flight[v.at].size = v.src.size
  BY <1>5, <1>7, <1>10
<1>12. /\ v.pc \in {"sized", "hold", "open", "wait", "settled"} /\ v.pc # "wait"
       /\ v.pc \in {"sized", "hold", "wait"} => v.at # None
  BY <1>7, <1>10, Zenon
<1>13. /\ holds' \in [Task -> SUBSET Holder] /\ \A u \in Task : holds'[u] = holds[u]
  BY <1>1, <1>4, Zenon DEF Types
<1> QED BY <1>2, <1>3, <1>4, <1>6, <1>9, <1>10, <1>11, <1>12, <1>13, BeforeMove, Zenon

\* A task still to attach that changes its stage only.
LEMMA BeforeGoto ==
    ASSUME SpoolInv, NEW t \in Task, UNCHANGED <<file, bytes, flights, flight, openMu, stored, sweep, holds>>,
           task[t].pc \in {"sized", "hold", "open"},
           \/ Refuse(t)
           \/ Goto(t, "open")
           \/ Goto(t, "hold") /\ task[t].pc = "sized" /\ flight[task[t].at].size = task[t].src.size
    PROVE  SpoolInv'
<1>1. Types /\ Stages /\ Leaders /\ Locked
  BY Zenon DEF SpoolInv
<1>2. /\ task[t].pc \in Before \ {"register"} /\ task[t].pc \notin {"idle", "register", "settled"}
  BY Zenon DEF Before
<1>3. task[t] \in TaskRecord
  BY <1>1, Zenon DEF Types
<1>4. /\ task[t].src \in Source /\ task[t].got = None /\ task[t].tries < MaxAttempts
      /\ task[t].at # t /\ (task[t].pc = "sized" => task[t].at # None)
      /\ task[t].inode = None /\ (task[t].at # None => task[task[t].at].at = task[t].at)
  BY <1>1, <1>2, Zenon DEF Stages, StageOk, Leaders, Locked
<1>5. PICK pc \in {"settled", "open", "hold"}, got \in {None, Failed} :
        /\ task' = [task EXCEPT ![t].pc = pc, ![t].got = got]
        /\ pc # "settled" => got = None
        /\ pc = "hold" => task[t].pc = "sized" /\ flight[task[t].at].size = task[t].src.size
  <2>1. CASE Refuse(t)
    BY <2>1, Zenon DEF Refuse
  <2>2. ASSUME NEW pc, Goto(t, pc)
        PROVE  task' = [task EXCEPT ![t].pc = pc, ![t].got = None]
    BY <1>1, <1>3, <1>4, <2>2, Zenon DEF Goto, Types, TaskRecord
  <2> QED BY <2>1, <2>2, Zenon
<1> DEFINE v == [task[t] EXCEPT !.pc = pc, !.got = got]
<1>6. task' = [task EXCEPT ![t] = v]
  BY <1>5, Zenon
<1>7. v \in TaskRecord
  BY <1>3, Zenon DEF TaskRecord, Stage
<1>8. /\ v.pc = pc /\ v.got = got /\ v.src = task[t].src /\ v.at = task[t].at /\ v.inode = task[t].inode
      /\ v.tries = task[t].tries
  BY <1>3, Zenon DEF TaskRecord
<1> HIDE DEF v
<1>9. /\ v.pc \in {"sized", "hold", "open", "wait", "settled"} /\ v.pc # "wait"
      /\ v.pc \in {"sized", "hold", "wait"} => v.at # None
      /\ v.pc \in {"hold", "wait"} => flight[v.at].size = v.src.size
      /\ v.pc # "settled" => v.got = None
  BY <1>4, <1>5, <1>8, Zenon
<1>10. /\ holds' \in [Task -> SUBSET Holder] /\ \A u \in Task : holds'[u] = holds[u]
  BY <1>1, Zenon DEF Types
<1>11. /\ v.src \in Source /\ v.inode = None /\ v.at # t /\ v.tries < MaxAttempts
       /\ (v.at # None => task[v.at].at = v.at)
  BY <1>4, <1>8, Zenon
<1> QED BY <1>2, <1>6, <1>7, <1>9, <1>10, <1>11, BeforeMove, Zenon

\* The wait for the leader's length ends.
LEMMA AcceptSizedKeeps ==
    ASSUME SpoolInv, NEW t \in Task, AcceptSized(t)
    PROVE  SpoolInv'
<1>1. UNCHANGED <<file, bytes, flights, flight, openMu, stored, sweep, holds>> /\ task[t].pc = "sized"
  BY Zenon DEF AcceptSized, diskVars
<1>2. \/ Refuse(t) \/ Goto(t, "open")
      \/ Goto(t, "hold") /\ flight[task[t].at].size = task[t].src.size
  BY Zenon DEF AcceptSized, Src
<1> QED BY <1>1, <1>2, BeforeGoto, Zenon

\* The hold that makes a follower of a leader still live.
LEMMA AcceptHoldKeeps ==
    ASSUME SpoolInv, NEW t \in Task, AcceptHold(t)
    PROVE  SpoolInv'
<1>1. Types /\ Stages /\ Leaders /\ Locked /\ Sized
  BY Zenon DEF SpoolInv
<1>2. /\ task[t].pc = "hold" /\ task[t].pc \in Before \ {"register"}
      /\ UNCHANGED <<file, bytes, flights, flight, openMu, stored, sweep>>
  BY Zenon DEF AcceptHold, Before, diskVars
<1>3. CASE Goto(t, "open") /\ UNCHANGED holds
  BY <1>2, <1>3, BeforeGoto, Zenon
<1>4. CASE holds' = [holds EXCEPT ![task[t].at] = @ \cup {t}] /\ Goto(t, "wait")
  <2>1. task[t] \in TaskRecord
    BY <1>1, Zenon DEF Types
  <2>2. /\ task[t].src \in Source /\ task[t].got = None /\ task[t].at # t /\ task[t].at # None
        /\ task[t].inode = None /\ task[task[t].at].at = task[t].at
        /\ task[t].src.size >= 0 => flight[task[t].at].size = task[t].src.size
    BY <1>1, <1>2, Zenon DEF Stages, StageOk, Leaders, Locked, Sized
  <2> DEFINE f == task[t].at
             v == [task[t] EXCEPT !.pc = "wait"]
  <2>3. v \in TaskRecord /\ f \in Task
    BY <2>1, <2>2, Zenon DEF TaskRecord, Stage
  <2>4. task' = [task EXCEPT ![t] = v]
    BY <1>4, Zenon DEF Goto
  <2>5. /\ v.pc = "wait" /\ v.got = task[t].got /\ v.src = task[t].src /\ v.at = f
        /\ v.inode = task[t].inode
    BY <2>1, Zenon DEF TaskRecord
  <2> HIDE DEF v
  <2>6. /\ holds' \in [Task -> SUBSET Holder] /\ t \in holds'[f]
        /\ \A u \in Task : holds[u] \subseteq holds'[u] /\ (u # f => holds'[u] = holds[u])
    BY <1>1, <1>4, <2>3, Zenon DEF Types, Holder
  <2>7. \A u \in Task : task[u].at # u => holds'[u] = holds[u]
    BY <2>2, <2>6, Zenon
  <2>8. v.pc \notin Before
    BY <2>5, Zenon DEF Before
  <2> QED BY <1>2, <2>2, <2>3, <2>4, <2>5, <2>6, <2>7, <2>8, BeforeMove, Zenon
<1> QED BY <1>3, <1>4, Zenon DEF AcceptHold

\* open: a leftover adopted or removed, with openMu taken.
LEMMA OpenKeeps ==
    ASSUME SpoolInv, NEW t \in Task, task[t].pc = "open", openMu = None, openMu' = t,
           NEW path \in Path, flights[path] = None, Open(t, path),
           UNCHANGED <<bytes, flights, flight, holds, stored, sweep>>
    PROVE  SpoolInv'
<1>1. Types /\ Stages /\ Leaders /\ Flights /\ Sized /\ Locked /\ OnePath /\ Contents
  BY Zenon DEF SpoolInv
<1>2. PICK i \in Inode \cup {None} :
        /\ i = file[path] \/ i = None
        /\ task' = [task EXCEPT ![t].path = path, ![t].inode = i, ![t].pc = "register"]
        /\ file' = [file EXCEPT ![path] = i]
  <2>1. file[path] \in Inode \cup {None}
    BY <1>1, Zenon DEF Types
  <2> DEFINE i == IF Adoptable(Src(t), file[path]) THEN file[path] ELSE None
  <2>2. i = file[path] \/ i = None
    BY Zenon
  <2>3. /\ task' = [task EXCEPT ![t].path = path, ![t].inode = i, ![t].pc = "register"]
        /\ file' = [file EXCEPT ![path] = i]
    BY Zenon DEF Open
  <2> HIDE DEF i
  <2> QED BY <2>1, <2>2, <2>3, Zenon
<1> DEFINE v == [task[t] EXCEPT !.path = path, !.inode = i, !.pc = "register"]
<1>3. task[t] \in TaskRecord
  BY <1>1, Zenon DEF Types
<1>4. v \in TaskRecord
  <2>1. "register" \in Stage
    BY Zenon DEF Stage
  <2>2. path \in Path \cup {None} /\ i \in Inode \cup {None}
    BY <1>2, Zenon
  <2> QED BY <1>3, <2>1, <2>2, Zenon DEF TaskRecord
<1>5. /\ v.pc = "register" /\ v.path = path /\ v.inode = i /\ v.at = task[t].at /\ v.src = task[t].src
      /\ v.tries = task[t].tries /\ v.got = task[t].got
  BY <1>3, Zenon DEF TaskRecord
<1>6. task' = [task EXCEPT ![t] = v]
  BY <1>2, Zenon
<1> HIDE DEF v
<1>7. /\ task'[t] = v /\ \A u \in Task : u # t => task'[u] = task[u]
      /\ task' \in [Task -> TaskRecord]
      /\ \A u \in Task : task[u].at \in Task \cup {None}
      /\ \A u \in Task : task'[u].at = task[u].at /\ task'[u].src = task[u].src
  BY <1>1, <1>4, <1>5, <1>6 DEF Types, TaskRecord
<1>8. /\ bytes' = bytes /\ flights' = flights /\ flight' = flight /\ holds' = holds
      /\ stored' = stored /\ sweep' = sweep /\ openMu' = t
  BY Zenon
<1>9. /\ task[t].at # t /\ task[t].got = None /\ task[t].src \in Source /\ task[t].tries < MaxAttempts
  BY <1>1, Zenon DEF Stages, StageOk, Before
<1>10. /\ \A u \in Task : task[u].pc # "register" /\ task[u].inode = None
       /\ sweep = {}
  BY <1>1, Apart, Zenon DEF Locked
<1>11. /\ "register" \notin Active /\ "register" \notin Unfinished /\ "open" \notin Active
  BY Zenon DEF Active, Unfinished
<1>12. /\ file' \in [Path -> Inode \cup {None}]
       /\ \A p \in Path : file'[p] = IF p = path THEN i ELSE file[p]
       /\ \A p \in Path : file'[p] = file[p] \/ file'[p] = None
  BY <1>1, <1>2, Zenon DEF Types
<1>13. Types'
  BY <1>1, <1>7, <1>8, <1>12, Zenon DEF Types
<1>14. Stages'
  <2>1. SUFFICES ASSUME NEW u \in Task
                 PROVE  StageOk(u)'
    BY Zenon DEF Stages
  <2>2. CASE u = t
    BY <1>5, <1>7, <1>8, <1>9, <1>11, <2>2, Zenon DEF StageOk
  <2>3. CASE u # t
    BY SMTT(20), <1>1, <1>7, <1>8, <2>3 DEF Stages, StageOk
  <2> QED BY <2>2, <2>3, Zenon
<1>15. Leaders'
  BY SMTT(20), <1>1, <1>7, <1>8 DEF Leaders
<1>16. Flights'
  <2>1. \A p \in Path : flights[p] \in Task \cup {None} /\ flights[p] # t
    <3>1. t # None
      BY Apart, Zenon
    <3> QED BY <1>1, <1>11, <3>1 DEF Types, Flights
  <2>2. \A u \in Task : task'[u].at = u => task'[u] = task[u] /\ task[u].at = u
    BY <1>7, <1>9, Zenon
  <2>3. \A p \in Path : flights'[p] # None => task'[flights'[p]].pc \in Active /\ flight'[flights'[p]].path = p
    BY <1>1, <1>7, <1>8, <2>1 DEF Flights
  <2> QED BY SMTT(20), <1>1, <1>8, <2>2, <2>3 DEF Flights
<1>17. Sized'
  BY <1>1, <1>5, <1>7, <1>8, Zenon DEF Sized
<1>18. Locked'
  BY <1>5, <1>7, <1>8, <1>10, <1>12 DEF Locked
<1>19. \A p \in Path : file'[p] # None => file'[p] = file[p]
  BY <1>12, Zenon
<1>20. \A u \in Task : /\ task'[u].inode # None => u = t /\ i # None /\ task'[u].inode = i /\ task'[u].path = path
                       /\ i # None => i = file[path]
  BY <1>2, <1>5, <1>7, <1>10, Zenon
<1>21. OnePath'
  <2>1. \A p, q \in Path : file'[p] # None /\ file'[p] = file'[q] => p = q
    BY <1>1, <1>19 DEF OnePath
  <2>2. \A u \in Task : task'[u].inode # None => \A p \in Path : file'[p] = task'[u].inode => p = task'[u].path
    BY <1>1, <1>19, <1>20 DEF OnePath
  <2>3. ASSUME NEW u \in Task, flight'[u].inode # None
        PROVE  /\ \A p \in Path : file'[p] = flight'[u].inode => p = flight'[u].path
               /\ \A y \in Task : flight'[y].inode = flight'[u].inode => flight'[y].path = flight'[u].path
               /\ \A y \in Task : task'[y].inode = flight'[u].inode => task'[y].path = flight'[u].path
    BY <1>1, <1>8, <1>19, <1>20, <2>3 DEF OnePath
  <2> QED BY <2>1, <2>2, <2>3, Zenon DEF OnePath
<1>22. Contents'
  <2>1. \A u \in Task : /\ task'[u].pc \in Unfinished => task[u].pc \in Unfinished
                        /\ task'[u].pc \in Active => task[u].pc \in Active
    BY <1>5, <1>7, <1>11, Zenon
  <2>2. ASSUME NEW u \in Task, task'[u].pc \in Unfinished, flight'[u].inode = None
        PROVE  file'[flight'[u].path] = None
    <3>1. task[u].pc \in Active /\ task[u].pc \in Unfinished
      BY <2>1, <2>2, Zenon DEF Active
    <3>2. flight[u].path \in Path
      BY <3>1, ActiveFacts, Zenon
    <3>3. file[flight[u].path] = None
      BY <1>1, <1>8, <2>2, <3>1, Zenon DEF Contents
    <3> QED BY <1>8, <1>12, <3>2, <3>3, Zenon
  <2> QED BY <1>1, <1>8, <2>1, <2>2, Zenon DEF Contents
<1> QED BY <1>13, <1>14, <1>15, <1>16, <1>17, <1>18, <1>21, <1>22, Zenon DEF SpoolInv

\* The spool is opened under openMu, or the task refused.
LEMMA AcceptOpenKeeps ==
    ASSUME SpoolInv, NEW t \in Task, AcceptOpen(t)
    PROVE  SpoolInv'
<1>1. /\ task[t].pc = "open" /\ openMu = None
      /\ UNCHANGED <<bytes, flights, flight, holds, stored, sweep>>
  BY Zenon DEF AcceptOpen
<1>2. Src(t) \in Source
  BY <1>1, Zenon DEF SpoolInv, Stages, StageOk, Src
<1> DEFINE shared == ContentHash(Src(t).etag) /\ flights[Shared(t)] = None
           path == FileName(Src(t), shared)
<1>3. shared \in BOOLEAN
  BY Zenon DEF ContentHash
<1>4. \/ flights[path] = None /\ openMu' = t /\ Open(t, path)
      \/ Refuse(t) /\ UNCHANGED <<openMu, file>>
  BY Zenon DEF AcceptOpen
<1> HIDE DEF shared
<1>5. path \in Path
  BY <1>2, <1>3, PathOf, Zenon
<1> HIDE DEF path
<1>6. CASE flights[path] = None /\ openMu' = t /\ Open(t, path)
  BY <1>1, <1>5, <1>6, OpenKeeps, Zenon
<1>7. CASE Refuse(t) /\ UNCHANGED <<openMu, file>>
  BY <1>1, <1>7, BeforeGoto, Zenon
<1> QED BY <1>4, <1>6, <1>7, Zenon
=============================================================================
