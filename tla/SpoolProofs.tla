---------------------------- MODULE SpoolProofs -----------------------------
(***************************************************************************)
(* Spool keeps its inductive invariant: SpoolSound holds in every          *)
(* reachable state, the sweep spares flights, and every step of Spool is a *)
(* step of Delivery or a stutter.                                          *)
(***************************************************************************)
EXTENDS SpoolSteps, FiniteSetTheorems

\* The flight registered under openMu is the only one on its path.
LEMMA AcceptRegisterKeeps ==
    ASSUME SpoolInv, NEW t \in Task, AcceptRegister(t)
    PROVE  SpoolInv'
<1>1. Types /\ Stages /\ Leaders /\ Flights /\ Sized /\ Locked /\ OnePath /\ Contents
  BY Zenon DEF SpoolInv
<1> DEFINE i == task[t].inode
           path == task[t].path
           shown == IF i = None THEN <<>> ELSE bytes[i]
           sized == Src(t).size >= 0 \/ Src(t).xet
           w == [NoFlight EXCEPT !.path = path, !.inode = i, !.shown = shown, !.size = Src(t).size, !.sized = sized]
           v == [task[t] EXCEPT !.pc = "slot", !.at = t, !.inode = None]
<1>2. /\ task[t].pc = "register" /\ openMu = t /\ path \in Path /\ flights[path] = None
      /\ file[path] \in {None, i}
  BY <1>1, Zenon DEF AcceptRegister, Locked
<1>3. task[t] \in TaskRecord /\ i \in Inode \cup {None} /\ shown \in Content
  <2>1. task[t] \in TaskRecord
    BY <1>1, Zenon DEF Types
  <2>2. i \in Inode \cup {None}
    BY <2>1, Zenon DEF TaskRecord
  <2> HIDE DEF i
  <2> QED BY <1>1, <2>1, <2>2, EmptyContent, Zenon DEF Types
<1>4. /\ task[t].at # t /\ task[t].got = None /\ task[t].src \in Source /\ task[t].tries < MaxAttempts
      /\ task[t].src.size \in Int
  BY <1>1, <1>2, Numbers, Zenon DEF Stages, StageOk, Before
<1>5. /\ task' = [task EXCEPT ![t] = v] /\ flight' = [flight EXCEPT ![t] = w]
      /\ holds' = [holds EXCEPT ![t] = {t}] /\ flights' = [flights EXCEPT ![path] = t]
      /\ openMu' = None
      /\ file' = file /\ bytes' = bytes /\ stored' = stored /\ sweep' = sweep
  BY <1>2, Zenon DEF AcceptRegister, diskVars
<1>6. v \in TaskRecord
  BY <1>3, Zenon DEF TaskRecord, Stage
<1>7. sized \in BOOLEAN
  BY Zenon
<1>8. NoFlight \in FlightRecord
  BY EmptyContent DEF NoFlight, FlightRecord
<1>9. /\ v.pc = "slot" /\ v.at = t /\ v.inode = None /\ v.src = task[t].src /\ v.got = task[t].got
      /\ v.tries = task[t].tries
  BY <1>3, Zenon DEF TaskRecord
<1> HIDE DEF v, sized, shown, i, path
<1>10. w \in FlightRecord
  BY <1>2, <1>3, <1>4, <1>7, <1>8, Zenon DEF FlightRecord, Src
<1>11. w.path = path /\ w.inode = i /\ w.shown = shown /\ ~w.closed /\ ~w.done
  BY Zenon DEF NoFlight
<1> HIDE DEF w
<1>12. /\ task'[t] = v /\ \A u \in Task : u # t => task'[u] = task[u]
       /\ flight'[t] = w /\ \A u \in Task : u # t => flight'[u] = flight[u]
       /\ holds'[t] = {t} /\ \A u \in Task : u # t => holds'[u] = holds[u]
       /\ task' \in [Task -> TaskRecord] /\ flight' \in [Task -> FlightRecord]
       /\ holds' \in [Task -> SUBSET Holder]
       /\ \A p \in Path : flights'[p] = IF p = path THEN t ELSE flights[p]
       /\ flights' \in [Path -> Task \cup {None}]
       /\ \A u \in Task : task[u].at \in Task \cup {None}
  BY <1>1, <1>2, <1>5, <1>6, <1>10 DEF Types, TaskRecord, Holder
<1>13. \A u \in Task : task[u].at # t
  BY <1>1, <1>4, Apart, Zenon DEF Leaders
<1>14. /\ "slot" \in Unfinished /\ "slot" \in Active /\ "register" \notin Active /\ "slot" \notin Before
  BY Zenon DEF Unfinished, Active, Before
<1>15. \A p \in Path : flights[p] # t
  <2>1. t # None
    BY Apart, Zenon
  <2> QED BY <1>1, <1>2, <1>14, <2>1 DEF Flights
<1>16. /\ \A u \in Task : u # t => task[u].pc # "register"
       /\ \A u \in Task : task'[u].inode = None
       /\ sweep = {}
  BY <1>1, <1>2, <1>9, <1>12, Apart DEF Locked
<1>17. Types'
  BY <1>1, <1>5, <1>12, Zenon DEF Types
<1>18. Stages'
  <2>1. SUFFICES ASSUME NEW u \in Task
                 PROVE  StageOk(u)'
    BY Zenon DEF Stages
  <2>2. CASE u = t
    BY SMTT(20), <1>4, <1>9, <1>12, <1>14, <2>2, Apart DEF StageOk
  <2>3. CASE u # t
    <3>1. /\ task'[u] = task[u] /\ flight'[u] = flight[u] /\ task[u].at # t
          /\ task[u].at \in Task \cup {None}
      BY <1>12, <1>13, <2>3, Zenon
    <3>2. task[u].at # None => holds'[task[u].at] = holds[task[u].at]
      BY <1>12, <3>1, Zenon
    <3> QED BY <1>1, <3>1, <3>2, Zenon DEF Stages, StageOk
  <2> QED BY <2>2, <2>3, Zenon
<1>19. Leaders'
  BY <1>1, <1>9, <1>12, <1>13, Apart DEF Leaders
<1>20. Flights'
  <2>1. \A p \in Path : flights'[p] # None => task'[flights'[p]].pc \in Active /\ flight'[flights'[p]].path = p
    <3>1. SUFFICES ASSUME NEW p \in Path, flights'[p] # None
                   PROVE  task'[flights'[p]].pc \in Active /\ flight'[flights'[p]].path = p
      BY Zenon
    <3>2. CASE p = path
      BY SMTT(20), <1>9, <1>11, <1>12, <1>14, <3>2
    <3>3. CASE p # path
      <4>1. flights'[p] = flights[p] /\ flights[p] # t /\ flights[p] \in Task
        BY <1>1, <1>12, <1>15, <3>1, <3>3 DEF Types
      <4> QED BY <1>1, <1>12, <3>1, <4>1 DEF Flights
    <3> QED BY <3>2, <3>3, Zenon
  <2>2. ASSUME NEW u \in Task, task'[u].at = u
        PROVE  /\ flight'[u].path \in Path
               /\ task'[u].pc \in Active => flights'[flight'[u].path] = u
               /\ flight'[u].closed <=> task'[u].pc \notin Unfinished
               /\ task'[u].pc \in {"settle", "wait", "settled"}
                    => flight'[u].res = Failed \/ flight'[u].res \in stored' \cup {<<>>}
               /\ flight'[u].done => task'[u].pc \in {"wait", "settled"}
    <3>1. CASE u = t
      BY SMTT(20), <1>2, <1>9, <1>11, <1>12, <1>14, <3>1
    <3>2. CASE u # t
      <4>1. task'[u] = task[u] /\ flight'[u] = flight[u] /\ task[u].at = u /\ stored' = stored
        BY <1>5, <1>12, <2>2, <3>2, Zenon
      <4>2. task[u].pc \in Active => flight[u].path # path
        <5>1. u # None
          BY Apart, Zenon
        <5>2. task[u].pc \in Active => flights[flight[u].path] = u
          BY <1>1, <4>1, Zenon DEF Flights
        <5> QED BY <1>2, <5>1, <5>2, Zenon
      <4> QED BY <1>1, <1>12, <4>1, <4>2 DEF Flights
    <3> QED BY <3>1, <3>2, Zenon
  <2>3. ASSUME NEW u \in Task, holds'[u] = {}
        PROVE  flight'[u].inode = None
    <3>1. u # t
      BY <1>12, <2>3, Zenon
    <3> QED BY <1>1, <1>12, <2>3, <3>1 DEF Flights
  <2> QED BY <2>1, <2>2, <2>3, Zenon DEF Flights
<1>21. Sized'
  <2>1. SUFFICES ASSUME NEW u \in Task, task'[u].pc \in {"hold", "wait"}, task'[u].at # u, task'[u].src.size >= 0
                 PROVE  flight'[task'[u].at].size = task'[u].src.size
    BY Zenon DEF Sized
  <2>2. u # t /\ task'[u] = task[u]
    BY <1>9, <1>12, <2>1, Zenon
  <2>3. task[u].at \in Task /\ task[u].at # t
    BY <1>1, <1>12, <1>13, <2>1, <2>2 DEF Stages, StageOk
  <2> QED BY SMTT(20), <1>1, <1>12, <2>1, <2>2, <2>3 DEF Sized
<1>22. Locked'
  BY <1>5, <1>9, <1>12, <1>16, Zenon DEF Locked
<1>23. OnePath'
  <2>1. i # None => /\ \A p \in Path : file[p] = i => p = path
                    /\ \A u \in Task : flight[u].inode = i => flight[u].path = path
    BY <1>1, Zenon DEF OnePath, i, path
  <2>2. \A u \in Task : flight'[u].inode = (IF u = t THEN i ELSE flight[u].inode)
                        /\ flight'[u].path = (IF u = t THEN path ELSE flight[u].path)
    BY <1>11, <1>12, Zenon
  <2> QED BY <1>1, <1>5, <1>16, <2>1, <2>2 DEF OnePath
<1>24. Contents'
  <2>1. SUFFICES ASSUME NEW u \in Task
                 PROVE  /\ task'[u].pc \in Unfinished /\ flight'[u].inode = None
                             => file'[flight'[u].path] = None
                        /\ task'[u].pc \in Active /\ flight'[u].inode # None
                             => bytes'[flight'[u].inode] = flight'[u].shown
                        /\ flight'[u].inode # None => Prefix(flight'[u].shown, bytes'[flight'[u].inode])
    BY Zenon DEF Contents, Prefix
  <2>2. CASE u = t
    <3>1. i # None => shown = bytes[i]
      BY Zenon DEF shown
    <3>2. Prefix(shown, shown)
      BY <1>3, ContentIs, LenOf DEF Prefix
    <3> QED BY <1>2, <1>5, <1>11, <1>12, <2>2, <3>1, <3>2, Zenon
  <2>3. CASE u # t
    BY <1>1, <1>5, <1>12, <2>3 DEF Contents
  <2> QED BY <2>2, <2>3, Zenon
<1> QED BY <1>17, <1>18, <1>19, <1>20, <1>21, <1>22, <1>23, <1>24, Zenon DEF SpoolInv

\* A client's hold on the flight its task has attached to.
LEMMA ClientAttachKeeps ==
    ASSUME SpoolInv, NEW t \in Task, ClientAttach(t)
    PROVE  SpoolInv'
<1>1. Types /\ Stages /\ Leaders /\ Flights /\ Sized /\ Locked /\ OnePath /\ Contents
  BY Zenon DEF SpoolInv
<1> DEFINE f == task[t].at
<1>2. /\ f # None /\ holds' = [holds EXCEPT ![f] = @ \cup {Reader(t)}]
      /\ UNCHANGED <<file, bytes, flights, flight, openMu, task, stored, sweep>>
  BY Zenon DEF ClientAttach, diskVars
<1>3. f \in Task /\ task[f].at = f /\ \A u \in Task : task[u].at \in Task \cup {None}
  BY <1>1, <1>2, Zenon DEF Types, TaskRecord, Leaders
<1> HIDE DEF f
<1>4. /\ holds' \in [Task -> SUBSET Holder]
      /\ \A u \in Task : holds[u] \subseteq holds'[u] /\ (u # f => holds'[u] = holds[u])
  BY <1>1, <1>2, <1>3, Zenon DEF Types, Holder
<1>5. Types'
  BY <1>1, <1>2, <1>4, Zenon DEF Types
<1>6. Stages'
  <2>1. \A u \in Task : task[u].at # None => holds[task[u].at] \subseteq holds'[task[u].at]
    BY <1>3, <1>4, Zenon
  <2> QED BY <1>1, <1>2, <2>1, Zenon DEF Stages, StageOk
<1>7. Leaders'
  BY <1>1, <1>2, <1>3, <1>4, Zenon DEF Leaders
<1>8. Flights'
  BY SMTT(20), <1>1, <1>2, <1>4 DEF Flights
<1>9. Sized' /\ Locked' /\ OnePath' /\ Contents'
  BY <1>1, <1>2 DEF Sized, Locked, OnePath, Contents
<1> QED BY <1>5, <1>6, <1>7, <1>8, <1>9, Zenon DEF SpoolInv

-----------------------------------------------------------------------------
(* The copy of a response body.                                            *)

\* One byte from the response body to the spool: in memory, spilled to a new
\* file, or to the end of the file it has.
LEMMA WriteKeeps ==
    ASSUME SpoolInv, FreshFree, NEW t \in Task, task[t].pc = "copy", task[t].body # <<>>,
           Write(t, Head(task[t].body)), task' = [task EXCEPT ![t].body = Tail(@)],
           UNCHANGED <<flights, holds, openMu, stored, sweep>>
    PROVE  SpoolInv'
<1>1. Types /\ Stages /\ Leaders /\ Flights /\ Sized /\ Locked /\ OnePath /\ Contents
  BY Zenon DEF SpoolInv
<1>2. task[t].pc \in Active /\ task[t].pc \in Unfinished
  BY Zenon DEF Active, Unfinished
<1>3. /\ task[t] \in TaskRecord /\ flight[t] \in FlightRecord /\ task[t].at = t /\ t \in holds[t]
      /\ flight[t].path \in Path /\ flights[flight[t].path] = t /\ task[t].inode = None
      /\ flight[t].shown \in Content
  BY <1>2, ActiveFacts, Zenon
<1> DEFINE s == flight[t].shown
           d == task[t].body
           b == Head(d)
           x == s \o <<b>>
           v == [task[t] EXCEPT !.body = Tail(d)]
<1>4. d \in Seq(Byte) /\ d # <<>> /\ s \o d \in Content
  BY <1>1, Zenon DEF Stages, StageOk
<1>5. /\ b \in Byte /\ Tail(d) \in Seq(Byte) /\ Tail(d) \in Content
      /\ x \in Content /\ x \o Tail(d) \in Content
  BY <1>3, <1>4, MoveByte, Zenon
<1>6. /\ task' = [task EXCEPT ![t] = v] /\ v \in TaskRecord
  <2>1. task' = [task EXCEPT ![t] = v]
    BY Zenon
  <2>2. v \in TaskRecord
    BY <1>3, <1>5, Zenon DEF TaskRecord
  <2> QED BY <2>1, <2>2, Zenon
<1>7. /\ v.pc = "copy" /\ v.at = t /\ v.src = task[t].src /\ v.inode = None /\ v.got = task[t].got
      /\ v.path = task[t].path /\ v.tries = task[t].tries /\ v.body = Tail(d)
  BY <1>3, Zenon DEF TaskRecord
<1>8. PICK i \in Inode \cup {None} :
        /\ flight' = [flight EXCEPT ![t].inode = i, ![t].shown = x]
        /\ \/ i = None /\ flight[t].inode = None /\ file' = file /\ bytes' = bytes
           \/ /\ flight[t].inode = None /\ i = Fresh /\ i \in Inode
              /\ file' = [file EXCEPT ![flight[t].path] = i] /\ bytes' = [bytes EXCEPT ![i] = x]
           \/ /\ flight[t].inode = i /\ i \in Inode
              /\ file' = file /\ bytes' = [bytes EXCEPT ![i] = x]
  <2>1. CASE flight[t].inode = None
    <3>1. file[flight[t].path] = None
      BY <1>1, <1>2, <2>1, Zenon DEF Contents
    <3>2. CASE UNCHANGED diskVars /\ flight' = [flight EXCEPT ![t].shown = @ \o <<b>>]
      <4>1. flight' = [flight EXCEPT ![t].inode = None, ![t].shown = x]
        BY <1>1, <1>3, <2>1, <3>2, Zenon DEF Types, FlightRecord
      <4> QED BY <2>1, <3>2, <4>1, Zenon DEF diskVars
    <3>3. CASE /\ file' = [file EXCEPT ![flight[t].path] = Fresh]
               /\ bytes' = [bytes EXCEPT ![Fresh] = flight[t].shown \o <<b>>]
               /\ flight' = [flight EXCEPT ![t].inode = Fresh, ![t].shown = @ \o <<b>>]
      BY <2>1, <3>3, Zenon DEF FreshFree
    <3> QED BY <2>1, <3>1, <3>2, <3>3, Zenon DEF Write
  <2>2. CASE flight[t].inode # None
    <3>1. flight[t].inode \in Inode
      BY <1>3, <2>2, Zenon DEF FlightRecord
    <3>2. bytes[flight[t].inode] = s /\ s \in Seq(Byte)
      BY <1>1, <1>2, <1>3, <2>2, ContentIs, Zenon DEF Contents
    <3>3. /\ bytes' = [bytes EXCEPT ![flight[t].inode] = WriteAt(@, t, b)]
          /\ flight' = [flight EXCEPT ![t].shown = @ \o <<b>>] /\ file' = file
      BY <2>2, Zenon DEF Write
    <3>4. WriteAt(bytes[flight[t].inode], t, b) = x
      BY <1>5, <3>2, WriteEnd, Zenon
    <3>5. bytes' = [bytes EXCEPT ![flight[t].inode] = x]
      BY <3>3, <3>4, Zenon
    <3>6. flight' = [flight EXCEPT ![t].inode = flight[t].inode, ![t].shown = x]
      BY <1>1, <1>3, <3>3, Zenon DEF Types, FlightRecord
    <3> QED BY <3>1, <3>3, <3>5, <3>6, Zenon
  <2> QED BY <2>1, <2>2, Zenon
<1> DEFINE w == [flight[t] EXCEPT !.inode = i, !.shown = x]
<1>9. flight' = [flight EXCEPT ![t] = w] /\ w \in FlightRecord
  <2>1. flight' = [flight EXCEPT ![t] = w]
    BY <1>8, Zenon
  <2>2. w \in FlightRecord
    BY <1>3, <1>5, Zenon DEF FlightRecord
  <2> QED BY <2>1, <2>2, Zenon
<1>10. /\ w.path = flight[t].path /\ w.inode = i /\ w.shown = x /\ w.size = flight[t].size
       /\ w.closed = flight[t].closed /\ w.done = flight[t].done /\ w.res = flight[t].res
  BY <1>3, Zenon DEF FlightRecord
<1> HIDE DEF v, w, x, s, d, b
<1>11. /\ task'[t] = v /\ \A u \in Task : u # t => task'[u] = task[u]
       /\ flight'[t] = w /\ \A u \in Task : u # t => flight'[u] = flight[u]
       /\ task' \in [Task -> TaskRecord] /\ flight' \in [Task -> FlightRecord]
  BY <1>1, <1>6, <1>9, Zenon DEF Types
<1>12. /\ flights' = flights /\ holds' = holds /\ openMu' = openMu /\ stored' = stored /\ sweep' = sweep
  BY Zenon
<1>13. \A u \in Task :
         /\ task'[u].pc = task[u].pc /\ task'[u].at = task[u].at /\ task'[u].src = task[u].src
         /\ task'[u].inode = task[u].inode /\ task'[u].path = task[u].path
         /\ task[u].at \in Task \cup {None}
         /\ flight'[u].path = flight[u].path /\ flight'[u].size = flight[u].size
         /\ flight'[u].closed = flight[u].closed /\ flight'[u].done = flight[u].done
         /\ flight'[u].res = flight[u].res
  <2>1. \A u \in Task : task[u].at \in Task \cup {None}
    BY <1>1, Zenon DEF Types, TaskRecord
  <2> QED BY <1>3, <1>7, <1>10, <1>11, <2>1
<1>14. Types'
  <2>1. file' \in [Path -> Inode \cup {None}] /\ bytes' \in [Inode -> Content]
    BY <1>1, <1>5, <1>8, ZenonT(30) DEF Types, x
  <2> QED BY <1>1, <1>11, <1>12, <2>1, Zenon DEF Types
<1>15. Stages'
  <2>1. SUFFICES ASSUME NEW u \in Task
                 PROVE  StageOk(u)'
    BY Zenon DEF Stages
  <2>2. CASE u = t
    <3>1. task'[t].body \in Seq(Byte) /\ flight'[t].shown \o task'[t].body \in Content
      BY <1>5, <1>7, <1>10, <1>11, Zenon
    <3>2. /\ task'[t].pc = task[t].pc /\ task'[t].src = task[t].src /\ task'[t].got = task[t].got
          /\ task'[t].tries = task[t].tries /\ task'[t].at = task[t].at /\ holds' = holds
      BY <1>3, <1>7, <1>11, <1>12, Zenon
    <3> QED BY <1>1, <2>2, <3>1, <3>2, Zenon DEF Stages, StageOk
  <2>3. CASE u # t
    BY <1>1, <1>11, <1>12, <2>3, Zenon DEF Stages, StageOk
  <2> QED BY <2>2, <2>3, Zenon
<1>16. Leaders'
  BY SMTT(20), <1>1, <1>3, <1>11, <1>12, <1>13 DEF Leaders
<1>17. Flights'
  <2>1. \A p \in Path : flights[p] \in Task \cup {None}
    BY <1>1, Zenon DEF Types
  <2>2. \A u \in Task : holds'[u] = {} => flight'[u].inode = None
    BY SMTT(20), <1>1, <1>3, <1>11, <1>12 DEF Flights
  <2> QED BY <1>1, <1>12, <1>13, <2>1, <2>2 DEF Flights
<1>18. Sized'
  BY <1>1, <1>13 DEF Sized, Stages, StageOk
<1>19. \A p \in Path : file'[p] # file[p] => p = flight[t].path /\ flights[p] = t /\ file'[p] = i /\ i = Fresh
  BY <1>1, <1>3, <1>8, Zenon DEF Types
<1>20. Locked'
  <2>1. \A u \in Task : task[u].pc = "register" => file'[task[u].path] = file[task[u].path]
    BY <1>1, <1>19, Apart, Zenon DEF Locked
  <2> QED BY <1>1, <1>12, <1>13, <2>1 DEF Locked
<1>21. \A u \in Task : u # t /\ flight[u].inode # None => flight[u].inode # Fresh
  BY <1>1, Zenon DEF Flights, FreshFree
<1>22. OnePath'
  <2>1. CASE flight[t].inode = i /\ file' = file
    <3>1. \A u \in Task : flight'[u].inode = flight[u].inode
      BY <1>10, <1>11, <2>1, Zenon
    <3> QED BY <1>1, <1>13, <2>1, <3>1 DEF OnePath
  <2>2. CASE /\ i = Fresh /\ i \in Inode /\ flight[t].inode = None
             /\ file' = [file EXCEPT ![flight[t].path] = i]
    <3>1. /\ \A p \in Path : file'[p] = IF p = flight[t].path THEN i ELSE file[p]
          /\ \A p \in Path : file[p] # i
          /\ i # None
      BY <1>1, <2>2, Apart, Zenon DEF Types, FreshFree
    <3>2. \A u \in Task : task[u].inode # i
      BY <2>2, Zenon DEF FreshFree
    <3>3. \A u \in Task : u # t => flight[u].inode # i
      BY <1>21, <2>2, <3>1, Zenon
    <3>4. \A u \in Task : /\ task'[u].inode # i
                          /\ flight'[u].inode = IF u = t THEN i ELSE flight[u].inode
                          /\ u # t => flight'[u].inode # i
      BY SMTT(20), <1>10, <1>11, <1>13, <3>2, <3>3
    <3>5. \A p, q \in Path : file'[p] # None /\ file'[p] = file'[q] => p = q
      BY <1>1, <3>1 DEF OnePath
    <3>6. \A u \in Task : task'[u].inode # None => \A p \in Path : file'[p] = task'[u].inode => p = task'[u].path
      BY <1>1, <1>13, <3>1, <3>4 DEF OnePath
    <3>7. ASSUME NEW u \in Task, flight'[u].inode # None
          PROVE  /\ \A p \in Path : file'[p] = flight'[u].inode => p = flight'[u].path
                 /\ \A y \in Task : flight'[y].inode = flight'[u].inode => flight'[y].path = flight'[u].path
                 /\ \A y \in Task : task'[y].inode = flight'[u].inode => task'[y].path = flight'[u].path
      <4>1. CASE u = t
        BY SMTT(20), <1>13, <3>1, <3>4, <4>1
      <4>2. CASE u # t
        BY SMTT(20), <1>1, <1>13, <3>1, <3>4, <3>7, <4>2 DEF OnePath
      <4> QED BY <4>1, <4>2, Zenon
    <3> QED BY <3>5, <3>6, <3>7, Zenon DEF OnePath
  <2> QED BY <1>8, <2>1, <2>2, Zenon
<1>23. Contents'
  <2>1. SUFFICES ASSUME NEW u \in Task
                 PROVE  /\ task'[u].pc \in Unfinished /\ flight'[u].inode = None
                             => file'[flight'[u].path] = None
                        /\ task'[u].pc \in Active /\ flight'[u].inode # None
                             => bytes'[flight'[u].inode] = flight'[u].shown
                        /\ flight'[u].inode # None => Prefix(flight'[u].shown, bytes'[flight'[u].inode])
    BY Zenon DEF Contents, Prefix
  <2>2. x \in Content /\ s \in Seq(Byte) /\ b \in Byte /\ x = s \o <<b>>
    BY <1>3, <1>5, ContentIs, Zenon DEF x, s, b, d
  <2>3. i # None => bytes' = [bytes EXCEPT ![i] = x] /\ i \in Inode /\ bytes'[i] = x
    BY <1>1, <1>8, Apart, Zenon DEF Types
  <2>4. CASE u = t
    <3>1. Prefix(x, x)
      BY <2>2, ContentIs, LenOf DEF Prefix
    <3>2. i = None => file'[flight[t].path] = None
      BY <1>1, <1>2, <1>8, Apart, Zenon DEF Contents
    <3> QED BY <1>10, <1>11, <2>3, <2>4, <3>1, <3>2, Zenon
  <2>5. CASE u # t
    <3>1. flight'[u] = flight[u] /\ task'[u] = task[u] /\ flight[u].inode \in Inode \cup {None}
      BY <1>1, <1>11, <2>5, Zenon DEF Types, FlightRecord
    <3>2. task[u].pc \in Active => flight[u].path \in Path /\ flights[flight[u].path] = u
      BY ActiveFacts, Zenon
    <3>3. task[u].pc \in Unfinished => task[u].pc \in Active
      BY Zenon DEF Active
    <3>4. task[u].pc \in Active /\ flight[u].inode # None => flight[u].inode # i
      BY SMTT(20), <1>1, <1>3, <1>8, <1>21, <2>5, <3>2 DEF OnePath
    <3>5. task[u].pc \in Unfinished /\ flight[u].inode = None => file'[flight[u].path] = None
      BY <1>1, <1>19, <2>5, <3>2, <3>3, Zenon DEF Contents
    <3>6. flight[u].inode # None /\ flight[u].inode # i => bytes'[flight[u].inode] = bytes[flight[u].inode]
      BY <1>1, <1>8, <3>1, Zenon DEF Types
    <3>7. flight[u].inode # None /\ flight[u].inode = i => Prefix(flight[u].shown, bytes'[i])
      <4>1. SUFFICES ASSUME flight[u].inode # None, flight[u].inode = i
                     PROVE  Prefix(flight[u].shown, bytes'[i])
        BY Zenon
      <4>2. flight[t].inode = i /\ bytes[i] = s
        BY <1>1, <1>2, <1>8, <1>21, <2>5, <4>1, Zenon DEF Contents, s
      <4>3. flight[u].shown \in Seq(Byte)
        BY <1>1, ContentIs, Zenon DEF Types, FlightRecord
      <4>4. Prefix(flight[u].shown, s)
        BY <1>1, <4>1, <4>2, Zenon DEF Contents
      <4>5. Prefix(flight[u].shown, s \o <<b>>)
        BY <2>2, <4>3, <4>4, PrefixAppend, Zenon
      <4> QED BY <2>2, <2>3, <4>1, <4>5, Zenon
    <3> QED BY <1>1, <3>1, <3>4, <3>5, <3>6, <3>7, Zenon DEF Contents
  <2> QED BY <2>4, <2>5, Zenon
<1> QED BY <1>14, <1>15, <1>16, <1>17, <1>18, <1>20, <1>22, <1>23, Zenon DEF SpoolInv

-----------------------------------------------------------------------------
(* Holds let go, the sweep and the restart.                                *)

\* A hold let go, by a client or by a task that settles: only the last one on
\* a closed flight takes its file with it.
LEMMA DropKeeps ==
    ASSUME SpoolInv, NEW t \in Task, NEW f \in Task, NEW h \in holds[f], Drop(f, h),
           UNCHANGED <<flights, openMu, stored, sweep>>,
           NEW v \in TaskRecord, task' = [task EXCEPT ![t] = v],
           v.pc = task[t].pc \/ (task[t].pc = "wait" /\ v.pc = "settled"),
           \A u \in Task : h = u => u = t /\ v.pc = "settled" /\ task[t].pc = "wait",
           v.src = task[t].src, v.at = task[t].at, v.path = task[t].path, v.inode = task[t].inode,
           v.tries = task[t].tries, v.body = task[t].body, v.got = task[t].got \/ v.pc = "settled"
    PROVE  SpoolInv'
<1>1. Types /\ Stages /\ Leaders /\ Flights /\ Sized /\ Locked /\ OnePath /\ Contents
  BY Zenon DEF SpoolInv
<1>2. /\ flights' = flights /\ openMu' = openMu /\ stored' = stored /\ sweep' = sweep
  BY Zenon
<1>3. /\ task'[t] = v /\ \A u \in Task : u # t => task'[u] = task[u]
      /\ task' \in [Task -> TaskRecord]
      /\ \A u \in Task : task[u].at \in Task \cup {None}
  BY <1>1, Zenon DEF Types, TaskRecord
<1>4. /\ "settled" \notin Before \cup Active \cup Unfinished
      /\ "wait" \notin Before \cup Active \cup Unfinished
  BY Zenon DEF Before, Active, Unfinished
<1>5. \A u \in Task :
        /\ task'[u].at = task[u].at /\ task'[u].src = task[u].src /\ task'[u].inode = task[u].inode
        /\ task'[u].path = task[u].path /\ task'[u].tries = task[u].tries /\ task'[u].body = task[u].body
        /\ task'[u].pc = task[u].pc \/ (task[u].pc = "wait" /\ task'[u].pc = "settled")
        /\ task'[u].got = task[u].got \/ task'[u].pc = "settled"
  BY <1>3, Zenon
<1>6. task[f].at = f
  BY <1>1, Zenon DEF Leaders
<1>7. /\ holds' \in [Task -> SUBSET Holder] /\ holds'[f] = holds[f] \ {h}
      /\ \A u \in Task : u # f => holds'[u] = holds[u]
  BY <1>1, Zenon DEF Drop, Types
<1> DEFINE retires == flight[f].closed /\ holds[f] = {h}
<1>8. /\ file' = IF retires /\ flight[f].inode # None THEN [file EXCEPT ![flight[f].path] = None]
                ELSE file
      /\ flight' = IF retires THEN [flight EXCEPT ![f].inode = None, ![f].shown = <<>>] ELSE flight
      /\ bytes' = [i \in Inode |-> IF InUse(i, file', flight', holds') THEN bytes[i] ELSE <<>>]
  BY Zenon DEF Drop
<1>9. ~retires => holds'[f] # {}
  <2>1. SUFFICES ASSUME ~retires, holds'[f] = {}
                 PROVE  FALSE
    BY Zenon
  <2>2. holds[f] = {h}
    BY <1>7, <2>1, Zenon
  <2>3. task[f].pc \in Unfinished /\ task[f].pc \in Active
    BY <1>1, <1>6, <2>1, <2>2, Zenon DEF Flights, Active
  <2>4. f \in holds[f] /\ task[f].pc # "wait"
    BY <1>4, <2>3, ActiveFacts, Zenon
  <2> QED BY <2>2, <2>4, Zenon
<1>10. flight \in [Task -> FlightRecord] /\ flight[f] \in FlightRecord
  BY <1>1, Zenon DEF Types
<1> DEFINE w == [flight[f] EXCEPT !.inode = None, !.shown = <<>>]
<1>11. w \in FlightRecord
  BY <1>10, EmptyContent, Zenon DEF FlightRecord
<1>12. /\ w.inode = None /\ w.path = flight[f].path /\ w.size = flight[f].size
       /\ w.closed = flight[f].closed
       /\ w.done = flight[f].done /\ w.res = flight[f].res
  BY <1>10, Zenon DEF FlightRecord
<1>13. IF retires THEN flight' = [flight EXCEPT ![f] = w] ELSE flight' = flight
  BY <1>8, Zenon
<1> HIDE DEF retires, w
<1>14. flight' \in [Task -> FlightRecord]
  BY <1>10, <1>11, <1>13, Zenon
<1>15. \A u \in Task :
         /\ flight'[u].path = flight[u].path /\ flight'[u].size = flight[u].size
         /\ flight'[u].closed = flight[u].closed /\ flight'[u].done = flight[u].done
         /\ flight'[u].res = flight[u].res
         /\ flight'[u].inode # None => flight'[u] = flight[u] /\ (u = f => ~retires)
         /\ u # f => flight'[u] = flight[u]
         /\ ~retires => flight'[u] = flight[u]
  BY <1>10, <1>12, <1>13, Zenon
<1>16. /\ file' \in [Path -> Inode \cup {None}]
       /\ \A p \in Path : file'[p] = file[p] \/ file'[p] = None
  BY <1>1, <1>8, Zenon DEF Types
<1>17. Types'
  <2>1. bytes' \in [Inode -> Content]
    BY <1>1, <1>8, EmptyContent, Zenon DEF Types
  <2> QED BY <1>1, <1>2, <1>3, <1>7, <1>14, <1>16, <2>1, Zenon DEF Types
<1>18. Stages'
  <2>1. SUFFICES ASSUME NEW u \in Task
                 PROVE  StageOk(u)'
    BY Zenon DEF Stages
  <2>2. StageOk(u)
    BY <1>1, Zenon DEF Stages
  <2>3. task'[u].pc \in Active \cup {"wait"} => task'[u].pc = task[u].pc /\ task[u].at # None /\ u \in holds'[task[u].at]
    <3>1. SUFFICES ASSUME task'[u].pc \in Active \cup {"wait"}
                   PROVE  task'[u].pc = task[u].pc /\ task[u].at # None /\ u \in holds'[task[u].at]
      BY Zenon
    <3>2. task'[u].pc = task[u].pc /\ task'[u].pc # "settled"
      BY <1>4, <1>5, <3>1, Zenon
    <3>3. task[u].at # None /\ u \in holds[task[u].at]
      BY <2>2, <3>1, <3>2, Zenon DEF StageOk
    <3>4. u # h
      BY <1>3, <3>2, Zenon
    <3> QED BY <1>3, <1>7, <3>2, <3>3, <3>4, Zenon
  <2>4. task'[u].pc = "copy" => flight'[u].shown = flight[u].shown
    <3>1. SUFFICES ASSUME task'[u].pc = "copy"
                   PROVE  flight'[u].shown = flight[u].shown
      BY Zenon
    <3>2. task[u].pc \in Active /\ task[u].pc \in Unfinished
      BY <1>5, <3>1, Zenon DEF Active, Unfinished
    <3>3. u = f => ~retires
      BY <3>2, ActiveFacts, Zenon DEF retires
    <3> QED BY <1>15, <3>3, Zenon
  <2>5. task'[u].pc # "settled" => task'[u].pc = task[u].pc /\ task'[u].got = task[u].got
    BY <1>5, Zenon
  <2>6. task'[u].pc = "settled" => task[u].pc \in {"wait", "settled"}
    BY <1>5, Zenon
  <2>7. CASE task'[u].pc = "settled"
    BY <1>4, <1>5, <2>2, <2>6, <2>7, Zenon DEF StageOk
  <2>8. CASE task'[u].pc # "settled"
    BY SMTT(20), <1>5, <2>2, <2>3, <2>4, <2>5, <2>8 DEF StageOk
  <2> QED BY <2>7, <2>8, Zenon
<1>19. Leaders'
  BY SMTT(20), <1>1, <1>3, <1>5, <1>6, <1>7, <1>15 DEF Leaders
<1>20. Flights'
  <2>1. \A p \in Path : flights'[p] # None => task'[flights'[p]].pc \in Active /\ flight'[flights'[p]].path = p
    BY SMTT(20), <1>1, <1>2, <1>4, <1>5, <1>15 DEF Flights, Types
  <2>2. ASSUME NEW u \in Task, task'[u].at = u
        PROVE  /\ flight'[u].path \in Path
               /\ task'[u].pc \in Active => flights'[flight'[u].path] = u
               /\ flight'[u].closed <=> task'[u].pc \notin Unfinished
               /\ task'[u].pc \in {"settle", "wait", "settled"}
                    => flight'[u].res = Failed \/ flight'[u].res \in stored' \cup {<<>>}
               /\ flight'[u].done => task'[u].pc \in {"wait", "settled"}
    BY SMTT(20), <1>1, <1>2, <1>4, <1>5, <1>15, <2>2 DEF Flights
  <2>3. ASSUME NEW u \in Task, holds'[u] = {}
        PROVE  flight'[u].inode = None
    <3>1. CASE u = f
      BY <1>9, <1>12, <1>13, <1>10, <2>3, <3>1, Zenon
    <3>2. CASE u # f
      BY SMTT(20), <1>1, <1>7, <1>15, <2>3, <3>2 DEF Flights
    <3> QED BY <3>1, <3>2, Zenon
  <2> QED BY <2>1, <2>2, <2>3, Zenon DEF Flights
<1>21. Sized'
  <2>1. SUFFICES ASSUME NEW u \in Task, task'[u].pc \in {"hold", "wait"}, task'[u].at # u, task'[u].src.size >= 0
                 PROVE  flight'[task'[u].at].size = task'[u].src.size
    BY Zenon DEF Sized
  <2>2. task[u].pc \in {"hold", "wait"} /\ task'[u].at = task[u].at /\ task'[u].src = task[u].src
    BY <1>5, <2>1, Zenon
  <2>3. task[u].at \in Task
    BY <1>1, <1>3, <2>2, ZenonT(30) DEF Stages, StageOk
  <2> QED BY SMTT(20), <1>1, <1>15, <2>1, <2>2, <2>3 DEF Sized
<1>22. Locked'
  BY SMTT(20), <1>1, <1>2, <1>5, <1>16 DEF Locked
<1>23. OnePath'
  BY <1>1, <1>5, <1>15, <1>16 DEF OnePath
<1>24. \A u \in Task : flight'[u].inode # None => bytes'[flight'[u].inode] = bytes[flight'[u].inode]
  <2>1. SUFFICES ASSUME NEW u \in Task, flight'[u].inode # None
                 PROVE  bytes'[flight'[u].inode] = bytes[flight'[u].inode]
    BY Zenon
  <2>2. holds'[u] # {} /\ flight'[u].inode \in Inode
    BY SMTT(20), <1>14, <1>20, <2>1 DEF Flights, FlightRecord
  <2>3. InUse(flight'[u].inode, file', flight', holds')
    BY <2>2, Zenon DEF InUse
  <2> QED BY <1>8, <2>2, <2>3, Zenon
<1>25. Contents'
  <2>1. SUFFICES ASSUME NEW u \in Task
                 PROVE  /\ task'[u].pc \in Unfinished /\ flight'[u].inode = None
                             => file'[flight'[u].path] = None
                        /\ task'[u].pc \in Active /\ flight'[u].inode # None
                             => bytes'[flight'[u].inode] = flight'[u].shown
                        /\ flight'[u].inode # None => Prefix(flight'[u].shown, bytes'[flight'[u].inode])
    BY Zenon DEF Contents, Prefix
  <2>2. ASSUME task'[u].pc \in Unfinished, flight'[u].inode = None
        PROVE  file'[flight'[u].path] = None
    <3>1. task[u].pc \in Unfinished /\ task[u].pc \in Active
      BY <1>4, <1>5, <2>2, Zenon DEF Active
    <3>2. flight[u].path \in Path /\ ~flight[u].closed
      BY <3>1, ActiveFacts, Zenon
    <3>3. flight'[u] = flight[u]
      BY <1>15, <3>2, Zenon DEF retires
    <3>4. file[flight[u].path] = None
      BY <1>1, <2>2, <3>1, <3>3, Zenon DEF Contents
    <3> QED BY <1>16, <3>2, <3>3, <3>4, Zenon
  <2>3. ASSUME flight'[u].inode # None
        PROVE  /\ task'[u].pc \in Active => bytes'[flight'[u].inode] = flight'[u].shown
               /\ Prefix(flight'[u].shown, bytes'[flight'[u].inode])
    <3>1. flight'[u] = flight[u] /\ bytes'[flight[u].inode] = bytes[flight[u].inode]
      BY <1>15, <1>24, <2>3, Zenon
    <3>2. task'[u].pc \in Active => task[u].pc \in Active
      BY <1>4, <1>5, Zenon
    <3> QED BY <1>1, <2>3, <3>1, <3>2, Zenon DEF Contents
  <2> QED BY <2>2, <2>3, Zenon
<1> QED BY <1>17, <1>18, <1>19, <1>20, <1>21, <1>22, <1>23, <1>25, Zenon DEF SpoolInv

\* The result a task takes from a flight that announced one.
LEMMA Outcome ==
    ASSUME SpoolInv, NEW t \in Task, task[t].pc = "wait", flight[task[t].at].done
    PROVE  /\ task[t].at \in Task /\ t \in holds[task[t].at]
           /\ task[t].src \in Source /\ task[t].got = None /\ task[t] \in TaskRecord
           /\ flight[task[t].at].res \in stored \cup {<<>>, Failed} /\ stored \subseteq Content
<1>1. Types /\ Stages /\ Leaders /\ Flights
  BY Zenon DEF SpoolInv
<1>2. task[t] \in TaskRecord /\ stored \subseteq Content
  BY <1>1, Zenon DEF Types
<1>3. /\ task[t].at # None /\ t \in holds[task[t].at] /\ task[t].src \in Source /\ task[t].got = None
  BY <1>1, Zenon DEF Stages, StageOk
<1>4. task[t].at \in Task
  BY <1>2, <1>3, Zenon DEF TaskRecord
<1> DEFINE f == task[t].at
<1>5. f \in Task /\ task[f].at = f /\ flight[f].done
  BY <1>1, <1>3, <1>4, Zenon DEF Leaders
<1> HIDE DEF f
<1>6. task[f].pc \in {"wait", "settled"}
  BY <1>1, <1>5, Zenon DEF Flights
<1>7. flight[f].res = Failed \/ flight[f].res \in stored \cup {<<>>}
  BY <1>1, <1>5, <1>6, Zenon DEF Flights
<1> QED BY <1>2, <1>3, <1>4, <1>7, Zenon DEF f

\* A task sees its outcome and lets its hold go.
LEMMA WaitKeeps ==
    ASSUME SpoolInv, NEW t \in Task, Wait(t)
    PROVE  SpoolInv'
<1> DEFINE f == task[t].at
           got == IF Expected(flight[f].res, Src(t)) THEN flight[f].res ELSE Failed
           v == [task[t] EXCEPT !.pc = "settled", !.got = got]
<1>1. /\ task[t].pc = "wait" /\ flight[f].done /\ Drop(f, t)
      /\ UNCHANGED <<flights, openMu, stored, sweep>>
      /\ task' = [task EXCEPT ![t].pc = "settled", ![t].got = got]
  BY Zenon DEF Wait
<1>2. /\ f \in Task /\ t \in holds[f] /\ task[t] \in TaskRecord
      /\ flight[f].res \in stored \cup {<<>>, Failed} /\ stored \subseteq Content
  BY <1>1, Outcome, Zenon
<1>3. got \in Content \cup {Failed}
  <2>1. flight[f].res \in Content \cup {Failed}
    BY <1>2, EmptyContent, Zenon
  <2>2. got = flight[f].res \/ got = Failed
    BY Zenon
  <2> HIDE DEF got
  <2> QED BY <2>1, <2>2, Zenon
<1>4. task' = [task EXCEPT ![t] = v]
  BY <1>1, Zenon
<1> HIDE DEF f, got
<1>5. v \in TaskRecord
  BY <1>2, <1>3, Zenon DEF TaskRecord, Stage
<1>6. /\ v.pc = "settled" /\ v.src = task[t].src /\ v.at = task[t].at /\ v.path = task[t].path
      /\ v.inode = task[t].inode /\ v.tries = task[t].tries /\ v.body = task[t].body
  BY <1>2, Zenon DEF TaskRecord
<1> HIDE DEF v
<1> QED BY <1>1, <1>2, <1>4, <1>5, <1>6, DropKeeps, Zenon

\* A client closes its stream.
LEMMA ClientDetachKeeps ==
    ASSUME SpoolInv, NEW t \in Task, ClientDetach(t)
    PROVE  SpoolInv'
<1>1. PICK f \in Task : Reader(t) \in holds[f] /\ Drop(f, Reader(t))
  BY Zenon DEF ClientDetach
<1>2. UNCHANGED <<flights, openMu, task, stored, sweep>>
  BY Zenon DEF ClientDetach
<1>3. \A u \in Task : Reader(t) # u
  BY Apart, Zenon
<1> DEFINE v == task[t]
           h == Reader(t)
<1>4. v \in TaskRecord /\ task' = [task EXCEPT ![t] = v]
  BY <1>2, Zenon DEF SpoolInv, Types
<1>5. h \in holds[f] /\ Drop(f, h) /\ \A u \in Task : h # u
  BY <1>1, <1>3, Zenon
<1>6. /\ v.pc = task[t].pc /\ v.src = task[t].src /\ v.at = task[t].at /\ v.path = task[t].path
      /\ v.inode = task[t].inode /\ v.tries = task[t].tries /\ v.body = task[t].body
      /\ v.got = task[t].got
  BY Zenon
<1> HIDE DEF v, h
<1> QED BY <1>2, <1>4, <1>5, <1>6, DropKeeps, ZenonT(30)

\* The sweep takes openMu and lists only what no flight is registered on.
LEMMA SweepBeginKeeps ==
    ASSUME SpoolInv, SweepBegin
    PROVE  SpoolInv'
<1>1. Types /\ Stages /\ Leaders /\ Flights /\ Sized /\ Locked /\ OnePath /\ Contents
  BY Zenon DEF SpoolInv
<1>2. /\ file' = file /\ bytes' = bytes /\ flights' = flights /\ flight' = flight /\ holds' = holds
      /\ task' = task /\ stored' = stored /\ openMu = None /\ openMu' = Sweeper
      /\ sweep' = {p \in Path : file[p] # None /\ flights[p] = None}
  BY Zenon DEF SweepBegin, diskVars
<1>3. Types'
  <2>1. sweep' \subseteq Path /\ openMu' \in Task \cup {Sweeper, None}
    BY <1>2, Zenon
  <2> QED BY <1>1, <1>2, <2>1, Zenon DEF Types
<1>4. /\ Stages' /\ Leaders' /\ Flights' /\ Sized' /\ OnePath' /\ Contents'
  <2>1. Stages'
    BY <1>1, <1>2, Zenon DEF Stages, StageOk
  <2>2. Leaders'
    BY <1>1, <1>2, Zenon DEF Leaders
  <2>3. Flights'
    BY <1>1, <1>2 DEF Flights
  <2>4. Sized'
    BY <1>1, <1>2, Zenon DEF Sized
  <2>5. OnePath'
    BY <1>1, <1>2, Zenon DEF OnePath
  <2>6. Contents'
    BY <1>1, <1>2, Zenon DEF Contents
  <2> QED BY <2>1, <2>2, <2>3, <2>4, <2>5, <2>6, Zenon
<1>5. \A u \in Task : task[u].pc # "register"
  BY <1>1, <1>2, Apart, Zenon DEF Locked
<1>6. Locked'
  BY <1>1, <1>2, <1>5, Zenon DEF Locked
<1> QED BY <1>3, <1>4, <1>6, Zenon DEF SpoolInv

\* The sweep unlinks some of its candidates.
LEMMA SweepUnlinkKeeps ==
    ASSUME SpoolInv, SweepUnlink
    PROVE  SpoolInv'
<1>1. Types /\ Stages /\ Leaders /\ Flights /\ Sized /\ Locked /\ OnePath /\ Contents
  BY Zenon DEF SpoolInv
<1>2. PICK gone \in SUBSET sweep :
        /\ file' = [p \in Path |-> IF p \in gone THEN None ELSE file[p]]
        /\ bytes' = [i \in Inode |-> IF InUse(i, file', flight, holds) THEN bytes[i] ELSE <<>>]
  BY Zenon DEF SweepUnlink
<1>3. /\ flights' = flights /\ flight' = flight /\ holds' = holds
      /\ task' = task /\ stored' = stored /\ openMu = Sweeper /\ openMu' = None /\ sweep' = {}
  BY Zenon DEF SweepUnlink
<1>4. /\ file' \in [Path -> Inode \cup {None}]
      /\ \A p \in Path : file'[p] = file[p] \/ file'[p] = None
  BY <1>1, <1>2, Zenon DEF Types
<1>5. Types'
  <2>1. bytes' \in [Inode -> Content]
    BY <1>1, <1>2, EmptyContent, Zenon DEF Types
  <2> QED BY <1>1, <1>3, <1>4, <2>1, Zenon DEF Types
<1>6. Stages' /\ Leaders' /\ Flights' /\ Sized'
  <2>1. Stages'
    BY <1>1, <1>3, Zenon DEF Stages, StageOk
  <2>2. Leaders'
    BY <1>1, <1>3, Zenon DEF Leaders
  <2>3. Flights'
    BY <1>1, <1>3 DEF Flights
  <2>4. Sized'
    BY <1>1, <1>3, Zenon DEF Sized
  <2> QED BY <2>1, <2>2, <2>3, <2>4, Zenon
<1>7. \A u \in Task : task[u].pc # "register"
  BY <1>1, <1>3, Apart, Zenon DEF Locked
<1>8. Locked'
  BY <1>1, <1>3, <1>7, Zenon DEF Locked
<1>9. OnePath'
  BY <1>1, <1>3, <1>4 DEF OnePath
<1>10. \A u \in Task : flight[u].inode # None => bytes'[flight[u].inode] = bytes[flight[u].inode]
  <2>1. SUFFICES ASSUME NEW u \in Task, flight[u].inode # None
                 PROVE  bytes'[flight[u].inode] = bytes[flight[u].inode]
    BY Zenon
  <2>2. holds[u] # {} /\ flight[u].inode \in Inode
    BY <1>1, <2>1 DEF Flights, Types, FlightRecord
  <2>3. InUse(flight[u].inode, file', flight, holds)
    BY <2>2, Zenon DEF InUse
  <2> QED BY <1>2, <2>2, <2>3, Zenon
<1>11. Contents'
  <2>1. \A u \in Task : task[u].pc \in Unfinished => flight[u].path \in Path
    BY ActiveFacts, Zenon DEF Active
  <2> QED BY <1>1, <1>3, <1>4, <1>10, <2>1, Zenon DEF Contents
<1> QED BY <1>5, <1>6, <1>8, <1>9, <1>11, Zenon DEF SpoolInv

\* A restart finds the named files only.
LEMMA CrashKeeps ==
    ASSUME SpoolInv, Crash
    PROVE  SpoolInv'
<1>1. Types /\ OnePath
  BY Zenon DEF SpoolInv
<1>2. bytes' \in [Inode -> Content]
  <2> DEFINE named(i) == \E p \in Path : file[p] = i
  <2>1. bytes' = [i \in Inode |-> IF named(i) THEN bytes[i] ELSE <<>>]
    BY Zenon DEF Crash
  <2> HIDE DEF named
  <2> QED BY <1>1, <2>1, EmptyContent, Zenon DEF Types
<1>3. Quiet'
  BY <1>1, <1>2, Zenon DEF Crash, Quiet, Types, OnePath
<1> QED BY <1>3, QuietInvPrime, Zenon

\* A step that changes nothing of it.
LEMMA StutterKeeps ==
    ASSUME SpoolInv, UNCHANGED vars
    PROVE  SpoolInv'
<1>1. /\ file' = file /\ bytes' = bytes /\ flights' = flights /\ flight' = flight /\ holds' = holds
      /\ openMu' = openMu /\ task' = task /\ stored' = stored /\ sweep' = sweep
  BY Zenon DEF vars, diskVars
<1>2. Types /\ Stages /\ Leaders /\ Flights /\ Sized /\ Locked /\ OnePath /\ Contents
  BY Zenon DEF SpoolInv
<1>3. Types' /\ Sized' /\ Locked'
  BY <1>1, <1>2, Zenon DEF Types, Sized, Locked
<1>4. Stages' /\ Leaders'
  BY <1>1, <1>2, Zenon DEF Stages, StageOk, Leaders
<1>5. Flights'
  BY <1>1, <1>2, Zenon DEF Flights
<1>6. OnePath' /\ Contents'
  BY <1>1, <1>2, Zenon DEF OnePath, Contents
<1> QED BY <1>3, <1>4, <1>5, <1>6, Zenon DEF SpoolInv

\* The image of a finite set is no larger than the set.
LEMMA ImageBound ==
    ASSUME NEW S, IsFiniteSet(S), NEW f
    PROVE  IsFiniteSet({f[x] : x \in S}) /\ Cardinality({f[x] : x \in S}) <= Cardinality(S)
<1> DEFINE T == {f[x] : x \in S}
           g == [x \in S |-> f[x]]
<1>1. g \in Surjection(S, T)
  BY Zenon DEF Surjection
<1> HIDE DEF g, T
<1>2. IsFiniteSet(T) /\ Cardinality(T) <= Cardinality(S)
  BY <1>1, FS_Surjection, Zenon
<1> QED
  BY <1>2, Zenon DEF T

\* The union of two finite sets is no larger than both together.
LEMMA UnionBound ==
    ASSUME NEW S, IsFiniteSet(S), NEW T, IsFiniteSet(T)
    PROVE  IsFiniteSet(S \cup T) /\ Cardinality(S \cup T) <= Cardinality(S) + Cardinality(T)
<1>1. /\ IsFiniteSet(S \cup T)
      /\ Cardinality(S \cup T) = Cardinality(S) + Cardinality(T) - Cardinality(S \cap T)
      /\ Cardinality(S \cap T) \in Nat /\ Cardinality(S) \in Nat /\ Cardinality(T) \in Nat
  BY FS_Union, FS_Intersection, FS_CardinalityType, Zenon
<1> QED
  BY <1>1, SMTT(20)

\* The file created by a spill is no other's.
LEMMA FreshIsFree == FreshFree
<1> DEFINE open == [t \in Task |-> flight[t].inode]
           told == [t \in Task |-> task[t].inode]
           N == {file[p] : p \in Path}
           O == {open[t] : t \in Task}
           T == {told[t] : t \in Task}
<1>1. /\ \A p \in Path : file[p] \in N
      /\ \A t \in Task : flight[t].inode \in O
      /\ \A t \in Task : task[t].inode \in T
  BY Zenon
<1>2. /\ IsFiniteSet(Path) /\ IsFiniteSet(Task) /\ IsFiniteSet(Inode)
      /\ Cardinality(Inode) > Cardinality(Path) + 2 * Cardinality(Task)
  BY SpoolAssumption, Zenon
<1> HIDE DEF open, told
<1>3. /\ IsFiniteSet(N) /\ Cardinality(N) <= Cardinality(Path)
      /\ IsFiniteSet(O) /\ Cardinality(O) <= Cardinality(Task)
      /\ IsFiniteSet(T) /\ Cardinality(T) <= Cardinality(Task)
  BY <1>2, ImageBound, Zenon
<1> HIDE DEF N, O, T
<1>4. PICK i \in Inode : i \notin (N \cup O) \cup T
  <2>1. /\ IsFiniteSet(N \cup O) /\ Cardinality(N \cup O) <= Cardinality(N) + Cardinality(O)
        /\ IsFiniteSet((N \cup O) \cup T)
        /\ Cardinality((N \cup O) \cup T) <= Cardinality(N \cup O) + Cardinality(T)
    BY <1>3, UnionBound, Zenon
  <2> DEFINE n == Cardinality(N)
             o == Cardinality(O)
             d == Cardinality(T)
             no == Cardinality(N \cup O)
             all == Cardinality((N \cup O) \cup T)
             cP == Cardinality(Path)
             cT == Cardinality(Task)
             cI == Cardinality(Inode)
  <2>2. /\ n \in Nat /\ o \in Nat /\ d \in Nat /\ no \in Nat /\ all \in Nat
        /\ cP \in Nat /\ cT \in Nat /\ cI \in Nat
    BY <1>2, <1>3, <2>1, FS_CardinalityType, Zenon
  <2>3. no <= n + o /\ all <= no + d /\ n <= cP /\ o <= cT /\ d <= cT /\ cI > cP + 2 * cT
    BY <1>2, <1>3, <2>1, Zenon
  <2> HIDE DEF n, o, d, no, all, cP, cT, cI
  <2>4. ~(cI <= all)
    BY <2>2, <2>3, SMTT(20)
  <2>5. ~(Cardinality(Inode) <= Cardinality((N \cup O) \cup T))
    BY <2>4, Zenon DEF cI, all
  <2>6. ~(Inode \in SUBSET ((N \cup O) \cup T))
    BY <2>1, <2>5, FS_Subset, Zenon
  <2> QED
    BY <2>6, Zenon
<1>5. /\ \A p \in Path : file[p] # i
      /\ \A t \in Task : flight[t].inode # i
      /\ \A t \in Task : task[t].inode # i
  <2>1. i \notin N /\ i \notin O /\ i \notin T
    BY <1>4, Zenon
  <2> QED
    BY <1>1, <2>1, Zenon
<1>6. ~InUse(i, file, flight, holds)
  BY <1>5, Zenon DEF InUse
<1>7. Fresh \in Inode /\ ~InUse(Fresh, file, flight, holds)
  BY <1>6, Zenon DEF Fresh
<1> QED BY <1>7, Zenon DEF InUse, FreshFree

-----------------------------------------------------------------------------
(* The inductive invariant.                                                *)

\* A byte is written, the body ends or its connection breaks.
LEMMA CopyKeeps ==
    ASSUME SpoolInv, NEW t \in Task, Copy(t)
    PROVE  SpoolInv'
<1>1. task[t].pc = "copy" /\ UNCHANGED <<flights, holds, openMu, stored, sweep>>
  BY Zenon DEF Copy
<1>2. CASE task[t].body # <<>> /\ Write(t, Head(task[t].body)) /\ task' = [task EXCEPT ![t].body = Tail(@)]
  <2>1. FreshFree
    BY FreshIsFree, Zenon
  <2> QED BY <1>1, <1>2, <2>1, WriteKeeps, Zenon
<1>3. CASE task' = [task EXCEPT ![t].body = None, ![t].pc = "finish"] /\ UNCHANGED <<diskVars, flight>>
  BY <1>1, <1>3, CopiedKeeps, Zenon DEF diskVars
<1>4. CASE Retry(t) /\ UNCHANGED <<diskVars, flight>>
  BY <1>1, <1>4, RetryKeeps, Zenon DEF diskVars
<1> QED BY <1>2, <1>3, <1>4, Zenon DEF Copy

\* SpoolInv is inductive: one step of any task, client, sweep or crash.
LEMMA StepKeeps == SpoolInv /\ [Next]_vars => SpoolInv'
<1> SUFFICES ASSUME SpoolInv, [Next]_vars
             PROVE  SpoolInv'
  BY Zenon
<1>1. ASSUME NEW t \in Task, NEW s \in Source, Accept(t, s)
      PROVE  SpoolInv'
  BY <1>1, AcceptKeeps, Zenon
<1>2. ASSUME NEW t \in Task, AcceptSized(t) \/ AcceptHold(t) \/ AcceptOpen(t) \/ AcceptRegister(t)
      PROVE  SpoolInv'
  BY <1>2, AcceptSizedKeeps, AcceptHoldKeeps, AcceptOpenKeeps, AcceptRegisterKeeps, Zenon
<1>3. ASSUME NEW t \in Task, TakeSlot(t) \/ Fetch(t) \/ Copy(t) \/ Finish(t)
      PROVE  SpoolInv'
  BY <1>3, TakeSlotKeeps, FetchKeeps, CopyKeeps, FinishKeeps, Zenon
<1>4. ASSUME NEW t \in Task, Ingest(t) \/ Settle(t) \/ Wait(t)
      PROVE  SpoolInv'
  BY <1>4, IngestKeeps, SettleKeeps, WaitKeeps, Zenon
<1>5. ASSUME NEW t \in Task, ClientAttach(t) \/ ClientDetach(t)
      PROVE  SpoolInv'
  BY <1>5, ClientAttachKeeps, ClientDetachKeeps, Zenon
<1>6. CASE SweepBegin \/ SweepUnlink \/ Crash
  BY <1>6, SweepBeginKeeps, SweepUnlinkKeeps, CrashKeeps, Zenon
<1>7. CASE UNCHANGED vars
  BY <1>7, StutterKeeps, Zenon
<1> QED BY <1>1, <1>2, <1>3, <1>4, <1>5, <1>6, <1>7, Zenon DEF Next, TaskStep

\* SpoolInv holds throughout.
LEMMA Invariant == Spec => []SpoolInv
  BY InitInv, StepKeeps, PTL DEF Spec

\* The invariant is stronger than the soundness of the spool.
LEMMA InvSound == SpoolInv => SpoolSound
<1> SUFFICES ASSUME SpoolInv
             PROVE  SpoolSound
  BY Zenon
<1>1. Types /\ Stages /\ Leaders /\ Flights /\ Sized /\ Contents
  BY Zenon DEF SpoolInv
<1>2. \A t \in Task : task[t] \in TaskRecord /\ flight[t] \in FlightRecord
  BY <1>1, Zenon DEF Types
<1>3. TypeOK
  <2>1. \A i \in Inode : Len(bytes[i]) \in Nat
    BY <1>1, ContentIs, LenOf DEF Types
  <2>2. \A t \in Task :
          /\ task[t].pc \in Stage /\ task[t].src \in Source \cup {None}
          /\ task[t].at \in Task \cup {None} /\ task[t].tries \in 0 .. MaxAttempts
    BY <1>2, Zenon DEF TaskRecord
  <2>3. \A t \in Task : flight[t].path \in Path \cup {None} /\ flight[t].inode \in Inode \cup {None}
    BY <1>2, Zenon DEF FlightRecord
  <2> QED BY <1>1, <2>1, <2>2, <2>3, Zenon DEF TypeOK, Types
<1>4. BytesStable
  <2>1. SUFFICES ASSUME NEW t \in Task
                 PROVE  View(t) = flight[t].shown
    BY Zenon DEF BytesStable
  <2>2. flight[t].shown \in Content /\ flight[t].inode \in Inode \cup {None}
    BY <1>2, Zenon DEF FlightRecord
  <2>3. flight[t].inode # None =>
          bytes[flight[t].inode] \in Content /\ Prefix(flight[t].shown, bytes[flight[t].inode])
    BY <1>1, <2>2 DEF Types, Contents
  <2> QED BY <2>2, <2>3, ViewPrefix, Zenon
<1>5. RegisteredLive
  <2>1. SUFFICES ASSUME NEW p \in Path, flights[p] # None
                 PROVE  holds[flights[p]] # {}
    BY Zenon DEF RegisteredLive, Retired
  <2>2. flights[p] \in Task /\ task[flights[p]].pc \in Active
    BY <1>1, <2>1, ZenonT(30) DEF Types, Flights
  <2>3. flights[p] \in holds[flights[p]]
    BY <2>2, ActiveFacts, Zenon
  <2> QED BY <2>3, Zenon
<1>6. FollowersSized
  BY <1>1, Zenon DEF Sized, FollowersSized, Src
<1> QED BY <1>3, <1>4, <1>5, <1>6, Zenon DEF SpoolSound

\* Whatever is adopted, spilled, retried, unlinked, swept or lost in a crash,
\* for any number of tasks and any upstream: a registered flight can be held, a
\* follower has its leader's length, and holders read what the writer appended.
THEOREM SpoolIsSound == Spec => []SpoolSound
  BY Invariant, InvSound, PTL

-----------------------------------------------------------------------------
(* The sweep.                                                              *)

\* A sweep whose candidates were listed before a flight came cannot unlink its
\* file: Accept takes openMu, and Sweep holds it from the listing to the unlink.
THEOREM SweepSpares == Spec => SweepSparesFlights
<1>1. SpoolInv /\ [Next]_vars
        => [\A p \in Path : p \in sweep \ sweep' /\ file'[p] # file[p] => flights[p] = None]_vars
  <2> SUFFICES ASSUME SpoolInv, NEW p \in Path, p \in sweep
               PROVE  flights[p] = None
    BY Zenon
  <2> QED BY Zenon DEF SpoolInv, Locked
<1> QED BY <1>1, Invariant, PTL DEF Spec, SweepSparesFlights
-----------------------------------------------------------------------------
(* Delivery.                                                               *)

\* Steps that neither start nor settle a task, and store nothing.
LEMMA Unmoved ==
    ASSUME \A u \in Task : task'[u].src = task[u].src /\ task'[u].got = task[u].got, stored' = stored
    PROVE  UNCHANGED Promise!deliveryVars
  BY DEF Promise!deliveryVars

\* A step of one task that keeps its source and what it was settled with.
LEMMA TaskUnmoved ==
    ASSUME SpoolInv, NEW t \in Task, NEW v, task' = [task EXCEPT ![t] = v],
           v.src = task[t].src, v.got = task[t].got, stored' = stored
    PROVE  UNCHANGED Promise!deliveryVars
<1>1. \A u \in Task : task'[u] = IF u = t THEN v ELSE task[u]
  BY Zenon DEF SpoolInv, Types
<1> QED BY <1>1, Unmoved, Zenon

\* One record of a function changed, its source kept: the other fields of all.
LEMMA GotOf ==
    ASSUME NEW S, NEW t \in S, NEW v, NEW f, NEW g, v.src = f[t].src,
           \A u \in S : g[u] = IF u = t THEN v ELSE f[u]
    PROVE  /\ [u \in S |-> g[u].src] = [u \in S |-> f[u].src]
           /\ [u \in S |-> g[u].got] = [[u \in S |-> f[u].got] EXCEPT ![t] = v.got]
<1>1. \A u \in S : g[u].src = f[u].src
  BY Zenon
<1>2. \A u \in S : g[u].got = IF u = t THEN v.got ELSE f[u].got
  BY Zenon
<1>3. [u \in S |-> g[u].src] = [u \in S |-> f[u].src]
  BY <1>1, Zenon
<1>4. [u \in S |-> g[u].got] = [u \in S |-> IF u = t THEN v.got ELSE f[u].got]
  BY <1>2, Zenon
<1>5. [u \in S |-> IF u = t THEN v.got ELSE f[u].got] = [[u \in S |-> f[u].got] EXCEPT ![t] = v.got]
  BY Zenon
<1> QED BY <1>3, <1>4, <1>5, Zenon

\* One record changed, the outcome kept.
LEMMA SrcOf ==
    ASSUME NEW S, NEW t \in S, NEW v, NEW f, NEW g, v.got = f[t].got,
           \A u \in S : g[u] = IF u = t THEN v ELSE f[u]
    PROVE  /\ [u \in S |-> g[u].got] = [u \in S |-> f[u].got]
           /\ [u \in S |-> g[u].src] = [[u \in S |-> f[u].src] EXCEPT ![t] = v.src]
<1>1. \A u \in S : g[u].got = f[u].got
  BY Zenon
<1>2. \A u \in S : g[u].src = IF u = t THEN v.src ELSE f[u].src
  BY Zenon
<1>3. [u \in S |-> g[u].got] = [u \in S |-> f[u].got]
  BY <1>1, Zenon
<1>4. [u \in S |-> g[u].src] = [u \in S |-> IF u = t THEN v.src ELSE f[u].src]
  BY <1>2, Zenon
<1>5. [u \in S |-> IF u = t THEN v.src ELSE f[u].src] = [[u \in S |-> f[u].src] EXCEPT ![t] = v.src]
  BY Zenon
<1> QED BY <1>3, <1>4, <1>5, Zenon

\* One task changed, its source kept.
LEMMA TaskGot ==
    ASSUME SpoolInv, NEW t \in Task, NEW v, task' = [task EXCEPT ![t] = v], v.src = task[t].src
    PROVE  /\ [u \in Task |-> task'[u].src] = [u \in Task |-> task[u].src]
           /\ [u \in Task |-> task'[u].got] = [[u \in Task |-> task[u].got] EXCEPT ![t] = v.got]
<1> DEFINE after == task'
<1>1. \A u \in Task : after[u] = IF u = t THEN v ELSE task[u]
  BY Zenon DEF SpoolInv, Types
<1> HIDE DEF after
<1>2. /\ [u \in Task |-> after[u].src] = [u \in Task |-> task[u].src]
      /\ [u \in Task |-> after[u].got] = [[u \in Task |-> task[u].got] EXCEPT ![t] = v.got]
  BY <1>1, GotOf, Zenon
<1> QED BY <1>2, Zenon DEF after

\* A task settled: a failure, or stored content that fits its source.
LEMMA TaskSettled ==
    ASSUME SpoolInv, NEW t \in Task, task[t].pc \notin {"idle", "settled"}, stored' = stored,
           NEW v, task' = [task EXCEPT ![t] = v], v.src = task[t].src,
           v.got \in Content \cup {<<>>, Failed},
           v.got = Failed \/ (Promise!Fits(v.got, task[t].src) /\ (v.got \in stored \/ v.got = <<>>))
    PROVE  Promise!DeliveryNext
<1>1. task \in [Task -> TaskRecord] /\ task[t].src \in Source /\ task[t].got = None
  BY Zenon DEF SpoolInv, Types, Stages, StageOk
<1>2. task[t].src # None
  BY <1>1, Apart, Zenon
<1>3. /\ [u \in Task |-> task'[u].src] = [u \in Task |-> task[u].src]
      /\ [u \in Task |-> task'[u].got] = [[u \in Task |-> task[u].got] EXCEPT ![t] = v.got]
  BY TaskGot, Zenon
<1>4. Promise!Settle(t, v.got)
  BY <1>1, <1>2, <1>3, Zenon DEF Promise!Settle
<1> QED BY <1>4, Zenon DEF Promise!DeliveryNext

\* Accept: an idle task asks.
LEMMA AcceptAsks ==
    ASSUME SpoolInv, NEW t \in Task, NEW s \in Source, Accept(t, s)
    PROVE  Promise!DeliveryNext
<1>1. /\ task \in [Task -> TaskRecord] /\ task[t].pc = "idle" /\ task[t].src = None /\ task[t].got = None
      /\ stored' = stored
  BY Zenon DEF SpoolInv, Types, Stages, StageOk, Accept
<1>2. PICK pc, leader : task' = [task EXCEPT ![t] = [Idle EXCEPT !.src = s, !.at = leader, !.pc = pc]]
  BY Zenon DEF Accept
<1> DEFINE v == [Idle EXCEPT !.src = s, !.at = leader, !.pc = pc]
<1>3. v.src = s /\ v.got = None
  BY DEF Idle
<1>4. \A u \in Task : task'[u] = IF u = t THEN v ELSE task[u]
  BY <1>1, <1>2, Zenon
<1> HIDE DEF v
<1>5. /\ [u \in Task |-> task'[u].got] = [u \in Task |-> task[u].got]
      /\ [u \in Task |-> task'[u].src] = [[u \in Task |-> task[u].src] EXCEPT ![t] = s]
  BY <1>1, <1>3, <1>4, SrcOf, Zenon
<1>6. Promise!Ask(t, s)
  BY <1>1, <1>5, Zenon DEF Promise!Ask
<1> QED BY <1>6, Zenon DEF Promise!DeliveryNext

\* A refused task is settled with a failure.
LEMMA RefuseSettles ==
    ASSUME SpoolInv, NEW t \in Task, task[t].pc \notin {"idle", "settled"}, Refuse(t), stored' = stored
    PROVE  Promise!DeliveryNext
<1> DEFINE v == [task[t] EXCEPT !.pc = "settled", !.got = Failed]
<1>1. task[t] \in TaskRecord
  BY Zenon DEF SpoolInv, Types
<1>2. v.src = task[t].src /\ v.got = Failed
  BY <1>1 DEF TaskRecord
<1>3. task' = [task EXCEPT ![t] = v]
  BY Zenon DEF Refuse
<1> HIDE DEF v
<1> QED BY <1>2, <1>3, TaskSettled, Zenon

\* Wait: the flight's outcome, checked against the task's own source.
LEMMA WaitSettles ==
    ASSUME SpoolInv, NEW t \in Task, Wait(t)
    PROVE  Promise!DeliveryNext
<1>1. task[t].pc = "wait" /\ flight[task[t].at].done /\ stored' = stored
  BY Zenon DEF Wait
<1> DEFINE res == flight[task[t].at].res
           got == IF Expected(res, task[t].src) THEN res ELSE Failed
           v == [task[t] EXCEPT !.pc = "settled", !.got = got]
<1>2. /\ task[t].src \in Source /\ task[t] \in TaskRecord
      /\ res \in stored \cup {<<>>, Failed} /\ stored \subseteq Content
  BY <1>1, Outcome, Zenon
<1>3. task' = [task EXCEPT ![t] = v]
  BY Zenon DEF Wait, Src
<1>4. got \in Content \cup {<<>>, Failed}
  BY <1>2, Zenon
<1>5. got = Failed \/ (Promise!Fits(got, task[t].src) /\ (got \in stored \/ got = <<>>))
  <2>1. Expected(res, task[t].src) => Promise!Fits(res, task[t].src) /\ res # Failed
    BY Zenon DEF Expected, Promise!Fits
  <2> QED BY <1>2, <2>1, Zenon
<1> HIDE DEF got
<1>6. v.src = task[t].src /\ v.got = got
  BY <1>2 DEF TaskRecord
<1> HIDE DEF v
<1> QED BY <1>1, <1>3, <1>4, <1>5, <1>6, TaskSettled, Zenon

\* Ingest: what the flight shows is kept, unless it is empty or refused.
LEMMA IngestKeepsBody ==
    ASSUME SpoolInv, NEW t \in Task, Ingest(t)
    PROVE  Promise!DeliveryNext \/ UNCHANGED Promise!deliveryVars
<1>1. task[t].pc = "ingest" /\ Goto(t, "settle") /\ stored' \in {stored, stored \cup {View(t)}}
  BY Zenon DEF Ingest
<1>2. task \in [Task -> TaskRecord] /\ task[t] \in TaskRecord
  BY Zenon DEF SpoolInv, Types
<1>3. View(t) \in Content
  BY <1>1, ActiveFacts, Zenon DEF Active
<1> DEFINE v == [task[t] EXCEPT !.pc = "settle"]
<1>4. v.src = task[t].src /\ v.got = task[t].got
  BY <1>2 DEF TaskRecord
<1>5. task' = [task EXCEPT ![t] = v]
  BY <1>1, Zenon DEF Goto
<1> HIDE DEF v
<1>6. \A u \in Task : task'[u].src = task[u].src /\ task'[u].got = task[u].got
  BY <1>2, <1>4, <1>5, Zenon
<1>7. CASE stored' = stored
  BY <1>6, <1>7, Unmoved, Zenon
<1>8. CASE stored' = stored \cup {View(t)}
  <2>1. /\ [u \in Task |-> task'[u].src] = [u \in Task |-> task[u].src]
        /\ [u \in Task |-> task'[u].got] = [u \in Task |-> task[u].got]
    BY <1>6, Zenon
  <2>2. Promise!Keep(View(t))
    BY <1>8, <2>1, Zenon DEF Promise!Keep
  <2> QED BY <1>3, <2>2, Zenon DEF Promise!DeliveryNext
<1> QED BY <1>1, <1>7, <1>8, Zenon

\* The steps of a task that its caller does not see.
LEMMA GotoUnseen ==
    ASSUME SpoolInv, NEW t \in Task, NEW stage, Goto(t, stage), stored' = stored
    PROVE  UNCHANGED Promise!deliveryVars
<1> DEFINE v == [task[t] EXCEPT !.pc = stage]
<1>1. v.src = task[t].src /\ v.got = task[t].got
  <2>1. task[t] \in TaskRecord
    BY Zenon DEF SpoolInv, Types
  <2> QED BY <2>1 DEF TaskRecord
<1>2. task' = [task EXCEPT ![t] = v]
  BY Zenon DEF Goto
<1> HIDE DEF v
<1> QED BY <1>1, <1>2, TaskUnmoved, Zenon

\* A failed attempt.
LEMMA RetryUnseen ==
    ASSUME SpoolInv, NEW t \in Task, Retry(t), stored' = stored
    PROVE  UNCHANGED Promise!deliveryVars
<1> DEFINE tries == task[t].tries + 1
           v == [task[t] EXCEPT !.tries = tries, !.body = None, !.err = (tries = MaxAttempts),
                                !.pc = IF tries = MaxAttempts THEN "finish" ELSE "fetch"]
<1>1. v.src = task[t].src /\ v.got = task[t].got
  <2>1. task[t] \in TaskRecord
    BY Zenon DEF SpoolInv, Types
  <2> QED BY <2>1 DEF TaskRecord
<1>2. task' = [task EXCEPT ![t] = v]
  BY Zenon DEF Retry
<1> HIDE DEF v
<1> QED BY <1>1, <1>2, TaskUnmoved, Zenon

\* Steps that leave the tasks and storage alone.
LEMMA Aside ==
    ASSUME UNCHANGED <<task, stored>>
    PROVE  UNCHANGED Promise!deliveryVars
  BY Unmoved, Zenon

\* Opening the spool and registering the flight.
LEMMA AcceptUnseen ==
    ASSUME SpoolInv, NEW t \in Task, AcceptRegister(t) \/ (\E p : Open(t, p)), stored' = stored
    PROVE  UNCHANGED Promise!deliveryVars
<1>1. task[t] \in TaskRecord
  BY Zenon DEF SpoolInv, Types
<1>2. ASSUME NEW i, NEW p, task' = [task EXCEPT ![t].path = p, ![t].inode = i, ![t].pc = "register"]
      PROVE  UNCHANGED Promise!deliveryVars
  <2> DEFINE v == [task[t] EXCEPT !.path = p, !.inode = i, !.pc = "register"]
  <2>1. v.src = task[t].src /\ v.got = task[t].got
    BY <1>1 DEF TaskRecord
  <2>2. task' = [task EXCEPT ![t] = v]
    BY <1>2, Zenon
  <2> HIDE DEF v
  <2> QED BY <2>1, <2>2, TaskUnmoved, Zenon
<1>3. ASSUME task' = [task EXCEPT ![t].pc = "slot", ![t].at = t, ![t].inode = None]
      PROVE  UNCHANGED Promise!deliveryVars
  <2> DEFINE v == [task[t] EXCEPT !.pc = "slot", !.at = t, !.inode = None]
  <2>1. v.src = task[t].src /\ v.got = task[t].got
    BY <1>1 DEF TaskRecord
  <2>2. task' = [task EXCEPT ![t] = v]
    BY <1>3, Zenon
  <2> HIDE DEF v
  <2> QED BY <2>1, <2>2, TaskUnmoved, Zenon
<1> QED BY <1>2, <1>3, Zenon DEF AcceptRegister, Open

\* Fetching and copying.
LEMMA CopyUnseen ==
    ASSUME SpoolInv, NEW t \in Task, Fetch(t) \/ Copy(t)
    PROVE  UNCHANGED Promise!deliveryVars
<1>1. task[t] \in TaskRecord
  BY Zenon DEF SpoolInv, Types
<1>2. stored' = stored
  BY Zenon DEF Fetch, Copy
<1>3. ASSUME NEW stage, NEW b, task' = [task EXCEPT ![t].pc = stage, ![t].body = b]
      PROVE  UNCHANGED Promise!deliveryVars
  <2> DEFINE v == [task[t] EXCEPT !.pc = stage, !.body = b]
  <2>1. v.src = task[t].src /\ v.got = task[t].got
    BY <1>1 DEF TaskRecord
  <2>2. task' = [task EXCEPT ![t] = v]
    BY <1>3, Zenon
  <2> HIDE DEF v
  <2> QED BY <1>2, <2>1, <2>2, TaskUnmoved, Zenon
<1>4. ASSUME NEW stage, NEW b, task' = [task EXCEPT ![t].body = b, ![t].pc = stage]
      PROVE  UNCHANGED Promise!deliveryVars
  <2> DEFINE v == [task[t] EXCEPT !.body = b, !.pc = stage]
  <2>1. v.src = task[t].src /\ v.got = task[t].got
    BY <1>1 DEF TaskRecord
  <2>2. task' = [task EXCEPT ![t] = v]
    BY <1>4, Zenon
  <2> HIDE DEF v
  <2> QED BY <1>2, <2>1, <2>2, TaskUnmoved, Zenon
<1>5. ASSUME task' = [task EXCEPT ![t].body = Tail(@)]
      PROVE  UNCHANGED Promise!deliveryVars
  <2> DEFINE v == [task[t] EXCEPT !.body = Tail(@)]
  <2>1. v.src = task[t].src /\ v.got = task[t].got
    BY <1>1 DEF TaskRecord
  <2>2. task' = [task EXCEPT ![t] = v]
    BY <1>5, Zenon
  <2> HIDE DEF v
  <2> QED BY <1>2, <2>1, <2>2, TaskUnmoved, Zenon
<1>6. CASE Fetch(t)
  BY <1>2, <1>3, <1>6, RetryUnseen, Zenon DEF Fetch
<1>7. CASE Copy(t)
  BY <1>2, <1>4, <1>5, <1>7, RetryUnseen, Zenon DEF Copy
<1> QED BY <1>6, <1>7, Zenon

\* A crash restarts.
LEMMA CrashRestarts ==
    ASSUME Crash
    PROVE  Promise!DeliveryNext
<1>1. task' = [t \in Task |-> Idle] /\ stored' = stored
  BY Zenon DEF Crash
<1>2. Idle.src = None /\ Idle.got = None
  BY DEF Idle
<1>3. \A t \in Task : task'[t].src = None /\ task'[t].got = None
  BY <1>1, <1>2, Zenon
<1>4. Promise!Restart
  BY <1>1, <1>3, Zenon DEF Promise!Restart
<1> QED BY <1>4, Zenon DEF Promise!DeliveryNext

\* Every step is one the promise allows, or is not seen by any caller.
LEMMA StepDelivers == SpoolInv /\ [Next]_vars => [Promise!DeliveryNext]_(Promise!deliveryVars)
<1> SUFFICES ASSUME SpoolInv, [Next]_vars
             PROVE  Promise!DeliveryNext \/ UNCHANGED Promise!deliveryVars
  BY Zenon
<1> DEFINE Goal == Promise!DeliveryNext \/ UNCHANGED Promise!deliveryVars
<1>1. ASSUME NEW t \in Task, NEW s \in Source, Accept(t, s)
      PROVE  Goal
  BY <1>1, AcceptAsks, Zenon
<1>2. ASSUME NEW t \in Task, AcceptSized(t)
      PROVE  Goal
  <2>1. /\ task[t].pc = "sized" /\ stored' = stored
        /\ Goto(t, "open") \/ Refuse(t) \/ Goto(t, "hold")
    BY <1>2, Zenon DEF AcceptSized
  <2> HIDE DEF Goal
  <2> QED BY <2>1, RefuseSettles, GotoUnseen, Zenon DEF Goal
<1>3. ASSUME NEW t \in Task, AcceptHold(t)
      PROVE  Goal
  <2>1. stored' = stored /\ (Goto(t, "open") \/ Goto(t, "wait"))
    BY <1>3, Zenon DEF AcceptHold
  <2> QED BY <2>1, GotoUnseen, Zenon
<1>4. ASSUME NEW t \in Task, AcceptOpen(t)
      PROVE  Goal
  <2>1. task[t].pc = "open" /\ stored' = stored /\ ((\E p : Open(t, p)) \/ Refuse(t))
    BY <1>4, Zenon DEF AcceptOpen
  <2> QED BY <2>1, AcceptUnseen, RefuseSettles, Zenon
<1>5. ASSUME NEW t \in Task, AcceptRegister(t)
      PROVE  Goal
  <2>1. stored' = stored
    BY <1>5, Zenon DEF AcceptRegister
  <2> QED BY <1>5, <2>1, AcceptUnseen, Zenon
<1>6. ASSUME NEW t \in Task, TakeSlot(t) \/ Finish(t) \/ Settle(t)
      PROVE  Goal
  <2>1. stored' = stored /\ \E stage : Goto(t, stage)
    BY <1>6, Zenon DEF TakeSlot, Finish, Settle
  <2> QED BY <2>1, GotoUnseen, Zenon
<1>7. ASSUME NEW t \in Task, Fetch(t) \/ Copy(t)
      PROVE  Goal
  BY <1>7, CopyUnseen, Zenon
<1>8. ASSUME NEW t \in Task, Ingest(t) \/ Wait(t)
      PROVE  Goal
  BY <1>8, IngestKeepsBody, WaitSettles, Zenon
<1>9. ASSUME NEW t \in Task, ClientAttach(t) \/ ClientDetach(t)
      PROVE  Goal
  <2>1. UNCHANGED <<task, stored>>
    BY <1>9, Zenon DEF ClientAttach, ClientDetach
  <2> QED BY <2>1, Aside, Zenon
<1>10. CASE SweepBegin \/ SweepUnlink \/ UNCHANGED vars
  <2>1. UNCHANGED <<task, stored>>
    BY <1>10, Zenon DEF SweepBegin, SweepUnlink, vars
  <2> QED BY <2>1, Aside, Zenon
<1>11. CASE Crash
  BY <1>11, CrashRestarts, Zenon
<1> HIDE DEF Goal
<1>12. ASSUME NEW t \in Task, TaskStep(t)
       PROVE  Goal
  BY <1>2, <1>3, <1>4, <1>5, <1>6, <1>7, <1>8, <1>12, Zenon DEF TaskStep
<1>13. Goal
  BY <1>1, <1>9, <1>10, <1>11, <1>12, Zenon DEF Next, Goal
<1> QED BY <1>13, Zenon DEF Goal

\* Nobody has asked initially.
LEMMA InitDelivers == Init => Promise!DeliveryInit
<1> SUFFICES ASSUME Init
             PROVE  Promise!DeliveryInit
  BY Zenon
<1>1. task = [t \in Task |-> Idle] /\ stored = {}
  BY Zenon DEF Init
<1>2. Idle.src = None /\ Idle.got = None
  BY DEF Idle
<1>3. \A t \in Task : task[t].src = None /\ task[t].got = None
  BY <1>1, <1>2, Zenon
<1> QED BY <1>1, <1>3, Zenon DEF Promise!DeliveryInit

\* Spool implements Delivery: whichever flight a task attached to, whatever was
\* retried, swept or lost in a crash meanwhile, it is settled once, with a
\* failure or with stored content that is what its own source described.
THEOREM SpoolDelivers == Spec => Delivers
  BY Invariant, InitDelivers, StepDelivers, PTL DEF Spec, Delivers, Promise!DeliverySpec
=============================================================================
