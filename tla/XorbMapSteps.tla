---------------------------- MODULE XorbMapSteps ----------------------------
(***************************************************************************)
(* The inductive invariant of XorbMap, and its preservation by each step   *)
(* of a reader and of the deleter.  What these steps use about the sizes   *)
(* of finite sets is the assumption Counting.                              *)
(***************************************************************************)
EXTENDS XorbMap, TLAPS

\* The stages inside a fill (the function getOrFill runs once per hash).
Filling == {"fillHit", "fillAcquire", "open", "rename", "map", "add", "evict", "return"}

\* The stages in which a reader has a mapping in hand, or a pointer to one.
Pointing == {"acquire", "fillAcquire", "share", "add", "evict", "held"}

\* The types of the state.
Types ==
    /\ MapTypeOK
    /\ pc \in [Actor -> ReaderStage \cup DeleterStage]
    /\ backend \in [remote : BOOLEAN, mayFail : BOOLEAN]

\* Whoever is at work has a hash.
Wants == \A a \in Actor : pc[a] # "idle" => want[a] \in Hash

\* A flight is led by the one reader that is inside it.
Flights == \A r \in Reader : \A h \in Hash : flight[h] = r <=> pc[r] \in Filling /\ want[r] = h

\* A reader has a mapping exactly in the stages that use it, of its hash or gone.
Sees ==
    \A r \in Reader :
        /\ pc[r] \in Pointing => seen[r] # None
        /\ pc[r] \notin Pointing \cup {"return"} => seen[r] = None
        /\ seen[r] # None => hashOf[seen[r]] \in {None, want[r]}

\* Who is to unmap a mapping is the only one, and nobody holds it any more.
Drops ==
    /\ \A a \in Actor : drop[a] # None <=> pc[a] \in {"evict", "unmap"}
    /\ \A a \in Actor : drop[a] # None => refs[drop[a]] = 0 /\ hashOf[drop[a]] # None
    /\ \A a, b \in Actor : drop[a] = drop[b] /\ drop[a] # None => a = b

\* A count, an entry or a hold is of a mapping that is there, and of the right hash.
Mapped ==
    /\ \A m \in Mapping : hashOf[m] = None => refs[m] = 0
    /\ \A h \in Hash : entry[h] # None => hashOf[entry[h]] = h
    /\ \A r \in Reader : \A m \in Mapping : Holds(r, m) > 0 => hashOf[m] = want[r]

\* The entry a fill is about to add is not there.
Misses ==
    \A r \in Reader :
        /\ pc[r] \in {"open", "rename", "map", "add"} => entry[want[r]] = None
        /\ pc[r] = "fillAcquire" => entry[want[r]] \in {None, seen[r]}

\* The inductive invariant of the mapping cache.
XorbMapInv ==
    /\ Types /\ Wants /\ Flights /\ Sees /\ Drops /\ Mapped /\ Misses
    /\ RefsExact /\ LRUBounded /\ CopiesCounted

-----------------------------------------------------------------------------
\* Names of different kinds are told apart.
LEMMA Apart ==
    /\ None \notin Hash /\ None \notin Mapping /\ None \notin Reader
    /\ Deleter \notin Reader /\ Deleter \in Actor /\ \A r \in Reader : r \in Actor /\ r # Deleter
BY XorbMapAssumption, Zenon DEF Actor

\* What the type invariant says of what a reader's step leaves alone.
LEMMA OtherTypes ==
    ASSUME XorbMapInv
    PROVE  /\ lru \in Seq(Hash) /\ flight \in [Hash -> Reader \cup {None}]
           /\ copies \subseteq Hash /\ live \in [Hash -> Nat]
           /\ seen \in [Reader -> Mapping \cup {None}] /\ entry \in [Hash -> Mapping \cup {None}]
           /\ refs \in [Mapping -> Nat] /\ hashOf \in [Mapping -> Hash \cup {None}]
           /\ want \in [Actor -> Hash \cup {None}] /\ drop \in [Actor -> Mapping \cup {None}]
           /\ pc \in [Actor -> ReaderStage \cup DeleterStage]
BY Zenon DEF XorbMapInv, Types, MapTypeOK

\* A mapping with a hold is one.
LEMMA HeldIs ==
    ASSUME XorbMapInv, NEW m \in Mapping, refs[m] > 0
    PROVE  hashOf[m] # None /\ \A a \in Actor : drop[a] # m
<1>1. refs[m] # 0
  OBVIOUS
<1>2. \A n \in Mapping : hashOf[n] = None => refs[n] = 0
  BY Zenon DEF XorbMapInv, Mapped
<1>3. \A a \in Actor : drop[a] # None => refs[drop[a]] = 0
  BY Zenon DEF XorbMapInv, Drops
<1>4. m # None
  BY Apart, Zenon
<1> QED
  BY <1>1, <1>2, <1>3, <1>4, Zenon

\* A step that changes no hold keeps the accounts.
LEMMA QuietRefs ==
    ASSUME RefsExact, UNCHANGED <<refs, entry, hashOf, drop>>,
           \A q \in Reader : \A m \in Mapping : Holds(q, m)' = Holds(q, m)
    PROVE  RefsExact'
<1>1. ASSUME NEW m \in Mapping
      PROVE  CacheHolds(m)' = CacheHolds(m) /\ OwnedHolds(m)' = OwnedHolds(m)
  <2>1. CacheHolds(m)' = CacheHolds(m)
    BY Zenon DEF CacheHolds
  <2>2. /\ {q \in Reader : Holds(q, m)' = 1} = {q \in Reader : Holds(q, m) = 1}
        /\ {q \in Reader : Holds(q, m)' = 2} = {q \in Reader : Holds(q, m) = 2}
    BY Zenon
  <2> QED
    BY <2>1, <2>2, Zenon DEF OwnedHolds
<1> QED
  BY <1>1, Zenon DEF RefsExact

\* A step that neither maps nor unmaps keeps the count of copies.
LEMMA QuietCopies ==
    ASSUME CopiesCounted, UNCHANGED <<backend, live, copies, hashOf>>,
           \A q \in Reader : \A h \in Hash : (pc'[q] = "map" /\ want'[q] = h) <=> (pc[q] = "map" /\ want[q] = h)
    PROVE  CopiesCounted'
<1>1. ASSUME NEW h \in Hash
      PROVE  MapsOf(h)' = MapsOf(h) /\ FillsOf(h)' = FillsOf(h)
  <2>1. {q \in Reader : pc'[q] = "map" /\ want'[q] = h} = {q \in Reader : pc[q] = "map" /\ want[q] = h}
    BY Zenon
  <2> QED
    BY <2>1, Zenon DEF MapsOf, FillsOf
<1> QED
  BY <1>1, Zenon DEF CopiesCounted

\* A step that leaves the list and the entries alone keeps the list right.
LEMMA QuietList ==
    ASSUME LRUBounded, UNCHANGED <<lru, entry>>
    PROVE  LRUBounded'
BY Zenon DEF LRUBounded

\* It stays inside its fill, or outside.
LEMMA QuietFlights ==
    ASSUME XorbMapInv, NEW r \in Reader, NEW s, pc' = [pc EXCEPT ![r] = s], UNCHANGED <<flight, want>>,
           s \in Filling <=> pc[r] \in Filling
    PROVE  Flights'
<1>1. pc'[r] = s /\ \A q \in Reader : q # r => pc'[q] = pc[q]
  BY Apart, Zenon DEF XorbMapInv, Types
<1> QED
  BY <1>1 DEF XorbMapInv, Flights

\* It is not about to map, before or after.
LEMMA MoverCopies ==
    ASSUME XorbMapInv, NEW r \in Reader, NEW s, pc' = [pc EXCEPT ![r] = s], UNCHANGED <<backend, live, copies, hashOf, want>>,
           s = "map" <=> pc[r] = "map"
    PROVE  CopiesCounted'
<1>1. pc'[r] = s /\ \A q \in Reader : q # r => pc'[q] = pc[q]
  BY Apart, Zenon DEF XorbMapInv, Types
<1>2. \A q \in Reader : \A h \in Hash : (pc'[q] = "map" /\ want'[q] = h) <=> (pc[q] = "map" /\ want[q] = h)
  BY <1>1, Zenon
<1> QED
  BY <1>2, QuietCopies, Zenon DEF XorbMapInv

\* The type of a reader's step that leaves the files alone.
LEMMA MoverTypes ==
    ASSUME XorbMapInv, NEW r \in Reader, NEW s \in ReaderStage, NEW v \in Mapping \cup {None},
           pc' = [pc EXCEPT ![r] = s], seen' = [seen EXCEPT ![r] = v],
           UNCHANGED <<backend, objects, entry, refs, hashOf, want, drop>>,
           lru' \in Seq(Hash), flight' \in [Hash -> Reader \cup {None}], copies' \subseteq Hash, live' \in [Hash -> Nat]
    PROVE  Types'
<1>1. r \in Actor /\ r # Deleter
  BY Apart, Zenon
<1>2. Types /\ MapTypeOK
  BY Zenon DEF XorbMapInv, Types
<1>3. /\ pc' \in [Actor -> ReaderStage \cup DeleterStage] /\ pc'[Deleter] = pc[Deleter]
      /\ \A q \in Reader : pc'[q] \in ReaderStage
      /\ seen' \in [Reader -> Mapping \cup {None}]
  <2>1. pc \in [Actor -> ReaderStage \cup DeleterStage] /\ seen \in [Reader -> Mapping \cup {None}]
    BY <1>2, Zenon DEF Types, MapTypeOK
  <2>2. pc'[r] = s /\ \A a \in Actor : a # r => pc'[a] = pc[a]
    BY <1>1, <2>1, Zenon
  <2> QED
    BY <1>1, <1>2, <2>1, <2>2, Apart, Zenon DEF MapTypeOK
<1> QED
  BY <1>2, <1>3, Zenon DEF Types, MapTypeOK

\* What a reader's step keeps of the type when it changes the counts.
LEMMA CounterTypes ==
    ASSUME XorbMapInv, NEW r \in Reader, NEW s \in ReaderStage, pc' = [pc EXCEPT ![r] = s],
           UNCHANGED <<backend, objects, flight, want, copies, live>>,
           lru' \in Seq(Hash), entry' \in [Hash -> Mapping \cup {None}],
           refs' \in [Mapping -> Nat], hashOf' \in [Mapping -> Hash \cup {None}],
           seen' \in [Reader -> Mapping \cup {None}], drop' \in [Actor -> Mapping \cup {None}]
    PROVE  Types' /\ pc'[r] = s /\ \A a \in Actor : a # r => pc'[a] = pc[a]
<1>1. r \in Actor /\ r # Deleter /\ pc \in [Actor -> ReaderStage \cup DeleterStage]
  BY Apart, OtherTypes, Zenon
<1>2. pc'[r] = s /\ \A a \in Actor : a # r => pc'[a] = pc[a]
  BY <1>1, Zenon
<1>3. pc' \in [Actor -> ReaderStage \cup DeleterStage]
  BY <1>1, Zenon
<1>4. pc'[Deleter] = pc[Deleter] /\ \A q \in Reader : pc'[q] = pc[q] \/ pc'[q] = s
  BY <1>1, <1>2, Apart, Zenon
<1> QED
  BY <1>2, <1>3, <1>4, Zenon DEF XorbMapInv, Types, MapTypeOK

\* The readers' pointers and holds, as a step of one of them changes them.
Core == Wants /\ Sees /\ Drops /\ Mapped /\ Misses /\ RefsExact

\* A reader that owns nothing goes from one stage of a call to another.
LEMMA ReaderMoves ==
    ASSUME XorbMapInv, NEW r \in Reader, NEW s, NEW v,
           pc' = [pc EXCEPT ![r] = s], seen' = [seen EXCEPT ![r] = v],
           UNCHANGED <<entry, refs, hashOf, want, drop>>,
           pc[r] \notin {"idle", "add", "evict", "return", "held", "unmap"},
           s \notin {"add", "evict", "held", "unmap"}, s = "return" => v = None,
           s \in Pointing => v # None, s \notin Pointing \cup {"return"} => v = None,
           v # None => hashOf[v] \in {None, want[r]},
           s \in {"open", "rename", "map"} => entry[want[r]] = None,
           s = "fillAcquire" => entry[want[r]] \in {None, v}
    PROVE  Core'
<1>1. r \in Actor /\ r # Deleter
  BY Apart, Zenon
<1>2. pc \in [Actor -> ReaderStage \cup DeleterStage] /\ seen \in [Reader -> Mapping \cup {None}]
  BY Zenon DEF XorbMapInv, Types, MapTypeOK
<1>3. /\ pc'[r] = s /\ \A a \in Actor : a # r => pc'[a] = pc[a]
      /\ seen'[r] = v /\ \A q \in Reader : q # r => seen'[q] = seen[q]
  BY <1>1, <1>2, Zenon
<1>4. Wants'
  BY <1>3, Zenon DEF XorbMapInv, Wants
<1>5. Sees'
  BY <1>1, <1>3, Apart DEF XorbMapInv, Sees
<1>6. Drops'
  BY <1>1, <1>3, Apart DEF XorbMapInv, Drops
<1>7. \A q \in Reader : \A m \in Mapping : Holds(q, m)' = Holds(q, m)
  <2>1. ASSUME NEW m \in Mapping
        PROVE  Holds(r, m)' = 0 /\ Holds(r, m) = 0
    BY <1>3, Apart DEF Holds
  <2>2. ASSUME NEW q \in Reader, q # r, NEW m \in Mapping
        PROVE  Holds(q, m)' = Holds(q, m)
    BY <1>3, <2>2, Apart, Zenon DEF Holds
  <2> QED
    BY <2>1, <2>2, Zenon
<1>8. Mapped'
  BY <1>7, Zenon DEF XorbMapInv, Mapped
<1>9. Misses'
  BY <1>1, <1>3, Apart DEF XorbMapInv, Misses
<1>10. RefsExact'
  BY <1>7, QuietRefs, Zenon DEF XorbMapInv
<1> QED
  BY <1>4, <1>5, <1>6, <1>8, <1>9, <1>10, Zenon DEF Core

\* A reader that owns nothing, moved by a step that leaves the LRU and the
\* flights alone, and points to nothing after it.
LEMMA PlainMove ==
    ASSUME XorbMapInv, NEW r \in Reader, NEW s \in ReaderStage,
           pc' = [pc EXCEPT ![r] = s], seen' = [seen EXCEPT ![r] = None],
           UNCHANGED <<backend, objects, lru, entry, refs, hashOf, flight, want, drop>>,
           pc[r] \notin {"idle", "add", "evict", "return", "held", "unmap"},
           s \notin {"idle", "unmap"} \cup Pointing,
           s \in {"open", "rename", "map"} => entry[want[r]] = None,
           s \in Filling <=> pc[r] \in Filling,
           copies' \subseteq Hash, live' \in [Hash -> Nat], CopiesCounted'
    PROVE  XorbMapInv'
<1>1. Types'
  BY OtherTypes, MoverTypes, Zenon
<1>2. Core'
  <2>1. s \notin {"add", "evict", "held", "unmap", "fillAcquire"} /\ s \notin Pointing
    BY DEF Pointing
  <2> QED
    BY <2>1, ReaderMoves, Zenon
<1>3. Flights'
  BY QuietFlights, Zenon
<1>4. LRUBounded'
  BY QuietList, Zenon DEF XorbMapInv
<1> QED
  BY <1>1, <1>2, <1>3, <1>4, Zenon DEF XorbMapInv, Core

\* A reader outside those stages has no mapping.
LEMMA SeesNothing ==
    ASSUME XorbMapInv, NEW r \in Reader, pc[r] \notin Pointing \cup {"return"}
    PROVE  seen = [seen EXCEPT ![r] = None]
<1>1. seen[r] = None
  BY Zenon DEF XorbMapInv, Sees
<1> QED
  BY <1>1, OtherTypes, Zenon

-----------------------------------------------------------------------------
\* A reader starts.
LEMMA BeginKeeps ==
    ASSUME XorbMapInv, NEW r \in Reader, NEW h \in Hash, Begin(r, h), UNCHANGED backend
    PROVE  XorbMapInv'
<1>1. r \in Actor /\ r # Deleter
  BY Apart, Zenon
<1>2. /\ pc[r] = "idle" /\ pc' = [pc EXCEPT ![r] = "hit"] /\ want' = [want EXCEPT ![r] = h]
      /\ UNCHANGED <<objects, lru, entry, refs, hashOf, flight, copies, live, seen, drop>>
  BY Zenon DEF Begin, Goto, cacheVars, fileVars
<1>3. Types /\ pc \in [Actor -> ReaderStage \cup DeleterStage] /\ want \in [Actor -> Hash \cup {None}]
  BY Zenon DEF XorbMapInv, Types, MapTypeOK
<1>4. /\ pc'[r] = "hit" /\ want'[r] = h
      /\ \A a \in Actor : a # r => pc'[a] = pc[a] /\ want'[a] = want[a]
  BY <1>1, <1>2, <1>3
<1>5. Types'
  BY <1>1, <1>2, <1>3, <1>4 DEF Types, MapTypeOK, ReaderStage, DeleterStage
<1>6. Wants'
  BY <1>4, Zenon DEF XorbMapInv, Wants
<1>7. Flights'
  BY <1>1, <1>2, <1>4, Apart DEF XorbMapInv, Flights, Filling
<1>8. Sees'
  BY <1>1, <1>2, <1>4, Apart DEF XorbMapInv, Sees, Pointing
<1>9. Drops'
  BY <1>1, <1>2, <1>4, Apart DEF XorbMapInv, Drops
<1>10. \A q \in Reader : \A m \in Mapping : Holds(q, m)' = Holds(q, m)
  BY <1>1, <1>2, <1>4, Apart DEF Holds
<1>11. Mapped'
  <2>1. \A q \in Reader : \A m \in Mapping : Holds(q, m) > 0 => q # r
    BY <1>2 DEF Holds
  <2> QED
    BY <1>2, <1>4, <1>10, <2>1, Apart, Zenon DEF XorbMapInv, Mapped
<1>12. Misses'
  BY <1>2, <1>4, Apart DEF XorbMapInv, Misses
<1>13. RefsExact'
  BY <1>2, <1>10, QuietRefs, Zenon DEF XorbMapInv
<1>14. CopiesCounted'
  <2>1. \A q \in Reader : \A g \in Hash : (pc'[q] = "map" /\ want'[q] = g) <=> (pc[q] = "map" /\ want[q] = g)
    BY <1>2, <1>4, Apart
  <2> QED
    BY <1>2, <2>1, QuietCopies, Zenon DEF XorbMapInv
<1>15. LRUBounded'
  BY <1>2, QuietList, Zenon DEF XorbMapInv
<1> QED
  BY <1>5, <1>6, <1>7, <1>8, <1>9, <1>11, <1>12, <1>13, <1>14, <1>15, Zenon DEF XorbMapInv

\* A fill opens the xorb, or fails to.
LEMMA OpenKeeps ==
    ASSUME XorbMapInv, NEW r \in Reader, Open(r), UNCHANGED backend
    PROVE  XorbMapInv'
<1>1. PICK s \in {"rename", "map", "return"} :
         /\ pc[r] = "open" /\ pc' = [pc EXCEPT ![r] = s] /\ (s = "map" => ~backend.remote)
         /\ UNCHANGED <<objects, lru, entry, refs, hashOf, flight, want, seen, drop, copies, live>>
  BY DEF Open, Goto, cacheVars, fileVars
<1>2. /\ s \in ReaderStage /\ s \notin {"idle", "unmap"} \cup Pointing
      /\ s \in Filling /\ pc[r] \in Filling /\ pc[r] \notin Pointing \cup {"return"}
      /\ pc[r] \notin {"idle", "add", "evict", "return", "held", "unmap", "map"}
  BY <1>1 DEF ReaderStage, Pointing, Filling
<1>3. entry[want[r]] = None
  BY <1>1 DEF XorbMapInv, Misses
<1>4. seen' = [seen EXCEPT ![r] = None]
  BY <1>1, <1>2, SeesNothing, Zenon
<1>5. CopiesCounted'
  <2>1. CASE s = "map"
    BY <1>1, <2>1, Zenon DEF CopiesCounted
  <2>2. CASE s # "map"
    BY <1>1, <1>2, <2>2, MoverCopies, Zenon
  <2> QED
    BY <2>1, <2>2, Zenon
<1>6. copies' \subseteq Hash /\ live' \in [Hash -> Nat]
  BY <1>1, OtherTypes, Zenon
<1> QED
  BY <1>1, <1>2, <1>3, <1>4, <1>5, <1>6, PlainMove, Zenon

\* A reader starts the flight of its hash, or joins it.
LEMMA DoKeeps ==
    ASSUME XorbMapInv, NEW r \in Reader, Do(r), UNCHANGED backend
    PROVE  XorbMapInv'
<1> DEFINE h == want[r]
<1>1. /\ pc[r] = "do"
      /\ UNCHANGED <<objects, lru, entry, refs, hashOf, copies, live, want, seen, drop>>
  BY Zenon DEF Do, cacheVars, fileVars
<1>2. /\ pc[r] \notin Filling /\ pc[r] \notin Pointing \cup {"return"}
      /\ pc[r] \notin {"idle", "add", "evict", "return", "held", "unmap", "map"}
      /\ {"fillHit", "wait"} \subseteq ReaderStage /\ "fillHit" \in Filling /\ "wait" \notin Filling
      /\ \A s \in {"fillHit", "wait"} : s \notin {"idle", "add", "evict", "held", "unmap", "map", "open", "rename", "return", "fillAcquire"} \cup Pointing
  BY <1>1 DEF ReaderStage, Pointing, Filling
<1>3. h \in Hash
  BY <1>2, Apart, Zenon DEF XorbMapInv, Wants
<1>4. seen' = [seen EXCEPT ![r] = None]
  BY <1>1, <1>2, SeesNothing, Zenon
<1>5. copies' \subseteq Hash /\ live' \in [Hash -> Nat] /\ lru' \in Seq(Hash)
  BY <1>1, OtherTypes, Zenon
<1>6. ASSUME NEW s \in {"fillHit", "wait"}, pc' = [pc EXCEPT ![r] = s]
      PROVE  CopiesCounted'
  BY <1>1, <1>2, <1>6, MoverCopies, Zenon
<1>7. ASSUME flight[h] = None, flight' = [flight EXCEPT ![h] = r], pc' = [pc EXCEPT ![r] = "fillHit"]
      PROVE  XorbMapInv'
  <2>1. flight \in [Hash -> Reader \cup {None}] /\ pc \in [Actor -> ReaderStage \cup DeleterStage]
    BY OtherTypes, Zenon
  <2>2. flight' \in [Hash -> Reader \cup {None}]
    BY <1>3, <1>7, <2>1
  <2>3. /\ flight'[h] = r /\ \A g \in Hash : g # h => flight'[g] = flight[g]
        /\ pc'[r] = "fillHit" /\ \A q \in Reader : q # r => pc'[q] = pc[q]
    BY <1>3, <1>7, <2>1, Apart, Zenon
  <2>4. Types'
    BY <1>1, <1>2, <1>4, <1>5, <1>7, <2>2, MoverTypes, Zenon
  <2>5. Flights'
    <3> SUFFICES ASSUME NEW q \in Reader, NEW g \in Hash
                 PROVE  flight'[g] = q <=> pc'[q] \in Filling /\ want[q] = g
      BY <1>1, Zenon DEF Flights
    <3>1. flight[g] = q <=> pc[q] \in Filling /\ want[q] = g
      BY Zenon DEF XorbMapInv, Flights
    <3>2. CASE q = r
      BY <1>2, <2>3, <3>1, <3>2, Zenon
    <3>3. CASE q # r
      BY <1>7, <2>3, <3>1, <3>3, Apart, Zenon
    <3> QED
      BY <3>2, <3>3, Zenon
  <2>6. Core'
    BY <1>1, <1>2, <1>4, <1>7, ReaderMoves, Zenon
  <2>7. LRUBounded'
    BY <1>1, QuietList, Zenon DEF XorbMapInv
  <2>8. CopiesCounted'
    BY <1>6, <1>7, Zenon
  <2> QED
    BY <2>4, <2>5, <2>6, <2>7, <2>8, Zenon DEF XorbMapInv, Core
<1>8. ASSUME flight' = flight, pc' = [pc EXCEPT ![r] = "wait"]
      PROVE  XorbMapInv'
  <2>1. CopiesCounted'
    BY <1>6, <1>8, Zenon
  <2> QED
    BY <1>1, <1>2, <1>4, <1>5, <1>8, <2>1, PlainMove, Zenon
<1> QED
  BY <1>7, <1>8, Zenon DEF Do, Goto

\* The end of fills.Do: holds stay where they are, waiters get a pointer to
\* a mapping of the hash they asked for.
LEMMA ReturnKeeps ==
    ASSUME XorbMapInv, NEW r \in Reader, Return(r), UNCHANGED backend
    PROVE  XorbMapInv'
<1> DEFINE waiters == {q \in Reader : pc[q] = "wait" /\ want[q] = want[r]}
           mine == IF seen[r] = None THEN "idle" ELSE "held"
           theirs == IF seen[r] = None THEN "idle" ELSE "share"
<1>1. /\ pc[r] = "return" /\ flight' = [flight EXCEPT ![want[r]] = None]
      /\ UNCHANGED <<objects, lru, entry, refs, hashOf, copies, live, want, drop>>
  BY Zenon DEF Return, cacheVars, fileVars
<1>2. pc' = [a \in Actor |-> CASE a = r -> mine [] a \in waiters -> theirs [] OTHER -> pc[a]]
  BY Zenon DEF Return
<1>3. seen' = [q \in Reader |-> IF q \in waiters THEN seen[r] ELSE seen[q]]
  BY Zenon DEF Return
<1>4. r \in Actor /\ want[r] \in Hash /\ r \notin waiters /\ waiters \subseteq Reader
  <2>1. want[r] \in Hash
    BY <1>1, Apart DEF XorbMapInv, Wants
  <2>2. r \notin waiters
    BY <1>1
  <2> QED
    BY <2>1, <2>2, Apart, Zenon
<1>5. \A q \in waiters : pc[q] = "wait" /\ want[q] = want[r]
  OBVIOUS
<1>6. \A q \in Reader : pc[q] = "wait" /\ want[q] = want[r] => q \in waiters
  OBVIOUS
<1>7. /\ mine \in ReaderStage /\ theirs \in ReaderStage
      /\ (mine = "idle" /\ theirs = "idle" /\ seen[r] = None) \/ (mine = "held" /\ theirs = "share" /\ seen[r] # None)
  BY DEF ReaderStage
<1> HIDE DEF waiters, mine, theirs
<1>8. pc'[r] = mine /\ \A a \in Actor : a # r => pc'[a] = IF a \in waiters THEN theirs ELSE pc[a]
  BY <1>2, <1>4, Zenon
<1>9. seen'[r] = seen[r] /\ \A q \in Reader : seen'[q] = IF q \in waiters THEN seen[r] ELSE seen[q]
  BY <1>3, <1>4, Zenon
<1>10. /\ \A q \in Reader : pc'[q] \in {pc[q], mine, theirs} /\ seen'[q] \in {seen[q], seen[r]}
       /\ pc'[Deleter] = pc[Deleter] /\ DOMAIN pc' = Actor /\ DOMAIN seen' = Reader
  BY <1>2, <1>3, <1>4, <1>8, <1>9, Apart, Zenon
<1>11. flight'[want[r]] = None /\ flight' \in [Hash -> Reader \cup {None}] /\ \A h \in Hash : h # want[r] => flight'[h] = flight[h]
  BY <1>1, <1>4, OtherTypes, Zenon
<1>12. Types'
  <2>1. \A q \in Reader : pc'[q] \in ReaderStage
    BY <1>7, <1>10, Zenon DEF XorbMapInv, Types, MapTypeOK
  <2>2. pc'[Deleter] \in DeleterStage
    BY <1>10, Zenon DEF XorbMapInv, Types, MapTypeOK
  <2>3. \A a \in Actor : pc'[a] \in ReaderStage \cup DeleterStage
    BY <2>1, <2>2, Zenon DEF Actor
  <2>4. pc' \in [Actor -> ReaderStage \cup DeleterStage]
    BY <1>2, <2>3, Zenon
  <2>5. seen' \in [Reader -> Mapping \cup {None}]
    BY <1>3, OtherTypes, Zenon
  <2> QED
    BY <1>1, <1>11, <2>1, <2>2, <2>4, <2>5, Zenon DEF XorbMapInv, Types, MapTypeOK
<1>13. \A a \in Actor : pc'[a] = pc[a] \/ (pc[a] \in {"return", "wait"} /\ pc'[a] \in {"idle", "held", "share"})
  BY <1>1, <1>5, <1>7, <1>8, Zenon
<1>14. Wants'
  <2>1. \A a \in Actor : pc'[a] # "idle" => pc[a] # "idle"
    BY <1>13
  <2> QED
    BY <1>1, <2>1, Zenon DEF XorbMapInv, Wants
<1>15. Flights'
  <2> SUFFICES ASSUME NEW q \in Reader, NEW h \in Hash
               PROVE  flight'[h] = q <=> pc'[q] \in Filling /\ want[q] = h
    BY <1>1 DEF Flights
  <2>1. flight[h] = q <=> pc[q] \in Filling /\ want[q] = h
    BY Zenon DEF XorbMapInv, Flights
  <2>2. pc[r] \in Filling /\ flight[want[r]] = r /\ q # None
    BY <1>1, <1>4, Apart DEF XorbMapInv, Flights, Filling
  <2>3. {"wait", "idle", "held", "share"} \cap Filling = {}
    BY DEF Filling
  <2>4. CASE q = r
    <3>1. pc'[q] \notin Filling
      BY <1>7, <1>8, <2>3, <2>4, Zenon
    <3>2. flight'[h] # q
      BY <1>11, <2>1, <2>2, <2>4, Zenon
    <3> QED
      BY <3>1, <3>2, Zenon
  <2>5. CASE q # r
    <3>1. pc'[q] \in Filling <=> pc[q] \in Filling
      <4>1. CASE q \in waiters
        BY <1>5, <1>7, <1>8, <2>3, <2>5, <4>1, Apart, Zenon
      <4>2. CASE q \notin waiters
        BY <1>8, <2>5, <4>2, Apart, Zenon
      <4> QED
        BY <4>1, <4>2, Zenon
    <3>2. flight'[h] = q <=> flight[h] = q
      BY <1>11, <2>2, <2>5, Zenon
    <3> QED
      BY <2>1, <3>1, <3>2, Zenon
  <2> QED
    BY <2>4, <2>5, Zenon
<1>16. Sees'
  <2> SUFFICES ASSUME NEW q \in Reader
               PROVE  /\ pc'[q] \in Pointing => seen'[q] # None
                      /\ pc'[q] \notin Pointing \cup {"return"} => seen'[q] = None
                      /\ seen'[q] # None => hashOf[seen'[q]] \in {None, want[q]}
    BY <1>1, Zenon DEF Sees
  <2>1. "held" \in Pointing /\ "share" \in Pointing /\ "idle" \notin Pointing
    BY DEF Pointing
  <2>2. seen[r] # None => hashOf[seen[r]] \in {None, want[r]}
    BY Zenon DEF XorbMapInv, Sees
  <2>3. CASE q = r
    BY <1>7, <1>8, <1>9, <2>1, <2>2, <2>3, Zenon
  <2>4. CASE q \in waiters
    BY <1>4, <1>5, <1>7, <1>8, <1>9, <2>1, <2>2, <2>4, Apart, Zenon
  <2>5. CASE q # r /\ q \notin waiters
    BY <1>8, <1>9, <2>5, Apart, Zenon DEF XorbMapInv, Sees
  <2> QED
    BY <2>3, <2>4, <2>5, Zenon
<1>17. Drops'
  <2>1. \A a \in Actor : pc'[a] \in {"evict", "unmap"} <=> pc[a] \in {"evict", "unmap"}
    BY <1>13
  <2> QED
    BY <1>1, <2>1, Zenon DEF XorbMapInv, Drops
<1>18. \A q \in Reader : \A n \in Mapping : Holds(q, n)' = Holds(q, n)
  <2> SUFFICES ASSUME NEW q \in Reader, NEW n \in Mapping
               PROVE  Holds(q, n)' = Holds(q, n)
    BY Zenon
  <2>1. CASE q = r
    BY <1>1, <1>7, <1>8, <1>9, <2>1, Apart DEF Holds
  <2>2. CASE q \in waiters
    <3>1. pc[q] = "wait" /\ pc'[q] \in {"idle", "share"}
      BY <1>4, <1>5, <1>7, <1>8, <2>2, Apart, Zenon
    <3> QED
      BY <3>1 DEF Holds
  <2>3. CASE q # r /\ q \notin waiters
    BY <1>8, <1>9, <2>3, Apart, Zenon DEF Holds
  <2> QED
    BY <2>1, <2>2, <2>3, Zenon
<1>19. Mapped'
  BY <1>1, <1>18, Zenon DEF XorbMapInv, Mapped
<1>20. Misses'
  <2>1. ASSUME NEW q \in Reader, pc'[q] \in {"open", "rename", "map", "add", "fillAcquire"}
        PROVE  pc'[q] = pc[q] /\ seen'[q] = seen[q]
    <3>1. pc'[q] = pc[q] /\ q \notin waiters
      BY <1>5, <1>7, <1>8, <1>13, <2>1, Apart
    <3> QED
      BY <1>9, <3>1, Zenon
  <2> QED
    BY <1>1, <2>1 DEF XorbMapInv, Misses
<1>21. RefsExact'
  BY <1>1, <1>18, QuietRefs, Zenon DEF XorbMapInv
<1>22. CopiesCounted'
  <2>1. \A q \in Reader : pc'[q] = "map" <=> pc[q] = "map"
    BY <1>13, Apart
  <2> QED
    BY <1>1, <2>1, QuietCopies, Zenon DEF XorbMapInv
<1>23. LRUBounded'
  BY <1>1, QuietList, Zenon DEF XorbMapInv
<1> QED
  BY <1>12, <1>14, <1>15, <1>16, <1>17, <1>19, <1>20, <1>21, <1>22, <1>23, Zenon DEF XorbMapInv

-----------------------------------------------------------------------------
\* No hash is in the list l twice.
Distinct(l) == \A i, j \in DOMAIN l : l[i] = l[j] => i = j

\* The list l has each hash of X once, and no other.
Listed(l, X) ==
    /\ l \in Seq(Hash) /\ Distinct(l)
    /\ \A g \in Hash : Lists(l, g) <=> g \in X

\* Two lists of hashes one after the other are a list of hashes.
LEMMA Joined ==
    ASSUME NEW p \in Seq(Hash), NEW q \in Seq(Hash)
    PROVE  p \o q \in Seq(Hash) /\ Len(p \o q) = Len(p) + Len(q)
OBVIOUS

\* Removing one element removes its hash.
LEMMA ListedWithout ==
    ASSUME NEW l, NEW X, Listed(l, X), NEW k \in 1 .. Len(l)
    PROVE  Listed(Removed(l, k), X \ {l[k]}) /\ Len(Removed(l, k)) = Len(l) - 1
<1> DEFINE w == Removed(l, k)
           n == Len(l)
<1>1. l \in Seq(Hash) /\ n \in Nat /\ \A i \in 1 .. n : l[i] \in Hash
  BY DEF Listed
<1>2. \A i, j \in 1 .. n : l[i] = l[j] => i = j
  BY <1>1 DEF Listed, Distinct
<1> DEFINE a == SubSeq(l, 1, k - 1)
           b == SubSeq(l, k + 1, n)
<1>3. a \in Seq(Hash) /\ Len(a) = k - 1 /\ \A i \in 1 .. k - 1 : a[i] = l[i]
  BY <1>1
<1>4. b \in Seq(Hash) /\ Len(b) = n - k /\ \A i \in 1 .. n - k : b[i] = l[k + i]
  BY <1>1
<1>5. w = a \o b
  BY Zenon DEF Removed
<1> HIDE DEF w, a, b
<1>6. w \in Seq(Hash) /\ Len(w) = n - 1
  <2>1. w \in Seq(Hash) /\ Len(w) = Len(a) + Len(b)
    BY <1>3, <1>4, <1>5, Joined, Zenon
  <2> QED
    BY <1>1, <1>3, <1>4, <2>1
<1>7. \A i \in 1 .. n - 1 : w[i] = IF i < k THEN l[i] ELSE l[i + 1]
  <2>1. \A i \in 1 .. k - 1 : w[i] = l[i]
    BY <1>1, <1>3, <1>4, <1>5
  <2>2. \A i \in k .. n - 1 : w[i] = b[i - k + 1] /\ i - k + 1 \in 1 .. n - k
    BY <1>1, <1>3, <1>4, <1>5
  <2>3. \A i \in k .. n - 1 : w[i] = l[i + 1]
    BY <2>2, <1>1, <1>4
  <2> QED
    BY <2>1, <2>3, <1>1
<1>8. Distinct(w)
  BY <1>1, <1>2, <1>6, <1>7 DEF Distinct
<1>9. ASSUME NEW g \in Hash
      PROVE  Lists(w, g) <=> g \in X \ {l[k]}
  <2>1. Lists(l, g) <=> g \in X
    BY Zenon DEF Listed
  <2>2. ASSUME Lists(w, g)
        PROVE  Lists(l, g) /\ g # l[k]
    <3>1. DOMAIN w = 1 .. n - 1
      BY <1>1, <1>6
    <3>2. PICK i \in 1 .. n - 1 : w[i] = g
      BY <2>2, <3>1, Zenon DEF Lists
    <3>3. CASE i < k
      BY SMTT(20), <3>2, <3>3, <1>1, <1>2, <1>7 DEF Lists
    <3>4. CASE ~(i < k)
      BY <3>2, <3>4, <1>1, <1>2, <1>7 DEF Lists
    <3> QED
      BY <3>3, <3>4, Zenon
  <2>3. ASSUME Lists(l, g), g # l[k]
        PROVE  Lists(w, g)
    <3>1. PICK i \in 1 .. n : l[i] = g
      BY <2>3, <1>1 DEF Lists
    <3>2. CASE i < k
      BY <3>1, <3>2, <1>1, <1>6, <1>7 DEF Lists
    <3>3. CASE i > k
      <4>1. i - 1 \in 1 .. n - 1 /\ w[i - 1] = g
        BY <3>1, <3>3, <1>1, <1>7
      <4> QED
        BY <4>1, <1>6 DEF Lists
    <3>4. i # k
      BY <2>3, <3>1
    <3> QED
      BY <3>1, <3>2, <3>3, <3>4, <1>1
  <2> QED
    BY <2>1, <2>2, <2>3, Zenon
<1> QED
  BY <1>6, <1>8, <1>9, Zenon DEF Listed, w

\* Adding a new hash in front.
LEMMA ListedFirst ==
    ASSUME NEW l, NEW X, Listed(l, X), NEW h \in Hash, h \notin X
    PROVE  Listed(<<h>> \o l, X \cup {h}) /\ Len(<<h>> \o l) = Len(l) + 1
<1> DEFINE w == <<h>> \o l
           n == Len(l)
<1>1. l \in Seq(Hash) /\ n \in Nat /\ \A i \in 1 .. n : l[i] \in Hash
  BY DEF Listed
<1>2. \A i, j \in 1 .. n : l[i] = l[j] => i = j
  BY <1>1 DEF Listed, Distinct
<1>3. w \in Seq(Hash) /\ Len(w) = n + 1
  BY <1>1
<1>4. w[1] = h /\ \A i \in 2 .. n + 1 : w[i] = l[i - 1]
  BY <1>1
<1> HIDE DEF w
<1>5. \A i \in 1 .. n : l[i] # h
  BY <1>1 DEF Listed, Lists
<1>6. Distinct(w)
  <2> SUFFICES ASSUME NEW i \in 1 .. n + 1, NEW j \in 1 .. n + 1, w[i] = w[j]
               PROVE  i = j
    BY <1>3 DEF Distinct
  <2>1. CASE i = 1
    BY <2>1, <1>1, <1>4, <1>5
  <2>2. CASE j = 1
    BY <2>2, <1>1, <1>4, <1>5
  <2>3. CASE i \in 2 .. n + 1 /\ j \in 2 .. n + 1
    BY <2>3, <1>1, <1>2, <1>4
  <2> QED
    BY <2>1, <2>2, <2>3, <1>1
<1>7. ASSUME NEW g \in Hash
      PROVE  Lists(w, g) <=> g \in X \cup {h}
  <2>1. Lists(l, g) <=> g \in X
    BY Zenon DEF Listed
  <2>2. Lists(w, g) => Lists(l, g) \/ g = h
    BY <1>1, <1>3, <1>4 DEF Lists
  <2>3. Lists(w, h)
    BY <1>1, <1>3, <1>4 DEF Lists
  <2>4. ASSUME Lists(l, g)
        PROVE  Lists(w, g)
    <3>1. PICK i \in 1 .. n : l[i] = g
      BY <2>4, <1>1 DEF Lists
    <3>2. i + 1 \in 1 .. n + 1 /\ w[i + 1] = g
      BY <3>1, <1>1, <1>4
    <3> QED
      BY <3>2, <1>3 DEF Lists
  <2> QED
    BY <2>1, <2>2, <2>3, <2>4, Zenon
<1> QED
  BY <1>3, <1>6, <1>7, Zenon DEF Listed, w

\* Removing the last element.
LEMMA ListedFront ==
    ASSUME NEW l, NEW X, Listed(l, X), Len(l) > 0
    PROVE  /\ Listed(Removed(l, Len(l)), X \ {l[Len(l)]}) /\ Len(Removed(l, Len(l))) = Len(l) - 1
           /\ l[Len(l)] \in X \cap Hash
<1>1. l \in Seq(Hash) /\ Len(l) \in 1 .. Len(l)
  BY DEF Listed
<1>2. Lists(l, l[Len(l)]) /\ l[Len(l)] \in Hash
  BY <1>1 DEF Lists
<1>3. l[Len(l)] \in X
  BY <1>2, Zenon DEF Listed
<1>4. Listed(Removed(l, Len(l)), X \ {l[Len(l)]}) /\ Len(Removed(l, Len(l))) = Len(l) - 1
  BY <1>1, ListedWithout, Zenon
<1> QED
  BY <1>2, <1>3, <1>4, Zenon

\* The hashes with an entry.
Cached == {h \in Hash : entry[h] # None}

\* The list has the hashes with an entry, once each.
LEMMA ListIs ==
    ASSUME XorbMapInv
    PROVE  Listed(lru, Cached) /\ lru \in Seq(Hash) /\ Len(lru) \in Nat /\ (MaxEntries > 0 => Len(lru) <= MaxEntries)
<1>1. lru \in Seq(Hash) /\ LRUBounded
  BY Zenon DEF XorbMapInv, Types, MapTypeOK
<1>2. Listed(lru, Cached)
  BY <1>1, Zenon DEF Listed, LRUBounded, Cached, Distinct
<1> QED
  BY <1>1, <1>2 DEF LRUBounded

\* And that is all LRUBounded asks.
LEMMA ListTo ==
    ASSUME Listed(lru', Cached'), MaxEntries > 0 => Len(lru') <= MaxEntries
    PROVE  LRUBounded' /\ lru' \in Seq(Hash)
BY Zenon DEF Listed, LRUBounded, Cached, Distinct

\* Unlisted takes out the one element of the hash.
LEMMA UnlistedIs ==
    ASSUME NEW X, Listed(lru, X), NEW h \in Hash
    PROVE  /\ h \in X => Listed(Unlisted(h), X \ {h}) /\ Len(Unlisted(h)) = Len(lru) - 1
           /\ h \notin X => Unlisted(h) = lru
<1>1. Lists(lru, h) <=> h \in X
  BY Zenon DEF Listed
<1>2. ASSUME h \in X
      PROVE  Listed(Unlisted(h), X \ {h}) /\ Len(Unlisted(h)) = Len(lru) - 1
  <2> DEFINE k == CHOOSE i \in DOMAIN lru : lru[i] = h
  <2>1. k \in 1 .. Len(lru) /\ lru[k] = h
    BY <1>1, <1>2 DEF Lists, Listed
  <2>2. Unlisted(h) = Removed(lru, k)
    BY <1>1, <1>2, Zenon DEF Unlisted
  <2> HIDE DEF k
  <2>3. Listed(Removed(lru, k), X \ {lru[k]}) /\ Len(Removed(lru, k)) = Len(lru) - 1
    BY <2>1, ListedWithout, Zenon
  <2> QED
    BY <2>1, <2>2, <2>3, Zenon
<1>3. h \notin X => Unlisted(h) = lru
  BY <1>1, Zenon DEF Unlisted
<1> QED
  BY <1>2, <1>3, Zenon

\* A look into the LRU reorders it.
LEMMA TouchKeeps ==
    ASSUME XorbMapInv, NEW h \in Hash, lru' = Touch(h), entry' = entry
    PROVE  LRUBounded' /\ lru' \in Seq(Hash)
<1>1. Cached' = Cached /\ (h \in Cached <=> entry[h] # None)
  BY Zenon DEF Cached
<1>2. CASE entry[h] = None
  <2>1. lru' = lru
    BY <1>2, Zenon DEF Touch
  <2> QED
    BY <2>1, <1>1, ListIs, ListTo, Zenon
<1>3. CASE entry[h] # None
  <2>1. lru' = <<h>> \o Unlisted(h)
    BY <1>3, Zenon DEF Touch
  <2> DEFINE X == Cached \ {h}
  <2>2. Listed(Unlisted(h), X) /\ Len(Unlisted(h)) = Len(lru) - 1
    BY <1>1, <1>3, ListIs, UnlistedIs, Zenon
  <2>3. h \notin X
    BY Zenon
  <2>4. X \cup {h} = Cached'
    BY <1>1, <1>3, Zenon
  <2> HIDE DEF X
  <2>5. Listed(<<h>> \o Unlisted(h), X \cup {h}) /\ Len(<<h>> \o Unlisted(h)) = Len(Unlisted(h)) + 1
    BY <2>2, <2>3, ListedFirst, Zenon
  <2>6. Listed(lru', Cached')
    BY <2>1, <2>5, <2>4, Zenon
  <2>7. Len(lru') = Len(lru)
    BY <2>1, <2>2, <2>5, ListIs
  <2> QED
    BY <2>6, <2>7, ListIs, ListTo, Zenon
<1> QED
  BY <1>2, <1>3, Zenon

\* A reader looks its hash up and moves it to the front.
LEMMA HitKeeps ==
    ASSUME XorbMapInv, NEW r \in Reader, Hit(r), UNCHANGED backend
    PROVE  XorbMapInv'
<1> DEFINE v == entry[want[r]]
           s == IF v # None THEN IF pc[r] = "hit" THEN "acquire" ELSE "fillAcquire"
                ELSE IF pc[r] = "hit" THEN "do" ELSE "open"
<1>1. /\ pc[r] \in {"hit", "fillHit"} /\ lru' = Touch(want[r])
      /\ seen' = [seen EXCEPT ![r] = v]
      /\ UNCHANGED <<objects, entry, refs, hashOf, flight, copies, live, want, drop>>
  BY Zenon DEF Hit, fileVars
<1>2. pc' = [pc EXCEPT ![r] = s]
  BY <1>1, Zenon DEF Hit, Goto
<1>3. r \in Actor /\ want[r] \in Hash
  BY <1>1, Apart DEF XorbMapInv, Wants
<1>4. v \in Mapping \cup {None}
  BY <1>3, Zenon DEF XorbMapInv, Types, MapTypeOK
<1>5. v # None => hashOf[v] \in {None, want[r]}
  BY <1>3, Zenon DEF XorbMapInv, Mapped
<1>6. /\ s \in ReaderStage /\ s \notin {"add", "evict", "held", "unmap", "return", "map"}
      /\ s \in Pointing => v # None
      /\ s \notin Pointing => v = None
      /\ s \in {"open", "rename", "map"} => entry[want[r]] = None
      /\ s \in Filling <=> pc[r] \in Filling
      /\ pc[r] \notin {"idle", "add", "evict", "return", "held", "unmap", "map"}
  BY <1>1 DEF Pointing, ReaderStage, Filling
<1>7. LRUBounded' /\ lru' \in Seq(Hash)
  BY <1>1, <1>3, TouchKeeps, Zenon
<1>8. flight' \in [Hash -> Reader \cup {None}] /\ copies' \subseteq Hash /\ live' \in [Hash -> Nat]
  BY <1>1, Zenon DEF XorbMapInv, Types, MapTypeOK
<1> HIDE DEF s
<1>9. Core'
  BY Zenon, <1>1, <1>2, <1>5, <1>6, ReaderMoves
<1> HIDE DEF v
<1>10. Types'
  BY <1>1, <1>2, <1>4, <1>6, <1>7, <1>8, MoverTypes, Zenon
<1>11. Flights'
  BY <1>1, <1>2, <1>6, QuietFlights, Zenon
<1>12. CopiesCounted'
  <2>1. s = "map" <=> pc[r] = "map"
    BY <1>6
  <2> QED
    BY <1>1, <1>2, <2>1, MoverCopies, Zenon
<1> QED
  BY <1>7, <1>9, <1>10, <1>11, <1>12, Zenon DEF XorbMapInv, Core

-----------------------------------------------------------------------------
\* A step of the deleter, of the uploader or of HasXorb that touches no hold.
LEMMA OthersKeep ==
    ASSUME XorbMapInv, \A r \in Reader : pc'[r] = pc[r] /\ want'[r] = want[r],
           UNCHANGED <<backend, entry, refs, hashOf, flight, copies, live, seen, drop>>,
           pc' \in [Actor -> ReaderStage \cup DeleterStage], want' \in [Actor -> Hash \cup {None}],
           pc'[Deleter] \in DeleterStage, pc'[Deleter] # "evict", pc[Deleter] # "evict",
           pc'[Deleter] # "idle" => want'[Deleter] \in Hash,
           objects' \subseteq Hash, lru' \in Seq(Hash), LRUBounded'
    PROVE  XorbMapInv'
<1>1. Types'
  BY Zenon DEF XorbMapInv, Types, MapTypeOK
<1>2. Wants'
  BY Zenon DEF XorbMapInv, Wants, Actor
<1>3. Flights'
  BY DEF XorbMapInv, Flights
<1>4. Sees'
  BY Zenon DEF XorbMapInv, Sees
<1>5. Drops'
  <2>1. pc[Deleter] \in DeleterStage
    BY Zenon DEF XorbMapInv, Types, MapTypeOK
  <2>2. pc[Deleter] \notin {"evict", "unmap"} /\ pc'[Deleter] \notin {"evict", "unmap"}
    BY <2>1 DEF DeleterStage
  <2>3. \A a \in Actor : pc'[a] \in {"evict", "unmap"} <=> pc[a] \in {"evict", "unmap"}
    BY <2>2, Zenon DEF Actor
  <2> QED
    BY <2>3, Zenon DEF XorbMapInv, Drops
<1>6. \A q \in Reader : \A m \in Mapping : Holds(q, m)' = Holds(q, m)
  BY Zenon DEF Holds
<1>7. Mapped'
  BY <1>6, Zenon DEF XorbMapInv, Mapped
<1>8. Misses'
  BY Zenon DEF XorbMapInv, Misses
<1>9. RefsExact'
  BY <1>6, QuietRefs, Zenon DEF XorbMapInv
<1>10. CopiesCounted'
  BY QuietCopies, Zenon DEF XorbMapInv
<1> QED
  BY <1>1, <1>2, <1>3, <1>4, <1>5, <1>7, <1>8, <1>9, <1>10, Zenon DEF XorbMapInv

\* A deletion starts.
LEMMA BeginDeleteKeeps ==
    ASSUME XorbMapInv, NEW h \in Hash, BeginDelete(h), UNCHANGED backend
    PROVE  XorbMapInv'
<1> DEFINE s == IF backend.remote THEN "object" ELSE "remove"
<1>1. /\ pc[Deleter] = "idle" /\ want' = [want EXCEPT ![Deleter] = h] /\ pc' = [pc EXCEPT ![Deleter] = s]
      /\ UNCHANGED <<objects, lru, entry, refs, hashOf, flight, copies, live, seen, drop>>
  BY Zenon DEF BeginDelete, Goto, cacheVars, fileVars
<1>2. s \in DeleterStage /\ s # "evict" /\ pc[Deleter] # "evict"
  BY <1>1 DEF DeleterStage
<1> HIDE DEF s
<1>3. /\ \A r \in Reader : pc'[r] = pc[r] /\ want'[r] = want[r]
      /\ pc' \in [Actor -> ReaderStage \cup DeleterStage] /\ want' \in [Actor -> Hash \cup {None}]
      /\ pc'[Deleter] = s /\ want'[Deleter] = h
  BY <1>1, <1>2, OtherTypes, Apart, Zenon
<1>4. objects' \subseteq Hash /\ lru' \in Seq(Hash) /\ LRUBounded'
  BY <1>1, QuietList, Zenon DEF XorbMapInv, Types, MapTypeOK
<1> QED
  BY <1>1, <1>2, <1>3, <1>4, OthersKeep, Zenon

\* The object goes.
LEMMA RemoveObjectKeeps ==
    ASSUME XorbMapInv, RemoveObject, UNCHANGED backend
    PROVE  XorbMapInv'
<1> DEFINE s == IF backend.remote THEN "remove" ELSE "idle"
<1>1. /\ pc[Deleter] = "object" /\ pc' = [pc EXCEPT ![Deleter] = s] /\ objects' \subseteq objects
      /\ UNCHANGED <<lru, entry, refs, hashOf, flight, copies, live, want, seen, drop>>
  BY Zenon DEF RemoveObject, Goto, cacheVars, fileVars
<1>2. s \in DeleterStage /\ s # "evict" /\ pc[Deleter] # "evict" /\ pc[Deleter] # "idle"
  BY <1>1 DEF DeleterStage
<1> HIDE DEF s
<1>3. /\ \A r \in Reader : pc'[r] = pc[r] /\ want'[r] = want[r]
      /\ pc' \in [Actor -> ReaderStage \cup DeleterStage] /\ want' \in [Actor -> Hash \cup {None}]
      /\ pc'[Deleter] = s /\ want'[Deleter] = want[Deleter]
  BY <1>1, <1>2, OtherTypes, Apart, Zenon
<1>4. objects' \subseteq Hash /\ lru' \in Seq(Hash) /\ LRUBounded'
  BY <1>1, QuietList, Zenon DEF XorbMapInv, Types, MapTypeOK
<1>5. want[Deleter] \in Hash
  BY <1>2, Apart, Zenon DEF XorbMapInv, Wants
<1> QED
  BY <1>1, <1>2, <1>3, <1>4, <1>5, OthersKeep, Zenon

\* PutXorb and HasXorb.
LEMMA ServeKeeps ==
    ASSUME XorbMapInv, NEW h \in Hash, PutXorb(h) \/ HasXorb(h), UNCHANGED backend
    PROVE  XorbMapInv'
<1>1. /\ UNCHANGED <<entry, refs, hashOf, flight, copies, live, pc, want, seen, drop>>
      /\ objects' \subseteq objects \cup {h}
  BY Zenon DEF PutXorb, HasXorb, cacheVars, fileVars
<1>2. LRUBounded' /\ lru' \in Seq(Hash)
  <2>1. CASE PutXorb(h)
    BY <1>1, <2>1, QuietList, Zenon DEF PutXorb, cacheVars, XorbMapInv, Types, MapTypeOK
  <2>2. CASE HasXorb(h)
    BY <1>1, <2>2, TouchKeeps, Zenon DEF HasXorb
  <2> QED
    BY <2>1, <2>2, Zenon
<1>3. Types'
  BY <1>1, <1>2, Zenon DEF XorbMapInv, Types, MapTypeOK
<1>4. Wants' /\ Sees' /\ Drops' /\ Misses'
  BY <1>1, Zenon DEF XorbMapInv, Wants, Sees, Drops, Misses
<1>5. Flights'
  BY <1>1 DEF XorbMapInv, Flights
<1>6. \A q \in Reader : \A m \in Mapping : Holds(q, m)' = Holds(q, m)
  BY <1>1, Zenon DEF Holds
<1>7. Mapped' /\ RefsExact' /\ CopiesCounted'
  BY <1>1, <1>6, QuietRefs, QuietCopies, Zenon DEF XorbMapInv, Mapped
<1> QED
  BY <1>2, <1>3, <1>4, <1>5, <1>7, Zenon DEF XorbMapInv

\* Mapping.Release: the actor that drops the last hold, and it alone, is left
\* to unmap.
LEMMA ReleaseDrops ==
    ASSUME XorbMapInv, NEW a \in Actor, NEW m \in Mapping, refs[m] > 0, NEW last, NEW next,
           Release(a, m, last, next), hashOf' = hashOf, pc[a] \notin {"evict", "unmap"},
           last \in {"evict", "unmap"}, next \notin {"evict", "unmap"}
    PROVE  /\ Drops'
           /\ refs' \in [Mapping -> Nat] /\ drop' \in [Actor -> Mapping \cup {None}]
           /\ refs'[m] = refs[m] - 1 /\ \A n \in Mapping : n # m => refs'[n] = refs[n]
           /\ \A n \in Mapping : hashOf[n] = None => refs'[n] = 0
           /\ \A n \in Mapping : hashOf[n] # None => refs'[n] > 0 \/ \E b \in Actor : drop'[b] = n
<1>1. hashOf[m] # None /\ \A b \in Actor : drop[b] # m
  BY HeldIs, Zenon
<1>2. /\ refs \in [Mapping -> Nat] /\ drop \in [Actor -> Mapping \cup {None}]
      /\ pc \in [Actor -> ReaderStage \cup DeleterStage]
  BY OtherTypes, Zenon
<1>3. /\ refs[m] \in Nat /\ refs[m] - 1 \in Nat /\ (refs[m] # 1 => refs[m] - 1 > 0)
      /\ (refs[m] = 1 => refs[m] - 1 = 0)
  BY <1>2
<1>4. refs' = [refs EXCEPT ![m] = refs[m] - 1]
  BY Zenon DEF Release
<1>5. refs'[m] = refs[m] - 1 /\ refs' \in [Mapping -> Nat] /\ \A n \in Mapping : n # m => refs'[n] = refs[n]
  BY <1>2, <1>3, <1>4, Zenon
<1>6. \A n \in Mapping : hashOf[n] = None => refs'[n] = 0
  BY <1>1, <1>5, Zenon DEF XorbMapInv, Mapped
<1>7. drop[a] = None
  BY Zenon DEF XorbMapInv, Drops
<1>8. m # None
  BY Apart, Zenon
<1>9. CASE refs[m] = 1
  <2>1. drop' = [drop EXCEPT ![a] = m] /\ pc' = [pc EXCEPT ![a] = last]
    BY <1>9, Zenon DEF Release, Goto
  <2>2. /\ drop'[a] = m /\ pc'[a] = last /\ drop' \in [Actor -> Mapping \cup {None}]
        /\ \A b \in Actor : b # a => drop'[b] = drop[b] /\ pc'[b] = pc[b]
    BY <1>2, <2>1, Zenon
  <2>3. ASSUME NEW b \in Actor, drop'[b] # None
        PROVE  refs'[drop'[b]] = 0 /\ hashOf'[drop'[b]] # None
    <3>1. CASE b = a
      BY <1>1, <1>3, <1>5, <1>9, <2>2, <3>1, Zenon
    <3>2. CASE b # a
      <4>1. drop'[b] = drop[b] /\ drop[b] # None /\ drop[b] \in Mapping /\ drop[b] # m
        BY <1>1, <1>2, <2>2, <2>3, <3>2, Zenon
      <4> QED
        BY <1>5, <1>9, <4>1, Zenon DEF XorbMapInv, Drops
    <3> QED
      BY <3>1, <3>2, Zenon
  <2>4. \A b \in Actor : drop'[b] # None <=> pc'[b] \in {"evict", "unmap"}
    BY <1>8, <2>2, Zenon DEF XorbMapInv, Drops
  <2>5. ASSUME NEW b \in Actor, NEW c \in Actor, drop'[b] = drop'[c], drop'[b] # None
        PROVE  b = c
    <3>1. \A d \in Actor : d = a <=> drop'[d] = m
      BY <1>1, <2>2, Zenon
    <3>2. b # a /\ c # a => drop[b] = drop[c] /\ drop[b] # None
      BY <2>2, <2>5, Zenon
    <3> QED
      BY <2>5, <3>1, <3>2, Zenon DEF XorbMapInv, Drops
  <2>6. ASSUME NEW n \in Mapping, hashOf[n] # None
        PROVE  refs'[n] > 0 \/ \E b \in Actor : drop'[b] = n
    <3>1. CASE n = m
      BY <2>2, <3>1, Zenon
    <3>2. CASE n # m
      <4>1. refs[n] > 0 \/ \E b \in Actor : drop[b] = n
        BY <2>6, Zenon DEF XorbMapInv, RefsExact
      <4>2. \A b \in Actor : drop[b] = n => drop'[b] = n
        BY <1>7, <2>2, Apart, Zenon
      <4> QED
        BY <1>5, <3>2, <4>1, <4>2, Zenon
    <3> QED
      BY <3>1, <3>2, Zenon
  <2> QED
    BY <1>5, <1>6, <2>2, <2>3, <2>4, <2>5, <2>6, Zenon DEF Drops
<1>10. CASE refs[m] # 1
  <2>1. drop' = [drop EXCEPT ![a] = None] /\ pc' = [pc EXCEPT ![a] = next]
    BY <1>10, Zenon DEF Release, Goto
  <2>2. /\ pc'[a] = next /\ \A b \in Actor : b # a => pc'[b] = pc[b]
        /\ drop' = drop
    BY <1>2, <1>7, <2>1, Zenon
  <2>3. ASSUME NEW b \in Actor, drop'[b] # None
        PROVE  refs'[drop'[b]] = 0 /\ hashOf'[drop'[b]] # None
    <3>1. drop'[b] = drop[b] /\ drop[b] # None /\ drop[b] \in Mapping /\ drop[b] # m
      BY <1>1, <1>2, <2>2, <2>3, Zenon
    <3> QED
      BY <1>5, <3>1, Zenon DEF XorbMapInv, Drops
  <2>4. \A b \in Actor : drop'[b] # None <=> pc'[b] \in {"evict", "unmap"}
    BY <1>7, <2>2, Zenon DEF XorbMapInv, Drops
  <2>5. \A n \in Mapping : hashOf[n] # None => refs'[n] > 0 \/ \E b \in Actor : drop'[b] = n
    BY <1>3, <1>5, <1>10, <2>2, Zenon DEF XorbMapInv, RefsExact
  <2> QED
    BY <1>2, <1>5, <1>6, <2>2, <2>3, <2>4, <2>5, Zenon DEF Drops, XorbMapInv
<1> QED
  BY <1>9, <1>10, Zenon

\* The sizes of two sets that differ at x at most.
CountedTo(S, T, x) ==
    /\ Cardinality(S) \in Nat /\ Cardinality(T) \in Nat
    /\ Cardinality(T) = Cardinality(S) + (IF x \in T THEN 1 ELSE 0) - (IF x \in S THEN 1 ELSE 0)
    /\ x \in S => Cardinality(S) > 0

\* What the proofs need to know of the sizes of finite sets.
Counting ==
    /\ Cardinality({}) = 0
    /\ \A U : IsFiniteSet(U) =>
          \A S, T \in SUBSET U : \A x : S \ {x} = T \ {x} => CountedTo(S, T, x)

\* One instance of it.
LEMMA CountMoves ==
    ASSUME Counting, NEW U, IsFiniteSet(U), NEW S \in SUBSET U, NEW T \in SUBSET U, NEW x, S \ {x} = T \ {x}
    PROVE  CountedTo(S, T, x)
  BY Zenon DEF Counting

\* The size of a part of a finite set is a number.
LEMMA SizeIs ==
    ASSUME Counting, NEW U, IsFiniteSet(U), NEW S \in SUBSET U
    PROVE  Cardinality(S) \in Nat
<1>1. CountedTo(S, S, {})
  BY CountMoves, Zenon
<1> QED
  BY <1>1, Zenon DEF CountedTo

\* The holds that a reader owns, or none, added up over the readers.
Weight(f) == Cardinality({q \in Reader : f[q] = 1}) + 2 * Cardinality({q \in Reader : f[q] = 2})

\* One reader's holds change.
LEMMA WeightMoves ==
    ASSUME Counting, NEW f, NEW g, NEW r \in Reader, f[r] \in 0 .. 2, g[r] \in 0 .. 2,
           \A q \in Reader : q # r => f[q] = g[q]
    PROVE  Weight(f) \in Nat /\ Weight(g) = Weight(f) + g[r] - f[r] /\ f[r] <= Weight(f)
<1> DEFINE Some(e, k) == {q \in Reader : e[q] = k}
<1>1. \A k : Some(f, k) \in SUBSET Reader /\ Some(g, k) \in SUBSET Reader /\ Some(f, k) \ {r} = Some(g, k) \ {r}
  BY Zenon
<1>2. \A k : (r \in Some(f, k) <=> f[r] = k) /\ (r \in Some(g, k) <=> g[r] = k)
  BY Zenon
<1>3. IsFiniteSet(Reader)
  BY XorbMapAssumption, Zenon
<1>4. /\ Weight(f) = Cardinality(Some(f, 1)) + 2 * Cardinality(Some(f, 2))
      /\ Weight(g) = Cardinality(Some(g, 1)) + 2 * Cardinality(Some(g, 2))
  BY Zenon DEF Weight
<1> HIDE DEF Some
<1>5. ASSUME NEW k
      PROVE  CountedTo(Some(f, k), Some(g, k), r)
  BY <1>1, <1>3, CountMoves, Zenon
<1> DEFINE a == Cardinality(Some(f, 1))
           b == Cardinality(Some(g, 1))
           c == Cardinality(Some(f, 2))
           d == Cardinality(Some(g, 2))
<1>6. /\ a \in Nat /\ b = a + (IF g[r] = 1 THEN 1 ELSE 0) - (IF f[r] = 1 THEN 1 ELSE 0)
      /\ (f[r] = 1 => a > 0)
  BY <1>2, <1>5 DEF CountedTo
<1>7. /\ c \in Nat /\ d = c + (IF g[r] = 2 THEN 1 ELSE 0) - (IF f[r] = 2 THEN 1 ELSE 0)
      /\ (f[r] = 2 => c > 0)
  BY <1>2, <1>5 DEF CountedTo
<1>8. Weight(f) = a + 2 * c /\ Weight(g) = b + 2 * d
  BY <1>4, Zenon
<1> HIDE DEF a, b, c, d
<1> QED
  BY <1>6, <1>7, <1>8

\* What readers own of a mapping changes by what one reader that moves owns.
LEMMA OwnedMoves ==
    ASSUME Counting, NEW r \in Reader, NEW m, \A q \in Reader : q # r => Holds(q, m)' = Holds(q, m)
    PROVE  /\ OwnedHolds(m) \in Nat
           /\ OwnedHolds(m)' = OwnedHolds(m) + Holds(r, m)' - Holds(r, m)
           /\ Holds(r, m) <= OwnedHolds(m)
<1> DEFINE f == [q \in Reader |-> Holds(q, m)]
           g == [q \in Reader |-> Holds(q, m)']
<1>1. Holds(r, m) \in 0 .. 2 /\ Holds(r, m)' \in 0 .. 2
  BY DEF Holds
<1>2. (\A q \in Reader : f[q] = Holds(q, m)) /\ (\A q \in Reader : g[q] = Holds(q, m)')
  BY Zenon
<1>3. Weight(f) = OwnedHolds(m)
  BY <1>2, Zenon DEF Weight, OwnedHolds
<1>4. Weight(g) = OwnedHolds(m)'
  BY <1>2, Zenon DEF Weight, OwnedHolds
<1> HIDE DEF f, g
<1>5. Weight(f) \in Nat /\ Weight(g) = Weight(f) + g[r] - f[r] /\ f[r] <= Weight(f)
  BY <1>1, <1>2, WeightMoves
<1> QED
  BY <1>2, <1>3, <1>4, <1>5, Zenon

\* The readers' holds of a mapping are a number, if there are no readers too.
LEMMA OwnedIs ==
    ASSUME Counting, NEW m
    PROVE  OwnedHolds(m) \in Nat
<1>1. /\ {r \in Reader : Holds(r, m) = 1} \in SUBSET Reader
      /\ {r \in Reader : Holds(r, m) = 2} \in SUBSET Reader
  BY Zenon
<1> DEFINE a == Cardinality({r \in Reader : Holds(r, m) = 1})
           b == Cardinality({r \in Reader : Holds(r, m) = 2})
<1>2. a \in Nat /\ b \in Nat
  BY <1>1, XorbMapAssumption, SizeIs, Zenon
<1>3. OwnedHolds(m) = a + 2 * b
  BY Zenon DEF OwnedHolds
<1> HIDE DEF a, b
<1> QED
  BY <1>2, <1>3

\* So are the LRU's.
LEMMA CacheIs ==
    ASSUME Counting, NEW m
    PROVE  CacheHolds(m) \in Nat
<1>1. {h \in Hash : entry[h] = m} \in SUBSET Hash
  BY Zenon
<1> QED
  BY <1>1, XorbMapAssumption, SizeIs, Zenon DEF CacheHolds

\* What the LRU owns of a mapping changes by one entry.
LEMMA CachedMoves ==
    ASSUME Counting, NEW h \in Hash, NEW m, \A g \in Hash : g # h => entry'[g] = entry[g]
    PROVE  /\ CacheHolds(m) \in Nat
           /\ CacheHolds(m)' = CacheHolds(m) + (IF entry'[h] = m THEN 1 ELSE 0) - (IF entry[h] = m THEN 1 ELSE 0)
           /\ entry[h] = m => CacheHolds(m) > 0
<1> DEFINE S == {g \in Hash : entry[g] = m}
<1>1. S \in SUBSET Hash /\ S' \in SUBSET Hash /\ S \ {h} = S' \ {h}
  BY Zenon
<1>2. IsFiniteSet(Hash)
  BY XorbMapAssumption, Zenon
<1>3. (h \in S <=> entry[h] = m) /\ (h \in S' <=> entry'[h] = m)
  BY Zenon
<1>4. CacheHolds(m) = Cardinality(S) /\ CacheHolds(m)' = Cardinality(S')
  BY Zenon DEF CacheHolds
<1> HIDE DEF S
<1>5. CountedTo(S, S', h)
  BY <1>1, <1>2, CountMoves, Zenon
<1> QED
  BY <1>3, <1>4, <1>5 DEF CountedTo

\* What the counts of holds are after a step that moves one reader's.
LEMMA HoldsMove ==
    ASSUME Counting, XorbMapInv, NEW r \in Reader, entry' = entry,
           \A q \in Reader : \A m \in Mapping : q # r => Holds(q, m)' = Holds(q, m)
    PROVE  \A m \in Mapping : CacheHolds(m)' + OwnedHolds(m)' = refs[m] + Holds(r, m)' - Holds(r, m)
<1> SUFFICES ASSUME NEW m \in Mapping
             PROVE  CacheHolds(m)' + OwnedHolds(m)' = refs[m] + Holds(r, m)' - Holds(r, m)
  BY Zenon
<1>1. CacheHolds(m)' = CacheHolds(m)
  BY Zenon DEF CacheHolds
<1>2. OwnedHolds(m) \in Nat /\ OwnedHolds(m)' = OwnedHolds(m) + Holds(r, m)' - Holds(r, m)
  BY OwnedMoves, Zenon
<1>3. refs[m] = CacheHolds(m) + OwnedHolds(m) /\ refs[m] \in Nat
  BY OtherTypes, Zenon DEF XorbMapInv, RefsExact
<1>4. CacheHolds(m) \in Nat
  BY CacheIs, Zenon
<1>5. Holds(r, m) \in 0 .. 2 /\ Holds(r, m)' \in 0 .. 2
  BY DEF Holds
<1> QED
  BY <1>1, <1>2, <1>3, <1>4, <1>5

\* What a reader owns is counted, and of the xorb it asked for.
LEMMA OwnerHolds ==
    ASSUME Counting, XorbMapInv, NEW r \in Reader, NEW m \in Mapping, Holds(r, m) > 0
    PROVE  refs[m] >= Holds(r, m) /\ refs[m] > 0 /\ hashOf[m] = want[r]
<1> DEFINE f == [q \in Reader |-> Holds(q, m)]
<1>1. Holds(r, m) \in 0 .. 2 /\ f[r] = Holds(r, m)
  BY DEF Holds
<1>2. Weight(f) = OwnedHolds(m)
  BY Zenon DEF Weight, OwnedHolds
<1> HIDE DEF f
<1>3. OwnedHolds(m) \in Nat /\ Holds(r, m) <= OwnedHolds(m)
  <2>1. Weight(f) \in Nat /\ f[r] <= Weight(f)
    BY <1>1, WeightMoves, Zenon
  <2> QED
    BY <1>1, <1>2, <2>1, Zenon
<1>4. CacheHolds(m) \in Nat
  BY CacheIs, Zenon
<1>5. refs[m] = CacheHolds(m) + OwnedHolds(m)
  BY Zenon DEF XorbMapInv, RefsExact
<1>6. hashOf[m] = want[r]
  BY Zenon DEF XorbMapInv, Mapped
<1> QED
  BY <1>1, <1>3, <1>4, <1>5, <1>6

\* An entry is a mapping with a hold.
LEMMA EntryHeld ==
    ASSUME Counting, XorbMapInv, NEW h \in Hash, entry[h] # None
    PROVE  entry[h] \in Mapping /\ refs[entry[h]] > 0
<1>1. entry[h] \in Mapping
  BY OtherTypes, Zenon
<1> DEFINE m == entry[h]
<1>2. CacheHolds(m) \in Nat /\ CacheHolds(m) > 0
  <2>1. IsFiniteSet(Hash)
    BY XorbMapAssumption, Zenon
  <2> DEFINE S == {g \in Hash : entry[g] = m}
  <2>2. S \in SUBSET Hash /\ S \ {h} = S \ {h} /\ h \in S
    BY Zenon
  <2>3. CacheHolds(m) = Cardinality(S)
    BY Zenon DEF CacheHolds
  <2> HIDE DEF S
  <2>4. CountedTo(S, S, h)
    BY <2>1, <2>2, CountMoves, Zenon
  <2> QED
    BY <2>2, <2>3, <2>4, Zenon DEF CountedTo
<1>3. OwnedHolds(m) \in Nat
  BY OwnedIs, Zenon
<1>4. refs[m] = CacheHolds(m) + OwnedHolds(m)
  BY <1>1, Zenon DEF XorbMapInv, RefsExact
<1> HIDE DEF m
<1>5. refs[m] > 0
  BY <1>2, <1>3, <1>4
<1> QED
  BY <1>1, <1>5, Zenon DEF m

-----------------------------------------------------------------------------
\* The mapping died before the reader's hold.
LEMMA AcquireFails ==
    ASSUME Counting, XorbMapInv, NEW r \in Reader, Acquire(r), refs[seen[r]] = 0, UNCHANGED backend
    PROVE  XorbMapInv'
<1> DEFINE s == CASE pc[r] = "acquire" -> "do" [] pc[r] = "fillAcquire" -> "open" [] pc[r] = "share" -> "hit"
<1>1. /\ pc[r] \in {"acquire", "fillAcquire", "share"} /\ pc' = [pc EXCEPT ![r] = s]
      /\ seen' = [seen EXCEPT ![r] = None]
      /\ UNCHANGED <<objects, lru, entry, refs, hashOf, flight, want, drop, copies, live>>
  BY DEF Acquire, Goto, cacheVars, fileVars
<1>2. /\ s \in ReaderStage /\ s \notin {"idle", "unmap", "map"} \cup Pointing
      /\ s \in Filling <=> pc[r] \in Filling
      /\ s \in {"open", "rename", "map"} => pc[r] = "fillAcquire"
      /\ pc[r] \notin {"idle", "add", "evict", "return", "held", "unmap", "map"}
  BY <1>1 DEF ReaderStage, Pointing, Filling
<1> HIDE DEF s
<1>3. pc[r] = "fillAcquire" => entry[want[r]] = None
  <2> SUFFICES ASSUME pc[r] = "fillAcquire", entry[want[r]] # None
               PROVE  FALSE
    BY Zenon
  <2>1. want[r] \in Hash /\ entry[want[r]] = seen[r]
    BY <1>2, Apart, Zenon DEF XorbMapInv, Wants, Misses
  <2>2. refs[seen[r]] > 0
    BY <2>1, EntryHeld, Zenon
  <2> QED
    BY <2>2
<1>4. CopiesCounted'
  <2>1. s = "map" <=> pc[r] = "map"
    BY <1>2
  <2> QED
    BY <1>1, <2>1, MoverCopies, Zenon
<1>5. copies' \subseteq Hash /\ live' \in [Hash -> Nat]
  BY <1>1, OtherTypes, Zenon
<1> QED
  BY <1>1, <1>2, <1>3, <1>4, <1>5, PlainMove, Zenon

\* A reader takes a hold on a mapping still held.
LEMMA AcquireSucceeds ==
    ASSUME Counting, XorbMapInv, NEW r \in Reader, Acquire(r), refs[seen[r]] > 0, UNCHANGED backend
    PROVE  XorbMapInv'
<1> DEFINE m == seen[r]
           s == IF pc[r] = "fillAcquire" THEN "return" ELSE "held"
<1>1. /\ pc[r] \in {"acquire", "fillAcquire", "share"} /\ pc' = [pc EXCEPT ![r] = s]
      /\ refs' = [refs EXCEPT ![m] = @ + 1]
      /\ UNCHANGED <<objects, lru, entry, hashOf, flight, want, seen, drop, copies, live>>
  BY DEF Acquire, Goto, cacheVars, fileVars
<1>2. /\ s \in {"return", "held"} /\ s \in ReaderStage
      /\ s \in Filling <=> pc[r] \in Filling
      /\ pc[r] \in Pointing /\ s \in Pointing \cup {"return"}
      /\ pc[r] \notin {"idle", "add", "evict", "return", "held", "unmap", "map", "open", "rename"}
      /\ s \notin {"idle", "add", "evict", "unmap", "map", "open", "rename", "fillAcquire"}
  BY <1>1 DEF ReaderStage, Pointing, Filling
<1> HIDE DEF s
<1>3. m \in Mapping /\ m # None
  BY <1>2, OtherTypes, Zenon DEF XorbMapInv, Sees
<1>4. hashOf[m] = want[r] /\ hashOf[m] # None /\ \A a \in Actor : drop[a] # m
  BY <1>3, HeldIs, Zenon DEF XorbMapInv, Sees
<1>5. /\ pc'[r] = s /\ \A a \in Actor : a # r => pc'[a] = pc[a]
      /\ r \in Actor /\ r # Deleter
  BY <1>1, OtherTypes, Apart, Zenon
<1>6. refs'[m] = refs[m] + 1 /\ refs' \in [Mapping -> Nat] /\ \A n \in Mapping : n # m => refs'[n] = refs[n]
  BY <1>1, <1>3, OtherTypes
<1>7. Types'
  <2>1. pc' \in [Actor -> ReaderStage \cup DeleterStage]
    BY <1>1, <1>2, <1>5, OtherTypes, Zenon
  <2>2. pc'[Deleter] = pc[Deleter] /\ \A q \in Reader : pc'[q] = pc[q] \/ pc'[q] = s
    BY <1>5, Apart, Zenon
  <2> QED
    BY <1>1, <1>2, <1>6, <2>1, <2>2, Zenon DEF XorbMapInv, Types, MapTypeOK
<1>8. Wants' /\ Flights'
  <2>1. Flights'
    BY <1>1, <1>2, QuietFlights, Zenon
  <2>2. Wants'
    BY <1>1, <1>2, <1>5, Zenon DEF XorbMapInv, Wants
  <2> QED
    BY <2>1, <2>2, Zenon
<1>9. Sees'
  BY <1>1, <1>2, <1>3, <1>5, Apart, Zenon DEF XorbMapInv, Sees
<1>10. Drops'
  <2>1. \A a \in Actor : drop[a] # None => refs'[drop[a]] = refs[drop[a]]
    BY <1>4, <1>6, OtherTypes, Zenon
  <2>2. \A a \in Actor : pc'[a] \in {"evict", "unmap"} <=> pc[a] \in {"evict", "unmap"}
    BY <1>2, <1>5, Zenon
  <2> QED
    BY <1>1, <2>1, <2>2, Zenon DEF XorbMapInv, Drops
<1>11. \A q \in Reader : \A n \in Mapping : q # r => Holds(q, n)' = Holds(q, n)
  BY <1>1, <1>5, Apart, Zenon DEF Holds
<1>12. \A n \in Mapping : Holds(r, n) = 0 /\ Holds(r, n)' = IF n = m THEN 1 ELSE 0
  BY <1>1, <1>2, <1>5 DEF Holds
<1>13. Mapped'
  <2>1. \A n \in Mapping : hashOf[n] = None => refs'[n] = 0
    BY <1>4, <1>6, Zenon DEF XorbMapInv, Mapped
  <2>2. ASSUME NEW q \in Reader, NEW n \in Mapping, Holds(q, n)' > 0
        PROVE  hashOf[n] = want[q]
    <3>1. CASE q = r
      <4>1. n = m
        BY <1>12, <2>2, <3>1
      <4> QED
        BY <1>4, <3>1, <4>1, Zenon
    <3>2. CASE q # r
      BY <1>11, <2>2, <3>2, Zenon DEF XorbMapInv, Mapped
    <3> QED
      BY <3>1, <3>2, Zenon
  <2> QED
    BY <1>1, <2>1, <2>2, Zenon DEF XorbMapInv, Mapped
<1>14. Misses'
  BY <1>1, <1>2, <1>5, Apart, Zenon DEF XorbMapInv, Misses
<1>15. RefsExact'
  <2> SUFFICES ASSUME NEW n \in Mapping
               PROVE  /\ refs'[n] = CacheHolds(n)' + OwnedHolds(n)'
                      /\ hashOf[n] # None => refs'[n] > 0 \/ \E a \in Actor : drop[a] = n
    BY <1>1, Zenon DEF RefsExact
  <2>1. CacheHolds(n)' + OwnedHolds(n)' = refs[n] + Holds(r, n)' - Holds(r, n)
    BY <1>1, <1>11, HoldsMove, Zenon
  <2>2. refs[n] \in Nat /\ (hashOf[n] # None => refs[n] > 0 \/ \E a \in Actor : drop[a] = n)
    BY OtherTypes, Zenon DEF XorbMapInv, RefsExact
  <2>3. CASE n = m
    BY <1>6, <1>12, <2>1, <2>2, <2>3
  <2>4. CASE n # m
    BY <1>6, <1>12, <2>1, <2>2, <2>4
  <2> QED
    BY <2>3, <2>4, Zenon
<1>16. CopiesCounted'
  <2>1. s = "map" <=> pc[r] = "map"
    BY <1>2, Zenon
  <2> QED
    BY <1>1, <2>1, MoverCopies, Zenon
<1>17. LRUBounded'
  BY <1>1, QuietList, Zenon DEF XorbMapInv
<1> QED
  BY <1>7, <1>8, <1>9, <1>10, <1>13, <1>14, <1>15, <1>16, <1>17, Zenon DEF XorbMapInv

\* A reader gives its hold back, and unmaps if it was the last.
LEMMA CloseKeeps ==
    ASSUME Counting, XorbMapInv, NEW r \in Reader, Close(r), UNCHANGED backend
    PROVE  XorbMapInv'
<1> DEFINE m == seen[r]
           s == IF refs[m] = 1 THEN "unmap" ELSE "idle"
<1>1. /\ pc[r] = "held" /\ Release(r, m, "unmap", "idle") /\ seen' = [seen EXCEPT ![r] = None]
      /\ UNCHANGED <<objects, lru, entry, hashOf, flight, want, copies, live>>
  BY Zenon DEF Close, cacheVars, fileVars
<1>2. pc' = [pc EXCEPT ![r] = s]
  BY <1>1, Zenon DEF Release, Goto
<1>3. /\ s \in ReaderStage /\ s \notin Filling /\ pc[r] \notin Filling
      /\ s \notin Pointing \cup {"return"}
      /\ s \notin {"add", "evict", "return", "held", "open", "rename", "map", "fillAcquire"}
      /\ pc[r] \in Pointing /\ pc[r] \notin {"idle", "add", "evict", "unmap", "map"}
  BY <1>1 DEF ReaderStage, Filling, Pointing
<1> HIDE DEF s
<1>4. m \in Mapping /\ m # None
  BY <1>3, OtherTypes, Zenon DEF XorbMapInv, Sees
<1>5. \A n \in Mapping : Holds(r, n) = IF n = m THEN 1 ELSE 0
  BY <1>1 DEF Holds
<1>6. refs[m] > 0 /\ hashOf[m] = want[r]
  BY <1>4, <1>5, OwnerHolds
<1>7. /\ Drops'
      /\ refs' \in [Mapping -> Nat] /\ drop' \in [Actor -> Mapping \cup {None}]
      /\ refs'[m] = refs[m] - 1 /\ \A n \in Mapping : n # m => refs'[n] = refs[n]
      /\ \A n \in Mapping : hashOf[n] = None => refs'[n] = 0
      /\ \A n \in Mapping : hashOf[n] # None => refs'[n] > 0 \/ \E b \in Actor : drop'[b] = n
  <2>1. "idle" \notin {"evict", "unmap"} /\ "unmap" \in {"evict", "unmap"} /\ r \in Actor
    BY Apart
  <2> HIDE DEF m
  <2> QED
    BY <1>1, <1>3, <1>4, <1>6, <2>1, ReleaseDrops, Zenon
<1>8. seen'[r] = None /\ seen' \in [Reader -> Mapping \cup {None}] /\ \A q \in Reader : q # r => seen'[q] = seen[q]
  BY <1>1, OtherTypes, Zenon
<1>9. Types' /\ pc'[r] = s /\ \A a \in Actor : a # r => pc'[a] = pc[a]
  <2>1. /\ lru' \in Seq(Hash) /\ entry' \in [Hash -> Mapping \cup {None}]
        /\ hashOf' \in [Mapping -> Hash \cup {None}]
    BY <1>1, OtherTypes, Zenon
  <2>2. s \in ReaderStage /\ UNCHANGED <<backend, objects, flight, want, copies, live>>
    BY <1>1, <1>3, Zenon
  <2>3. /\ refs' \in [Mapping -> Nat] /\ drop' \in [Actor -> Mapping \cup {None}]
        /\ seen' \in [Reader -> Mapping \cup {None}]
    BY <1>7, <1>8, Zenon
  <2> QED
    BY <1>2, <2>1, <2>2, <2>3, CounterTypes, Zenon
<1>10. Flights'
  BY <1>1, <1>2, <1>3, QuietFlights, Zenon
<1>11. Wants'
  BY <1>1, <1>3, <1>9, Zenon DEF XorbMapInv, Wants
<1>12. Sees'
  <2>1. \A q \in Reader : q # r => pc'[q] = pc[q] /\ seen'[q] = seen[q] /\ want'[q] = want[q]
    BY <1>1, <1>8, <1>9, Apart, Zenon
  <2> QED
    BY <1>1, <1>3, <1>8, <1>9, <2>1 DEF XorbMapInv, Sees
<1>13. Misses'
  BY <1>1, <1>3, <1>8, <1>9, Apart, Zenon DEF XorbMapInv, Misses
<1>14. \A q \in Reader : \A n \in Mapping : q # r => Holds(q, n)' = Holds(q, n)
  BY <1>8, <1>9, Apart, Zenon DEF Holds
<1>15. \A n \in Mapping : Holds(r, n)' = 0
  BY <1>8, Apart, Zenon DEF Holds
<1>16. Mapped'
  <2>1. \A q \in Reader : \A n \in Mapping : Holds(q, n)' > 0 => Holds(q, n)' = Holds(q, n)
    BY <1>14, <1>15
  <2> QED
    BY <1>1, <1>7, <2>1, Zenon DEF XorbMapInv, Mapped
<1>17. RefsExact'
  <2>1. ASSUME NEW n \in Mapping
        PROVE  refs'[n] = CacheHolds(n)' + OwnedHolds(n)'
    <3>1. CacheHolds(n)' + OwnedHolds(n)' = refs[n] + Holds(r, n)' - Holds(r, n)
      BY <1>1, <1>14, HoldsMove, Zenon
    <3>2. refs[n] \in Nat
      BY OtherTypes, Zenon
    <3> QED
      BY <1>5, <1>7, <1>15, <3>1, <3>2
  <2> QED
    BY <1>1, <1>7, <2>1, Zenon DEF RefsExact
<1>18. CopiesCounted'
  <2>1. s = "map" <=> pc[r] = "map"
    BY <1>3, Zenon
  <2> QED
    BY <1>1, <1>2, <2>1, MoverCopies, Zenon
<1>19. LRUBounded'
  BY <1>1, QuietList, Zenon DEF XorbMapInv
<1> QED
  BY <1>7, <1>9, <1>10, <1>11, <1>12, <1>13, <1>16, <1>17, <1>18, <1>19, Zenon DEF XorbMapInv

-----------------------------------------------------------------------------
\* How the counts behind xorbLive change with one reader, and with one mapping.
LEMMA FillsMove ==
    ASSUME Counting, NEW r \in Reader, NEW h \in Hash,
           \A q \in Reader : q # r => ((pc'[q] = "map" /\ want'[q] = h) <=> (pc[q] = "map" /\ want[q] = h))
    PROVE  /\ FillsOf(h) \in Nat
           /\ FillsOf(h)' = FillsOf(h) + (IF pc'[r] = "map" /\ want'[r] = h THEN 1 ELSE 0)
                                      - (IF pc[r] = "map" /\ want[r] = h THEN 1 ELSE 0)
           /\ pc[r] = "map" /\ want[r] = h => FillsOf(h) > 0
<1> DEFINE S == {q \in Reader : pc[q] = "map" /\ want[q] = h}
<1>1. S \in SUBSET Reader /\ S' \in SUBSET Reader /\ S \ {r} = S' \ {r}
  BY Zenon
<1>2. (r \in S <=> pc[r] = "map" /\ want[r] = h) /\ (r \in S' <=> pc'[r] = "map" /\ want'[r] = h)
  BY Zenon
<1>3. FillsOf(h) = Cardinality(S) /\ FillsOf(h)' = Cardinality(S')
  BY Zenon DEF FillsOf
<1>4. IsFiniteSet(Reader)
  BY XorbMapAssumption, Zenon
<1> HIDE DEF S
<1>5. CountedTo(S, S', r)
  BY <1>1, <1>4, CountMoves, Zenon
<1> QED
  BY <1>2, <1>3, <1>5 DEF CountedTo

\* The mappings of a hash when one mapping changes.
LEMMA MapsMove ==
    ASSUME Counting, NEW m \in Mapping, NEW h \in Hash, \A n \in Mapping : n # m => hashOf'[n] = hashOf[n]
    PROVE  /\ MapsOf(h) \in Nat
           /\ MapsOf(h)' = MapsOf(h) + (IF hashOf'[m] = h THEN 1 ELSE 0) - (IF hashOf[m] = h THEN 1 ELSE 0)
           /\ hashOf[m] = h => MapsOf(h) > 0
<1> DEFINE S == {n \in Mapping : hashOf[n] = h}
<1>1. S \in SUBSET Mapping /\ S' \in SUBSET Mapping /\ S \ {m} = S' \ {m}
  BY Zenon
<1>2. (m \in S <=> hashOf[m] = h) /\ (m \in S' <=> hashOf'[m] = h)
  BY Zenon
<1>3. MapsOf(h) = Cardinality(S) /\ MapsOf(h)' = Cardinality(S')
  BY Zenon DEF MapsOf
<1>4. IsFiniteSet(Mapping)
  BY XorbMapAssumption, Zenon
<1> HIDE DEF S
<1>5. CountedTo(S, S', m)
  BY <1>1, <1>4, CountMoves, Zenon
<1> QED
  BY <1>2, <1>3, <1>5 DEF CountedTo

\* Both counts are numbers.
LEMMA CountsAre ==
    ASSUME Counting, NEW h \in Hash
    PROVE  MapsOf(h) \in Nat /\ FillsOf(h) \in Nat
<1>1. IsFiniteSet(Mapping) /\ IsFiniteSet(Reader)
  BY XorbMapAssumption, Zenon
<1>2. {n \in Mapping : hashOf[n] = h} \in SUBSET Mapping
  BY Zenon
<1>3. {q \in Reader : pc[q] = "map" /\ want[q] = h} \in SUBSET Reader
  BY Zenon
<1> QED
  BY <1>1, <1>2, <1>3, SizeIs, Zenon DEF MapsOf, FillsOf

\* removeXorbFile, as one of the things xorbLive counts goes.
LEMMA HookCounts ==
    ASSUME Counting, XorbMapInv, NEW h \in Hash, ReleaseHook(h), UNCHANGED backend,
           MapsOf(h) + FillsOf(h) > 0,
           \A g \in Hash : MapsOf(g)' + FillsOf(g)' = MapsOf(g) + FillsOf(g) - (IF g = h THEN 1 ELSE 0)
    PROVE  CopiesCounted' /\ copies' \subseteq Hash /\ live' \in [Hash -> Nat]
<1>1. live \in [Hash -> Nat] /\ copies \subseteq Hash /\ CopiesCounted
  BY OtherTypes, Zenon DEF XorbMapInv
<1>2. CASE ~backend.remote
  BY <1>1, <1>2, Zenon DEF ReleaseHook, CopiesCounted, fileVars
<1>3. CASE backend.remote
  <2>1. live' = [live EXCEPT ![h] = @ - 1] /\ copies' = IF live[h] > 1 THEN copies ELSE copies \ {h}
    BY <1>3, Zenon DEF ReleaseHook
  <2>2. live'[h] = live[h] - 1 /\ \A g \in Hash : g # h => live'[g] = live[g]
    BY <1>1, <2>1
  <2>3. \A g \in Hash : live[g] = MapsOf(g) + FillsOf(g) /\ (g \in copies => live[g] > 0)
                         /\ (live[g] > 0 /\ ~backend.mayFail => g \in copies)
    BY <1>1, <1>3, Zenon DEF CopiesCounted
  <2>4. live[h] \in Nat /\ live[h] > 0 /\ live'[h] \in Nat
    BY <1>1, <2>2, <2>3
  <2>5. live' \in [Hash -> Nat] /\ copies' \subseteq Hash
    BY <1>1, <2>1, <2>2, <2>4
  <2>6. ASSUME NEW g \in Hash
        PROVE  /\ live'[g] = MapsOf(g)' + FillsOf(g)'
               /\ g \in copies' => live'[g] > 0
               /\ live'[g] > 0 /\ ~backend.mayFail => g \in copies'
    <3>1. MapsOf(g)' + FillsOf(g)' = MapsOf(g) + FillsOf(g) - (IF g = h THEN 1 ELSE 0)
      BY Zenon
    <3>2. live'[g] = MapsOf(g)' + FillsOf(g)'
      BY <2>2, <2>3, <3>1, CountsAre
    <3>3. g \in copies' => live'[g] > 0
      BY <2>1, <2>2, <2>3, <2>4
    <3>4. live'[g] > 0 /\ ~backend.mayFail => g \in copies'
      BY <2>1, <2>2, <2>3, <2>4
    <3> QED
      BY <3>2, <3>3, <3>4, Zenon
  <2> QED
    BY <2>5, <2>6, Zenon DEF CopiesCounted
<1> QED
  BY <1>2, <1>3, Zenon

\* A fill puts the copy of a remote xorb in place, or fails to.
LEMMA RenameKeeps ==
    ASSUME Counting, XorbMapInv, NEW r \in Reader, Rename(r), UNCHANGED backend
    PROVE  XorbMapInv'
<1> DEFINE h == want[r]
<1>1. /\ pc[r] = "rename"
      /\ UNCHANGED <<objects, lru, entry, refs, hashOf, flight, want, seen, drop>>
  BY Zenon DEF Rename, cacheVars
<1>2. /\ pc[r] \in Filling /\ pc[r] \notin Pointing \cup {"return"}
      /\ pc[r] \notin {"idle", "add", "evict", "return", "held", "unmap", "map"}
      /\ {"map", "return"} \subseteq ReaderStage /\ {"map", "return"} \subseteq Filling
      /\ \A s \in {"map", "return"} : s \notin {"idle", "unmap"} \cup Pointing
  BY <1>1 DEF ReaderStage, Pointing, Filling
<1>3. entry[h] = None /\ h \in Hash
  BY <1>1, Apart DEF XorbMapInv, Misses, Wants
<1>4. seen' = [seen EXCEPT ![r] = None]
  BY <1>1, <1>2, SeesNothing, Zenon
<1>5. live \in [Hash -> Nat] /\ copies \subseteq Hash /\ pc \in [Actor -> ReaderStage \cup DeleterStage]
  BY OtherTypes, Zenon
<1>6. ASSUME pc' = [pc EXCEPT ![r] = "map"], copies' = copies \cup {h}, live' = [live EXCEPT ![h] = @ + 1]
      PROVE  XorbMapInv'
  <2>1. live'[h] = live[h] + 1 /\ \A g \in Hash : g # h => live'[g] = live[g]
    BY <1>3, <1>5, <1>6
  <2>2. live' \in [Hash -> Nat] /\ copies' \subseteq Hash
    BY <1>3, <1>5, <1>6
  <2>3. pc'[r] = "map" /\ \A q \in Reader : q # r => pc'[q] = pc[q]
    BY <1>5, <1>6, Apart, Zenon
  <2>4. ASSUME NEW g \in Hash
        PROVE  MapsOf(g)' + FillsOf(g)' = MapsOf(g) + FillsOf(g) + (IF g = h THEN 1 ELSE 0)
    <3>1. MapsOf(g)' = MapsOf(g)
      BY <1>1, Zenon DEF MapsOf
    <3>2. FillsOf(g)' = FillsOf(g) + (IF pc'[r] = "map" /\ want'[r] = g THEN 1 ELSE 0)
                                   - (IF pc[r] = "map" /\ want[r] = g THEN 1 ELSE 0)
      BY <1>1, <2>3, FillsMove, Zenon
    <3>3. FillsOf(g)' = FillsOf(g) + (IF g = h THEN 1 ELSE 0)
      BY <1>1, <2>3, <3>2, CountsAre
    <3> QED
      BY <3>1, <3>3, CountsAre
  <2>5. CopiesCounted'
    <3> SUFFICES ASSUME backend.remote, NEW g \in Hash
                 PROVE  /\ live'[g] = MapsOf(g)' + FillsOf(g)'
                        /\ g \in copies' => live'[g] > 0
                        /\ live'[g] > 0 /\ ~backend.mayFail => g \in copies'
      BY Zenon DEF CopiesCounted
    <3>1. /\ live[g] = MapsOf(g) + FillsOf(g) /\ (g \in copies => live[g] > 0)
          /\ (live[g] > 0 /\ ~backend.mayFail => g \in copies)
      BY Zenon DEF XorbMapInv, CopiesCounted
    <3>2. live'[g] = MapsOf(g)' + FillsOf(g)'
      BY <2>1, <2>4, <3>1, CountsAre
    <3> QED
      BY <1>3, <1>5, <1>6, <2>1, <3>1, <3>2
  <2> QED
    BY <1>1, <1>2, <1>3, <1>4, <1>6, <2>2, <2>5, PlainMove, Zenon
<1>7. ASSUME backend.mayFail, pc' = [pc EXCEPT ![r] = "return"], copies' \in {copies, copies \ {h}}, live' = live
      PROVE  XorbMapInv'
  <2>1. copies' \subseteq copies
    BY <1>7, Zenon
  <2>2. \A q \in Reader : \A g \in Hash : (pc'[q] = "map" /\ want'[q] = g) <=> (pc[q] = "map" /\ want[q] = g)
    <3>1. pc'[r] = "return" /\ \A q \in Reader : q # r => pc'[q] = pc[q]
      BY <1>5, <1>7, Apart, Zenon
    <3> QED
      BY <1>1, <3>1
  <2>3. ASSUME NEW g \in Hash
        PROVE  MapsOf(g)' = MapsOf(g) /\ FillsOf(g)' = FillsOf(g)
    <3>1. {q \in Reader : pc'[q] = "map" /\ want'[q] = g} = {q \in Reader : pc[q] = "map" /\ want[q] = g}
      BY <2>2, Zenon
    <3> QED
      BY <1>1, <3>1, Zenon DEF MapsOf, FillsOf
  <2>4. CopiesCounted'
    BY <1>7, <2>1, <2>3, Zenon DEF XorbMapInv, CopiesCounted
  <2>5. copies' \subseteq Hash /\ live' \in [Hash -> Nat]
    BY <1>5, <1>7, <2>1, Zenon
  <2>6. "return" \notin {"open", "rename", "map"}
    OBVIOUS
  <2> QED
    BY <1>1, <1>2, <1>4, <1>7, <2>4, <2>5, <2>6, PlainMove, Zenon
<1> QED
  BY <1>6, <1>7, Zenon DEF Rename, Goto

\* The file cannot be mapped, and the hook drops its copy.
LEMMA MapFails ==
    ASSUME Counting, XorbMapInv, NEW r \in Reader, pc[r] = "map", pc' = [pc EXCEPT ![r] = "return"], ReleaseHook(want[r]),
           UNCHANGED <<backend, objects, lru, entry, refs, hashOf, flight, want, seen, drop>>
    PROVE  XorbMapInv'
<1>1. /\ pc[r] \in Filling /\ pc[r] \notin Pointing \cup {"return"}
      /\ pc[r] \notin {"idle", "add", "evict", "return", "held", "unmap"}
      /\ "return" \in ReaderStage /\ "return" \in Filling
      /\ "return" \notin {"idle", "unmap"} \cup Pointing
      /\ "return" \notin {"open", "rename", "map"}
  BY DEF ReaderStage, Pointing, Filling
<1>2. want[r] \in Hash
  BY <1>1, Apart, Zenon DEF XorbMapInv, Wants
<1>3. seen' = [seen EXCEPT ![r] = None]
  BY <1>1, SeesNothing, Zenon
<1>4. pc'[r] = "return" /\ \A q \in Reader : q # r => pc'[q] = pc[q]
  BY OtherTypes, Apart, Zenon
<1>5. ASSUME NEW g \in Hash
      PROVE  MapsOf(g)' + FillsOf(g)' = MapsOf(g) + FillsOf(g) - (IF g = want[r] THEN 1 ELSE 0)
  <2>1. MapsOf(g)' = MapsOf(g)
    BY Zenon DEF MapsOf
  <2>2. FillsOf(g)' = FillsOf(g) + (IF pc'[r] = "map" /\ want'[r] = g THEN 1 ELSE 0)
                                 - (IF pc[r] = "map" /\ want[r] = g THEN 1 ELSE 0)
    BY <1>4, FillsMove, Zenon
  <2>3. FillsOf(g)' = FillsOf(g) - (IF g = want[r] THEN 1 ELSE 0)
    BY <1>4, <2>2, CountsAre
  <2> QED
    BY <2>1, <2>3, CountsAre
<1>6. MapsOf(want[r]) + FillsOf(want[r]) > 0
  <2>1. FillsOf(want[r]) > 0
    BY <1>2, <1>4, FillsMove, Zenon
  <2> QED
    BY <1>2, <2>1, CountsAre
<1>7. CopiesCounted' /\ copies' \subseteq Hash /\ live' \in [Hash -> Nat]
  BY <1>2, <1>5, <1>6, HookCounts, Zenon
<1> QED
  BY <1>1, <1>3, <1>7, PlainMove, Zenon

\* The end of fill: the fresh identity has no hold left over from an earlier
\* mapping, and gets the cache's and the caller's.
LEMMA MapSucceeds ==
    ASSUME Counting, XorbMapInv, NEW r \in Reader, pc[r] = "map", NEW m \in Mapping, hashOf[m] = None,
           \A q \in Reader : seen[q] # m,
           hashOf' = [hashOf EXCEPT ![m] = want[r]], refs' = [refs EXCEPT ![m] = 2],
           seen' = [seen EXCEPT ![r] = m], pc' = [pc EXCEPT ![r] = "add"],
           UNCHANGED <<backend, objects, lru, entry, flight, want, drop, copies, live>>
    PROVE  XorbMapInv'
<1>1. /\ pc[r] \in Filling /\ pc[r] \notin Pointing \cup {"return"} /\ "add" \in ReaderStage
      /\ "add" \in Filling /\ "add" \in Pointing
  BY DEF Filling, Pointing, ReaderStage
<1>2. want[r] \in Hash /\ entry[want[r]] = None /\ seen[r] = None /\ m # None
  BY <1>1, Apart DEF XorbMapInv, Wants, Misses, Sees
<1>3. refs[m] = 0 /\ \A a \in Actor : drop[a] # m
  BY Apart, Zenon DEF XorbMapInv, Mapped, Drops
<1>4. \A h \in Hash : entry[h] # m
  BY Apart, Zenon DEF XorbMapInv, Mapped
<1>5. /\ seen'[r] = m /\ seen' \in [Reader -> Mapping \cup {None}]
      /\ \A q \in Reader : q # r => seen'[q] = seen[q]
      /\ hashOf'[m] = want[r] /\ hashOf' \in [Mapping -> Hash \cup {None}]
      /\ \A n \in Mapping : n # m => hashOf'[n] = hashOf[n]
  BY <1>2, OtherTypes, Zenon
<1>6. refs'[m] = 2 /\ refs' \in [Mapping -> Nat] /\ \A n \in Mapping : n # m => refs'[n] = refs[n]
  BY OtherTypes
<1>7. Types' /\ pc'[r] = "add" /\ \A a \in Actor : a # r => pc'[a] = pc[a]
  BY <1>1, <1>5, <1>6, OtherTypes, CounterTypes, Zenon
<1>8. \A q \in Reader : q # r => pc'[q] = pc[q] /\ seen'[q] = seen[q] /\ want'[q] = want[q]
  BY <1>5, <1>7, Apart, Zenon
<1>9. Flights'
  BY <1>1, QuietFlights, Zenon
<1>10. Wants'
  <2>1. "map" # "idle"
    OBVIOUS
  <2> QED
    BY <1>7, <2>1, Zenon DEF XorbMapInv, Wants
<1>11. Sees'
  <2> SUFFICES ASSUME NEW q \in Reader
               PROVE  /\ pc'[q] \in Pointing => seen'[q] # None
                      /\ pc'[q] \notin Pointing \cup {"return"} => seen'[q] = None
                      /\ seen'[q] # None => hashOf'[seen'[q]] \in {None, want'[q]}
    BY Zenon DEF Sees
  <2>1. CASE q = r
    BY <1>1, <1>2, <1>5, <1>7, <2>1, Zenon
  <2>2. CASE q # r
    <3>1. seen[q] # None => seen[q] \in Mapping /\ hashOf'[seen[q]] = hashOf[seen[q]]
      BY <1>5, OtherTypes, ZenonT(30)
    <3> QED
      BY <1>8, <2>2, <3>1, Zenon DEF XorbMapInv, Sees
  <2> QED
    BY <2>1, <2>2, Zenon
<1>12. Drops'
  <2>1. \A a \in Actor : pc'[a] \in {"evict", "unmap"} <=> pc[a] \in {"evict", "unmap"}
    BY <1>7
  <2>2. ASSUME NEW a \in Actor, drop[a] # None
        PROVE  refs'[drop[a]] = 0 /\ hashOf'[drop[a]] # None
    <3>1. drop[a] \in Mapping /\ drop[a] # m /\ refs[drop[a]] = 0 /\ hashOf[drop[a]] # None
      BY <1>3, <2>2, OtherTypes, Zenon DEF XorbMapInv, Drops
    <3> QED
      BY <1>5, <1>6, <3>1, Zenon
  <2>3. \A a \in Actor : drop[a] # None <=> pc'[a] \in {"evict", "unmap"}
    BY <2>1, Zenon DEF XorbMapInv, Drops
  <2> QED
    BY <2>2, <2>3, Zenon DEF XorbMapInv, Drops
<1>13. Misses'
  BY <1>2, <1>7, <1>8 DEF XorbMapInv, Misses
<1>14. \A q \in Reader : \A n \in Mapping : q # r => Holds(q, n)' = Holds(q, n)
  BY <1>8, Zenon DEF Holds
<1>15. \A n \in Mapping : Holds(r, n) = 0 /\ Holds(r, n)' = IF n = m THEN 2 ELSE 0
  BY <1>5, <1>7 DEF Holds
<1>16. Mapped'
  <2>1. \A n \in Mapping : hashOf'[n] = None => refs'[n] = 0
    BY <1>2, <1>5, <1>6, Apart, Zenon DEF XorbMapInv, Mapped
  <2>2. ASSUME NEW h \in Hash, entry[h] # None
        PROVE  hashOf'[entry[h]] = h
    <3>1. entry[h] \in Mapping /\ entry[h] # m /\ hashOf[entry[h]] = h
      BY <1>4, <2>2, OtherTypes, Zenon DEF XorbMapInv, Mapped
    <3> QED
      BY <1>5, <3>1, Zenon
  <2>3. ASSUME NEW q \in Reader, NEW n \in Mapping, Holds(q, n)' > 0
        PROVE  hashOf'[n] = want[q]
    <3>1. CASE q = r
      <4>1. n = m
        BY <1>15, <2>3, <3>1
      <4> QED
        BY <1>5, <3>1, <4>1, Zenon
    <3>2. CASE q # r
      <4>1. Holds(q, n) > 0
        BY <1>14, <2>3, <3>2, Zenon
      <4>2. refs[n] > 0 /\ hashOf[n] = want[q]
        BY <4>1, OwnerHolds, Zenon
      <4>3. n # m
        BY <1>3, <4>2
      <4> QED
        BY <1>5, <4>2, <4>3, Zenon
    <3> QED
      BY <3>1, <3>2, Zenon
  <2> QED
    BY <2>1, <2>2, <2>3, Zenon DEF Mapped
<1>17. RefsExact'
  <2>1. ASSUME NEW n \in Mapping
        PROVE  refs'[n] = CacheHolds(n)' + OwnedHolds(n)'
    <3>1. CacheHolds(n)' + OwnedHolds(n)' = refs[n] + Holds(r, n)' - Holds(r, n)
      BY <1>14, HoldsMove, Zenon
    <3>2. refs[n] \in Nat
      BY OtherTypes, Zenon
    <3> QED
      BY <1>3, <1>6, <1>15, <3>1, <3>2
  <2>2. ASSUME NEW n \in Mapping, hashOf'[n] # None
        PROVE  refs'[n] > 0 \/ \E a \in Actor : drop[a] = n
    <3>1. CASE n = m
      BY <1>6, <3>1
    <3>2. CASE n # m
      BY <1>5, <1>6, <2>2, <3>2, Zenon DEF XorbMapInv, RefsExact
    <3> QED
      BY <3>1, <3>2, Zenon
  <2> QED
    BY <2>1, <2>2, Zenon DEF RefsExact
<1>18. CopiesCounted'
  <2>1. ASSUME NEW h \in Hash
        PROVE  MapsOf(h)' + FillsOf(h)' = MapsOf(h) + FillsOf(h)
    <3>1. MapsOf(h)' = MapsOf(h) + (IF hashOf'[m] = h THEN 1 ELSE 0) - (IF hashOf[m] = h THEN 1 ELSE 0)
      BY <1>5, MapsMove, Zenon
    <3>2. \A q \in Reader : q # r => ((pc'[q] = "map" /\ want'[q] = h) <=> (pc[q] = "map" /\ want[q] = h))
      BY <1>8, Zenon
    <3>3. FillsOf(h)' = FillsOf(h) + (IF pc'[r] = "map" /\ want'[r] = h THEN 1 ELSE 0)
                                   - (IF pc[r] = "map" /\ want[r] = h THEN 1 ELSE 0)
      BY <3>2, FillsMove, Zenon
    <3>4. hashOf[m] # h
      BY Apart, Zenon
    <3> QED
      BY <1>5, <1>7, <3>1, <3>3, <3>4, CountsAre
  <2> QED
    BY <2>1, Zenon DEF XorbMapInv, CopiesCounted
<1>19. LRUBounded'
  BY QuietList, Zenon DEF XorbMapInv
<1> QED
  BY <1>7, <1>9, <1>10, <1>11, <1>12, <1>13, <1>16, <1>17, <1>18, <1>19, Zenon DEF XorbMapInv

\* The end of Mapping.Release: nothing holds or lists what it unmaps.
LEMMA UnmapKeeps ==
    ASSUME Counting, XorbMapInv, NEW a \in Actor, Unmap(a), UNCHANGED backend
    PROVE  XorbMapInv'
<1> DEFINE m == drop[a]
           s == CASE pc[a] = "unmap" -> "idle" [] a # Deleter /\ pc[a] = "evict" -> "return"
                  [] a = Deleter /\ backend.remote -> "idle" [] a = Deleter /\ ~backend.remote -> "object"
<1>1. /\ pc[a] \in {"evict", "unmap"} /\ hashOf' = [hashOf EXCEPT ![m] = None]
      /\ drop' = [drop EXCEPT ![a] = None] /\ ReleaseHook(hashOf[m]) /\ pc' = [pc EXCEPT ![a] = s]
      /\ UNCHANGED <<objects, lru, entry, refs, flight, want, seen>>
  BY Zenon DEF Unmap, Goto, cacheVars
<1>2. m \in Mapping /\ m # None /\ refs[m] = 0 /\ hashOf[m] # None /\ \A b \in Actor : b # a => drop[b] # m
  BY <1>1, OtherTypes, Zenon DEF XorbMapInv, Drops
<1>3. hashOf[m] \in Hash
  BY <1>2, OtherTypes, Zenon
<1>4. /\ a \in Reader => (pc[a] = "evict" /\ s = "return") \/ (pc[a] = "unmap" /\ s = "idle")
      /\ a = Deleter => pc[a] = "evict" /\ s \in {"idle", "object"}
  <2>1. a = Deleter => pc[a] \in DeleterStage
    BY Zenon DEF XorbMapInv, Types, MapTypeOK
  <2>2. backend \in [remote : BOOLEAN, mayFail : BOOLEAN]
    BY Zenon DEF XorbMapInv, Types
  <2>3. a \in Reader => a # Deleter
    BY Apart, Zenon
  <2>4. a = Deleter => pc[a] = "evict"
    BY <1>1, <2>1 DEF DeleterStage
  <2>5. CASE pc[a] = "unmap"
    <3>1. s = "idle" /\ a # Deleter
      BY <2>4, <2>5
    <3> HIDE DEF s
    <3> QED
      BY <2>5, <3>1, Zenon
  <2>6. CASE pc[a] = "evict" /\ a # Deleter
    <3>1. s = "return"
      BY <2>6
    <3> HIDE DEF s
    <3> QED
      BY <2>6, <3>1, Zenon
  <2>7. CASE pc[a] = "evict" /\ a = Deleter
    <3>1. s = CASE backend.remote -> "idle" [] ~backend.remote -> "object"
      BY <2>7
    <3>2. s \in {"idle", "object"}
      BY <2>2, <3>1, Zenon
    <3> HIDE DEF s
    <3> QED
      BY <2>3, <2>7, <3>2, Zenon
  <2> QED
    BY <1>1, <2>5, <2>6, <2>7, Zenon
<1>5. /\ s \in ReaderStage \cup DeleterStage
      /\ (a \in Reader => s \in ReaderStage) /\ (a = Deleter => s \in DeleterStage)
      /\ s \notin {"evict", "unmap", "map"} /\ pc[a] \notin {"idle", "map"} /\ s \notin Pointing
      /\ (a \in Reader => (s \in Filling <=> pc[a] \in Filling))
      /\ (s \notin Pointing \cup {"return"} => pc[a] \notin Pointing \cup {"return"} \/ a = Deleter)
      /\ s \notin {"open", "rename", "map", "add", "fillAcquire"}
  BY <1>4 DEF Actor, ReaderStage, DeleterStage, Pointing, Filling
<1> HIDE DEF s
<1>6. /\ pc'[a] = s /\ \A b \in Actor : b # a => pc'[b] = pc[b]
      /\ drop'[a] = None /\ \A b \in Actor : b # a => drop'[b] = drop[b]
      /\ pc' \in [Actor -> ReaderStage \cup DeleterStage] /\ drop' \in [Actor -> Mapping \cup {None}]
  BY <1>1, <1>5, OtherTypes, Zenon
<1>7. /\ hashOf'[m] = None /\ \A n \in Mapping : n # m => hashOf'[n] = hashOf[n]
      /\ hashOf' \in [Mapping -> Hash \cup {None}]
  BY <1>1, <1>2, OtherTypes, Zenon
<1>8. \A q \in Reader : \A n \in Mapping : Holds(q, n)' = Holds(q, n)
  <2> SUFFICES ASSUME NEW q \in Reader, NEW n \in Mapping
               PROVE  Holds(q, n)' = Holds(q, n)
    BY Zenon
  <2>1. CASE q = a
    BY <1>1, <1>4, <1>6, <2>1 DEF Holds
  <2>2. CASE q # a
    BY <1>1, <1>6, <2>2, Apart, Zenon DEF Holds
  <2> QED
    BY <2>1, <2>2, Zenon
<1>9. CopiesCounted' /\ copies' \subseteq Hash /\ live' \in [Hash -> Nat]
  <2>1. ASSUME NEW h \in Hash
        PROVE  /\ MapsOf(h)' = MapsOf(h) - (IF h = hashOf[m] THEN 1 ELSE 0)
               /\ FillsOf(h)' = FillsOf(h)
    <3>1. MapsOf(h)' = MapsOf(h) + (IF hashOf'[m] = h THEN 1 ELSE 0) - (IF hashOf[m] = h THEN 1 ELSE 0)
      BY <1>2, <1>7, MapsMove, Zenon
    <3>2. hashOf'[m] # h
      BY <1>7, Apart, Zenon
    <3>3. {q \in Reader : pc'[q] = "map" /\ want'[q] = h} = {q \in Reader : pc[q] = "map" /\ want[q] = h}
      BY <1>1, <1>5, <1>6, Apart, Zenon
    <3>4. FillsOf(h)' = FillsOf(h)
      BY <3>3, Zenon DEF FillsOf
    <3> QED
      BY <3>1, <3>2, <3>4, CountsAre
  <2>2. MapsOf(hashOf[m]) + FillsOf(hashOf[m]) > 0
    <3>1. MapsOf(hashOf[m]) > 0
      BY <1>2, <1>3, <1>7, MapsMove, Zenon
    <3> QED
      BY <1>3, <3>1, CountsAre
  <2>3. ASSUME NEW h \in Hash
        PROVE  MapsOf(h)' + FillsOf(h)' = MapsOf(h) + FillsOf(h) - (IF h = hashOf[m] THEN 1 ELSE 0)
    BY <2>1, CountsAre
  <2> QED
    BY <1>1, <1>3, <2>2, <2>3, HookCounts, Zenon
<1>10. Types'
  <2>1. pc'[Deleter] \in DeleterStage /\ \A q \in Reader : pc'[q] \in ReaderStage
    BY <1>5, <1>6, Apart, Zenon DEF XorbMapInv, Types, MapTypeOK
  <2> QED
    BY <1>1, <1>6, <1>7, <1>9, <2>1, Zenon DEF XorbMapInv, Types, MapTypeOK
<1>11. Wants'
  BY <1>1, <1>5, <1>6, Zenon DEF XorbMapInv, Wants
<1>12. \A q \in Reader : q = a \/ pc'[q] = pc[q]
  BY <1>6, Apart, Zenon
<1>13. Flights'
  BY <1>1, <1>5, <1>6, <1>12 DEF XorbMapInv, Flights
<1>14. Sees'
  <2> SUFFICES ASSUME NEW q \in Reader
               PROVE  /\ pc'[q] \in Pointing => seen[q] # None
                      /\ pc'[q] \notin Pointing \cup {"return"} => seen[q] = None
                      /\ seen[q] # None => hashOf'[seen[q]] \in {None, want[q]}
    BY <1>1, Zenon DEF Sees
  <2>1. seen[q] # None => hashOf'[seen[q]] \in {None, want[q]}
    <3>1. seen[q] # None => seen[q] \in Mapping
      BY OtherTypes, Zenon
    <3>2. seen[q] # None => hashOf[seen[q]] \in {None, want[q]}
      BY Zenon DEF XorbMapInv, Sees
    <3>3. seen[q] # None => hashOf'[seen[q]] \in {None, hashOf[seen[q]]}
      BY <1>7, <3>1, Zenon
    <3> QED
      BY <3>2, <3>3, Zenon
  <2>2. /\ (pc'[q] \in Pointing => seen[q] # None)
        /\ (pc'[q] \notin Pointing \cup {"return"} => seen[q] = None)
    BY <1>5, <1>6, <1>12, Apart, Zenon DEF XorbMapInv, Sees
  <2> QED
    BY <2>1, <2>2, Zenon
<1>15. Drops'
  <2>1. \A b \in Actor : drop'[b] # None => b # a /\ drop'[b] = drop[b] /\ drop[b] \in Mapping /\ drop[b] # m
    BY <1>2, <1>6, OtherTypes, Zenon
  <2>2. ASSUME NEW b \in Actor, drop'[b] # None
        PROVE  refs'[drop'[b]] = 0 /\ hashOf'[drop'[b]] # None
    <3>1. drop'[b] = drop[b] /\ drop[b] \in Mapping /\ drop[b] # m
      BY <2>1, <2>2, Zenon
    <3> QED
      BY <1>1, <1>7, <2>2, <3>1, Zenon DEF XorbMapInv, Drops
  <2>3. \A b \in Actor : drop'[b] # None <=> pc'[b] \in {"evict", "unmap"}
    BY <1>5, <1>6, ZenonT(30) DEF XorbMapInv, Drops
  <2>4. \A b, c \in Actor : drop'[b] = drop'[c] /\ drop'[b] # None => b = c
    BY <2>1, ZenonT(30) DEF XorbMapInv, Drops
  <2> QED
    BY <2>2, <2>3, <2>4, Zenon DEF Drops
<1>16. Mapped'
  <2>1. \A n \in Mapping : hashOf'[n] = None => refs'[n] = 0
    BY <1>1, <1>2, <1>7, Zenon DEF XorbMapInv, Mapped
  <2>2. ASSUME NEW h \in Hash, entry[h] # None
        PROVE  hashOf'[entry[h]] = h
    <3>1. entry[h] \in Mapping /\ refs[entry[h]] > 0
      BY <2>2, EntryHeld, Zenon
    <3>2. entry[h] # m
      BY <1>2, <3>1
    <3> QED
      BY <1>7, <2>2, <3>1, <3>2, Zenon DEF XorbMapInv, Mapped
  <2>3. ASSUME NEW q \in Reader, NEW n \in Mapping, Holds(q, n)' > 0
        PROVE  hashOf'[n] = want[q]
    <3>1. refs[n] > 0 /\ hashOf[n] = want[q]
      BY <1>8, <2>3, OwnerHolds, Zenon
    <3>2. n # m
      BY <1>2, <3>1
    <3> QED
      BY <1>7, <3>1, <3>2, Zenon
  <2> QED
    BY <1>1, <2>1, <2>2, <2>3, Zenon DEF Mapped
<1>17. Misses'
  BY <1>1, <1>5, <1>6, <1>12, Zenon DEF XorbMapInv, Misses
<1>18. RefsExact'
  <2>1. ASSUME NEW n \in Mapping
        PROVE  refs'[n] = CacheHolds(n)' + OwnedHolds(n)'
    <3>1. CacheHolds(n)' = CacheHolds(n)
      BY <1>1, Zenon DEF CacheHolds
    <3>2. /\ {q \in Reader : Holds(q, n)' = 1} = {q \in Reader : Holds(q, n) = 1}
          /\ {q \in Reader : Holds(q, n)' = 2} = {q \in Reader : Holds(q, n) = 2}
      BY <1>8, Zenon
    <3>3. OwnedHolds(n)' = OwnedHolds(n)
      BY <3>2, Zenon DEF OwnedHolds
    <3> QED
      BY <1>1, <3>1, <3>3, Zenon DEF XorbMapInv, RefsExact
  <2>2. ASSUME NEW n \in Mapping, hashOf'[n] # None
        PROVE  refs'[n] > 0 \/ \E b \in Actor : drop'[b] = n
    <3>1. n # m /\ hashOf[n] # None
      BY <1>7, <2>2, Zenon
    <3>2. refs[n] > 0 \/ \E b \in Actor : drop[b] = n
      BY <3>1, Zenon DEF XorbMapInv, RefsExact
    <3>3. \A b \in Actor : drop[b] = n => drop'[b] = n
      BY <1>6, <3>1, Zenon
    <3> QED
      BY <1>1, <3>2, <3>3, Zenon
  <2> QED
    BY <2>1, <2>2, Zenon DEF RefsExact
<1>19. LRUBounded'
  BY <1>1, QuietList, Zenon DEF XorbMapInv
<1> QED
  BY <1>9, <1>10, <1>11, <1>13, <1>14, <1>15, <1>16, <1>17, <1>18, <1>19, Zenon DEF XorbMapInv

-----------------------------------------------------------------------------
\* The entries of n, with entries e of the mappings k.
OneEntry(e, k, n) == Cardinality({h \in Hash : e[h] = n}) = IF k[n] \in Hash /\ e[k[n]] = n THEN 1 ELSE 0

\* A mapping has an entry under its own hash or none.
LEMMA CachedIs ==
    ASSUME Counting, NEW e, NEW k, NEW n \in Mapping, \A h \in Hash : e[h] # None => k[e[h]] = h
    PROVE  OneEntry(e, k, n)
<1>1. CASE k[n] \in Hash /\ e[k[n]] = n
  <2>1. {h \in Hash : e[h] = n} = {k[n]}
    BY <1>1, Apart, Zenon
  <2>2. CountedTo({}, {k[n]}, k[n])
    <3>1. {} \in SUBSET Hash /\ {k[n]} \in SUBSET Hash /\ {} \ {k[n]} = {k[n]} \ {k[n]}
      BY <1>1, Zenon
    <3> QED
      BY <3>1, XorbMapAssumption, CountMoves, Zenon
  <2>3. Cardinality({k[n]}) = 1
    BY <2>2 DEF CountedTo, Counting
  <2> QED
    BY <1>1, <2>1, <2>3, Zenon DEF OneEntry
<1>2. CASE ~(k[n] \in Hash /\ e[k[n]] = n)
  <2>1. {h \in Hash : e[h] = n} = {}
    BY <1>2, Apart, Zenon
  <2> QED
    BY <1>2, <2>1, Zenon DEF Counting, OneEntry
<1> QED
  BY <1>1, <1>2, Zenon

\* So it is before and after a step that maps nothing.
LEMMA CachedAre ==
    ASSUME Counting, \A h \in Hash : entry[h] # None => hashOf[entry[h]] = h,
           \A h \in Hash : entry'[h] # None => hashOf[entry'[h]] = h, NEW n \in Mapping
    PROVE  /\ CacheHolds(n) = IF hashOf[n] \in Hash /\ entry[hashOf[n]] = n THEN 1 ELSE 0
           /\ CacheHolds(n)' = IF hashOf[n] \in Hash /\ entry'[hashOf[n]] = n THEN 1 ELSE 0
<1>1. OneEntry(entry, hashOf, n) /\ OneEntry(entry', hashOf, n)
  BY CachedIs, Zenon
<1> QED
  BY <1>1, Zenon DEF CacheHolds, OneEntry

\* lru.Add, whatever it evicts: the fill's second hold is the cache's, and
\* each hold of an entry that goes is dropped.
LEMMA AddMoves ==
    ASSUME Counting, XorbMapInv, NEW r \in Reader, pc[r] = "add", NEW s \in {"return", "evict"},
           pc' = [pc EXCEPT ![r] = s], entry' \in [Hash -> Mapping \cup {None}], entry'[want[r]] = seen[r],
           \A g \in Hash : g # want[r] => entry'[g] \in {entry[g], None},
           UNCHANGED <<backend, objects, hashOf, flight, copies, live, want, seen>>,
           \A n \in Mapping : refs'[n] = refs[n] - (IF \E g \in Hash : g # want[r] /\ entry[g] = n /\ entry'[g] = None
                                                    THEN 1 ELSE 0),
           refs' \in [Mapping -> Nat], drop' \in [Actor -> Mapping \cup {None}], Drops',
           \A n \in Mapping : hashOf[n] = None => refs'[n] = 0,
           \A n \in Mapping : hashOf[n] # None => refs'[n] > 0 \/ \E b \in Actor : drop'[b] = n,
           LRUBounded', lru' \in Seq(Hash)
    PROVE  XorbMapInv'
<1> DEFINE h == want[r]
           m == seen[r]
<1>1. /\ pc[r] \in Filling /\ s \in Filling /\ s \in ReaderStage /\ pc[r] \in Pointing
      /\ s \in Pointing \cup {"return"}
      /\ s \notin {"idle", "open", "rename", "map", "add", "fillAcquire"}
  BY DEF Filling, Pointing, ReaderStage
<1>2. h \in Hash /\ entry[h] = None /\ m \in Mapping /\ m # None
  <2>1. h \in Hash /\ entry[h] = None
    BY Apart DEF XorbMapInv, Wants, Misses
  <2>2. m # None
    BY <1>1, Zenon DEF XorbMapInv, Sees
  <2> QED
    BY <2>1, <2>2, OtherTypes, Zenon
<1>3. Types' /\ pc'[r] = s /\ \A a \in Actor : a # r => pc'[a] = pc[a]
  <2>1. hashOf' \in [Mapping -> Hash \cup {None}] /\ seen' \in [Reader -> Mapping \cup {None}]
    BY OtherTypes, Zenon
  <2> QED
    BY <1>1, <2>1, CounterTypes, Zenon
<1>4. \A q \in Reader : q # r => pc'[q] = pc[q]
  BY <1>3, Apart, Zenon
<1>5. Flights'
  BY <1>1, QuietFlights, Zenon
<1>6. Wants'
  <2>1. "add" # "idle"
    OBVIOUS
  <2> QED
    BY <1>3, <2>1, Zenon DEF XorbMapInv, Wants
<1>7. Sees'
  <2> SUFFICES ASSUME NEW q \in Reader
               PROVE  /\ pc'[q] \in Pointing => seen[q] # None
                      /\ pc'[q] \notin Pointing \cup {"return"} => seen[q] = None
                      /\ seen[q] # None => hashOf[seen[q]] \in {None, want[q]}
    BY Zenon DEF Sees
  <2>1. CASE q = r
    BY <1>1, <1>2, <1>3, <2>1 DEF XorbMapInv, Sees
  <2>2. CASE q # r
    BY <1>4, <2>2, Zenon DEF XorbMapInv, Sees
  <2> QED
    BY <2>1, <2>2, Zenon
<1>8. \A q \in Reader : \A n \in Mapping : q # r => Holds(q, n)' = Holds(q, n)
  BY <1>4, Zenon DEF Holds
<1>9. \A n \in Mapping : Holds(r, n) = (IF n = m THEN 2 ELSE 0) /\ Holds(r, n)' = (IF n = m THEN 1 ELSE 0)
  BY SMTT(20), <1>3 DEF Holds
<1>10. hashOf[m] = h
  BY <1>2, <1>9, OwnerHolds
<1>11. \A g \in Hash : entry'[g] # None => hashOf[entry'[g]] = g
  <2> SUFFICES ASSUME NEW g \in Hash, entry'[g] # None
               PROVE  hashOf[entry'[g]] = g
    BY Zenon
  <2>1. CASE g = h
    BY <1>10, <2>1, Zenon
  <2>2. CASE g # h
    BY <2>2, Zenon DEF XorbMapInv, Mapped
  <2> QED
    BY <2>1, <2>2, Zenon
<1>12. Mapped'
  <2>1. ASSUME NEW q \in Reader, NEW n \in Mapping, Holds(q, n)' > 0
        PROVE  hashOf[n] = want[q]
    <3>1. CASE q = r
      <4>1. n = m
        BY <1>9, <2>1, <3>1
      <4> QED
        BY <1>10, <3>1, <4>1, Zenon
    <3>2. CASE q # r
      BY <1>8, <2>1, <3>2, Zenon DEF XorbMapInv, Mapped
    <3> QED
      BY <3>1, <3>2, Zenon
  <2> QED
    BY <1>11, <2>1, Zenon DEF Mapped
<1>13. Misses'
  <2> SUFFICES ASSUME NEW q \in Reader
               PROVE  /\ pc'[q] \in {"open", "rename", "map", "add"} => entry'[want[q]] = None
                      /\ pc'[q] = "fillAcquire" => entry'[want[q]] \in {None, seen[q]}
    BY Zenon DEF Misses
  <2>1. CASE q = r
    BY <1>1, <1>3, <2>1, Zenon
  <2>2. CASE q # r /\ pc[q] \in {"open", "rename", "map", "add", "fillAcquire"}
    <3>1. pc[q] \in Filling /\ want[q] \in Hash
      BY <2>2, Apart DEF Filling, XorbMapInv, Wants
    <3>2. want[q] # h
      <4>1. flight[h] = r /\ flight[want[q]] = q
        BY <1>1, <1>2, <3>1, Zenon DEF XorbMapInv, Flights
      <4> QED
        BY <2>2, <4>1, Zenon
    <3>3. entry'[want[q]] \in {entry[want[q]], None}
      BY <3>1, <3>2, Zenon
    <3> QED
      BY <1>4, <2>2, <3>3, Zenon DEF XorbMapInv, Misses
  <2>3. CASE q # r /\ pc[q] \notin {"open", "rename", "map", "add", "fillAcquire"}
    BY <1>4, <2>3, Zenon
  <2> QED
    BY <2>1, <2>2, <2>3, Zenon
<1>14. RefsExact'
  <2>1. \A f \in Hash : entry[f] # None => hashOf[entry[f]] = f
    BY Zenon DEF XorbMapInv, Mapped
  <2>2. ASSUME NEW n \in Mapping
        PROVE  refs'[n] = CacheHolds(n)' + OwnedHolds(n)'
    <3> DEFINE g == hashOf[n]
               c == CacheHolds(n)
               d == CacheHolds(n)'
               gone == \E f \in Hash : f # h /\ entry[f] = n /\ entry'[f] = None
    <3>1. /\ c = (IF g \in Hash /\ entry[g] = n THEN 1 ELSE 0)
          /\ d = (IF g \in Hash /\ entry'[g] = n THEN 1 ELSE 0)
      BY <1>11, <2>1, CachedAre, Zenon
    <3>2. n # None
      BY Apart, Zenon
    <3>3. gone <=> (g \in Hash /\ g # h /\ entry[g] = n /\ entry'[g] = None)
      <4>1. \A f \in Hash : entry[f] = n => f = g
        BY <2>1, <3>2, Zenon
      <4> QED
        BY <4>1, Zenon
    <3>4. g \in Hash /\ g # h => entry'[g] \in {entry[g], None}
      OBVIOUS
    <3>5. refs'[n] = refs[n] - (IF gone THEN 1 ELSE 0)
      OBVIOUS
    <3>6. OwnedHolds(n) \in Nat /\ OwnedHolds(n)' = OwnedHolds(n) + Holds(r, n)' - Holds(r, n)
      BY <1>8, OwnedMoves, Zenon
    <3>7. refs[n] = c + OwnedHolds(n)
      BY Zenon DEF XorbMapInv, RefsExact
    <3> DEFINE o == OwnedHolds(n)
               p == OwnedHolds(n)'
    <3>8. entry'[h] = m /\ entry[h] = None
      BY <1>2, Zenon
    <3>9. CASE n = m
      <4>1. c = 0 /\ d = 1 /\ ~gone
        BY <1>2, <1>10, <3>1, <3>2, <3>3, <3>8, <3>9, Zenon
      <4>2. p = o - 1
        BY SMTT(20), <1>9, <3>6, <3>9
      <4> HIDE DEF c, d, gone, o, p
      <4>3. refs'[n] = d + p
        BY SMTT(20), <3>5, <3>6, <3>7, <4>1, <4>2 DEF o
      <4> QED
        BY <4>3, Zenon DEF d, p
    <3>10. CASE n # m
      <4>1. p = o
        BY <1>9, <3>6, <3>10
      <4>2. c = d + (IF gone THEN 1 ELSE 0) /\ d \in Nat
        <5>1. CASE g = h
          <6>1. c = 0 /\ d = 0 /\ ~gone
            BY <3>1, <3>2, <3>3, <3>8, <3>10, <5>1, Zenon
          <6> HIDE DEF c, d, gone
          <6> QED
            BY <6>1
        <5>2. CASE g # h /\ gone
          <6>1. c = 1 /\ d = 0
            BY <3>1, <3>2, <3>3, <5>2, Zenon
          <6> HIDE DEF c, d, gone
          <6> QED
            BY <5>2, <6>1
        <5>3. CASE g # h /\ ~gone
          <6>1. c = d /\ d \in {0, 1}
            BY SMTT(20), <3>1, <3>2, <3>3, <3>4, <5>3
          <6> HIDE DEF c, d, gone
          <6> QED
            BY SMTT(20), <5>3, <6>1
        <5> QED
          BY <5>1, <5>2, <5>3, Zenon
      <4> HIDE DEF c, d, gone, o, p
      <4>3. refs'[n] = d + p
        BY <3>5, <3>6, <3>7, <4>1, <4>2 DEF o
      <4> QED
        BY <4>3, Zenon DEF d, p
    <3> QED
      BY <3>9, <3>10, Zenon
  <2> QED
    BY <2>2, Zenon DEF RefsExact
<1>15. CopiesCounted'
  <2>1. s = "map" <=> pc[r] = "map"
    BY <1>1
  <2> QED
    BY <2>1, MoverCopies, Zenon
<1> QED
  BY <1>3, <1>5, <1>6, <1>7, <1>12, <1>13, <1>14, <1>15, Zenon DEF XorbMapInv

\* A fill adds its mapping to the cache and evicts the oldest over the bound.
LEMMA AddKeeps ==
    ASSUME Counting, XorbMapInv, NEW r \in Reader, Add(r), UNCHANGED backend
    PROVE  XorbMapInv'
<1> DEFINE h == want[r]
           m == seen[r]
           all == <<h>> \o lru
           added == [entry EXCEPT ![h] = m]
<1>1. pc[r] = "add" /\ UNCHANGED <<objects, hashOf, flight, copies, live, want, seen>>
  BY Zenon DEF Add, fileVars
<1>2. h \in Hash /\ entry[h] = None /\ m \in Mapping
  <2>1. h \in Hash /\ entry[h] = None
    BY <1>1, Apart DEF XorbMapInv, Wants, Misses
  <2>2. pc[r] \in Pointing
    BY <1>1 DEF Pointing
  <2> QED
    BY <2>1, <2>2, OtherTypes, Zenon DEF XorbMapInv, Sees
<1>3. Unlisted(h) = lru
  <2>1. h \notin Cached
    BY <1>2, Zenon DEF Cached
  <2> QED
    BY <1>2, <2>1, ListIs, UnlistedIs, Zenon
<1>4. Listed(all, Cached \cup {h}) /\ Len(all) = Len(lru) + 1 /\ Len(all) > 0
  <2>1. h \notin Cached
    BY <1>2, Zenon DEF Cached
  <2>2. Listed(all, Cached \cup {h}) /\ Len(all) = Len(lru) + 1
    BY <1>2, <2>1, ListIs, ListedFirst, Zenon
  <2>3. Len(lru) \in Nat
    BY ListIs, Zenon
  <2> QED
    BY <2>2, <2>3
<1>5. all[1] = h /\ all \in Seq(Hash)
  <2>1. lru \in Seq(Hash)
    BY OtherTypes, Zenon
  <2> QED
    BY <1>2, <2>1
<1>6. added \in [Hash -> Mapping \cup {None}] /\ added[h] = m /\ \A g \in Hash : g # h => added[g] = entry[g]
  BY <1>2, OtherTypes, Zenon
<1>7. m # None
  BY <1>2, Apart, Zenon
<1>8. ASSUME MaxEntries > 0 => Len(all) <= MaxEntries, lru' = all, entry' = added,
             pc' = [pc EXCEPT ![r] = "return"], refs' = refs, drop' = drop
      PROVE  XorbMapInv'
  <2>1. Cached' = Cached \cup {h}
    BY <1>2, <1>6, <1>7, <1>8, Zenon DEF Cached
  <2>2. LRUBounded' /\ lru' \in Seq(Hash)
    BY <1>4, <1>8, <2>1, ListTo, Zenon
  <2>3. Drops'
    <3>1. \A a \in Actor : pc'[a] \in {"evict", "unmap"} <=> pc[a] \in {"evict", "unmap"}
      BY <1>1, <1>8, OtherTypes
    <3> QED
      BY <1>1, <1>8, <3>1, Zenon DEF XorbMapInv, Drops
  <2>4. \A g \in Hash : g # h => entry'[g] = entry[g]
    BY <1>6, <1>8, Zenon
  <2>5. ASSUME NEW n \in Mapping
        PROVE  refs'[n] = refs[n] - (IF \E g \in Hash : g # h /\ entry[g] = n /\ entry'[g] = None THEN 1 ELSE 0)
    <3>1. ~\E g \in Hash : g # h /\ entry[g] = n /\ entry'[g] = None
      BY <2>4, Apart, Zenon
    <3>2. refs[n] \in Nat
      BY OtherTypes, Zenon
    <3> QED
      BY <1>8, <3>1, <3>2
  <2>6. entry' \in [Hash -> Mapping \cup {None}] /\ entry'[h] = m /\ \A g \in Hash : g # h => entry'[g] \in {entry[g], None}
    BY <1>6, <1>8, <2>4, Zenon
  <2>7. refs' \in [Mapping -> Nat] /\ drop' \in [Actor -> Mapping \cup {None}]
    BY <1>8, OtherTypes, Zenon
  <2>8. /\ \A n \in Mapping : hashOf[n] = None => refs'[n] = 0
        /\ \A n \in Mapping : hashOf[n] # None => refs'[n] > 0 \/ \E b \in Actor : drop'[b] = n
    BY <1>8, Zenon DEF XorbMapInv, Mapped, RefsExact
  <2> HIDE DEF all, added
  <2> QED
    BY <1>1, <1>8, <2>2, <2>3, <2>5, <2>6, <2>7, <2>8, AddMoves, Zenon
<1>9. ASSUME MaxEntries > 0, Len(all) > MaxEntries, lru' = Removed(all, Len(all)), entry' = [added EXCEPT ![all[Len(all)]] = None],
             Release(r, added[all[Len(all)]], "evict", "return")
      PROVE  XorbMapInv'
  <2> DEFINE k == all[Len(all)]
             n == added[k]
             s == IF refs[n] = 1 THEN "evict" ELSE "return"
  <2>1. /\ Listed(Removed(all, Len(all)), (Cached \cup {h}) \ {k})
        /\ Len(Removed(all, Len(all))) = Len(all) - 1 /\ k \in Hash /\ k \in Cached \cup {h}
    <3> DEFINE X == Cached \cup {h}
    <3>1. Listed(all, X) /\ Len(all) > 0
      BY <1>4, Zenon
    <3> HIDE DEF X, all
    <3>2. /\ Listed(Removed(all, Len(all)), X \ {all[Len(all)]})
          /\ Len(Removed(all, Len(all))) = Len(all) - 1 /\ all[Len(all)] \in X \cap Hash
      BY <3>1, ListedFront, Zenon
    <3> QED
      BY <3>2, Zenon DEF X
  <2>2. k # h
    <3>1. Distinct(all)
      BY <1>4, Zenon DEF Listed
    <3>2. Len(all) \in Nat /\ Len(all) > 1
      <4>1. Len(all) \in Nat /\ MaxEntries \in Int
        BY <1>5, XorbMapAssumption
      <4> HIDE DEF all
      <4> QED
        BY <1>9, <4>1
    <3> HIDE DEF all
    <3>3. all[Len(all)] # all[1]
      BY <1>5, <3>1, <3>2 DEF Distinct
    <3> QED
      BY <1>5, <3>3, Zenon
  <2>3. k \in Cached /\ n = entry[k] /\ entry[k] # None
    BY <1>6, <2>1, <2>2, Zenon DEF Cached
  <2>4. n \in Mapping /\ refs[n] > 0 /\ n # None
    BY <2>1, <2>3, EntryHeld, Zenon
  <2>5. /\ entry' \in [Hash -> Mapping \cup {None}] /\ entry'[h] = m /\ entry'[k] = None
        /\ \A g \in Hash : g # h /\ g # k => entry'[g] = entry[g]
    BY <1>2, <1>6, <1>9, <2>1, <2>2, Zenon
  <2>6. LRUBounded' /\ lru' \in Seq(Hash)
    <3>1. Cached' = (Cached \cup {h}) \ {k}
      BY <1>2, <1>7, <2>1, <2>2, <2>3, <2>5, Zenon DEF Cached
    <3>2. Len(lru') <= MaxEntries
      <4>1. Len(lru) \in Nat /\ Len(lru) <= MaxEntries
        BY <1>9, ListIs, Zenon
      <4>2. Len(lru') = Len(lru)
        BY <1>4, <1>9, <2>1, <4>1
      <4> QED
        BY <4>1, <4>2, Zenon
    <3> QED
      BY <1>9, <2>1, <3>1, <3>2, ListTo, Zenon
  <2>7. pc' = [pc EXCEPT ![r] = s] /\ s \in {"return", "evict"}
    BY <1>9, Zenon DEF Release, Goto
  <2>8. /\ r \in Actor /\ pc[r] \notin {"evict", "unmap"} /\ "evict" \in {"evict", "unmap"}
        /\ "return" \notin {"evict", "unmap"}
    BY <1>1, Apart
  <2> HIDE DEF k, n, all, added, s
  <2>9. Release(r, n, "evict", "return")
    BY <1>9, Zenon DEF n, k
  <2>10. /\ Drops'
         /\ refs' \in [Mapping -> Nat] /\ drop' \in [Actor -> Mapping \cup {None}]
         /\ refs'[n] = refs[n] - 1 /\ \A i \in Mapping : i # n => refs'[i] = refs[i]
         /\ \A i \in Mapping : hashOf[i] = None => refs'[i] = 0
         /\ \A i \in Mapping : hashOf[i] # None => refs'[i] > 0 \/ \E b \in Actor : drop'[b] = i
    BY <1>1, <2>4, <2>8, <2>9, ReleaseDrops, Zenon
  <2>11. ASSUME NEW i \in Mapping
         PROVE  refs'[i] = refs[i] - (IF \E g \in Hash : g # h /\ entry[g] = i /\ entry'[g] = None THEN 1 ELSE 0)
    <3>1. refs[i] \in Nat
      BY OtherTypes, Zenon
    <3>2. (\E g \in Hash : g # h /\ entry[g] = i /\ entry'[g] = None) <=> i = n
      <4>1. ASSUME NEW g \in Hash, g # h, entry[g] = i, entry'[g] = None
            PROVE  i = n
        BY <2>3, <2>5, <4>1, Apart, Zenon
      <4>2. i = n => k \in Hash /\ k # h /\ entry[k] = i /\ entry'[k] = None
        BY <2>1, <2>2, <2>3, <2>5, Zenon
      <4> QED
        BY <4>1, <4>2, Zenon
    <3> QED
      BY <2>10, <3>1, <3>2
  <2>12. \A g \in Hash : g # h => entry'[g] \in {entry[g], None}
    BY <2>5, Zenon
  <2> QED
    BY <1>1, <2>5, <2>6, <2>7, <2>10, <2>11, <2>12, AddMoves, Zenon
<1>10. IF MaxEntries > 0 /\ Len(all) > MaxEntries
       THEN /\ lru' = Removed(all, Len(all)) /\ entry' = [added EXCEPT ![all[Len(all)]] = None]
            /\ Release(r, added[all[Len(all)]], "evict", "return")
       ELSE lru' = all /\ entry' = added /\ pc' = [pc EXCEPT ![r] = "return"] /\ refs' = refs /\ drop' = drop
  BY <1>3, Zenon DEF Add, Goto
<1>11. Len(all) \in Nat /\ MaxEntries \in Int
  BY <1>5, XorbMapAssumption
<1> HIDE DEF all, added
<1>12. (MaxEntries > 0 /\ Len(all) > MaxEntries) \/ (MaxEntries > 0 => Len(all) <= MaxEntries)
  BY <1>11
<1>13. (MaxEntries > 0 => Len(all) <= MaxEntries) => ~(MaxEntries > 0 /\ Len(all) > MaxEntries)
  BY <1>11
<1> QED
  BY <1>8, <1>9, <1>10, <1>12, <1>13, Zenon

\* xorbCache.Remove.
LEMMA RemoveCachedKeeps ==
    ASSUME Counting, XorbMapInv, RemoveCached, UNCHANGED backend
    PROVE  XorbMapInv'
<1> DEFINE h == want[Deleter]
           next == IF backend.remote THEN "idle" ELSE "object"
           m == entry[h]
<1>1. /\ pc[Deleter] = "remove"
      /\ UNCHANGED <<objects, hashOf, flight, copies, live, want, seen>>
  BY Zenon DEF RemoveCached, fileVars
<1>2. /\ next \in DeleterStage /\ next \notin {"evict", "unmap"} /\ "evict" \in DeleterStage
      /\ pc[Deleter] \notin {"evict", "unmap", "idle"} /\ "evict" \in {"evict", "unmap"}
  BY <1>1 DEF DeleterStage
<1>3. h \in Hash /\ Deleter \in Actor
  BY <1>2, Apart, Zenon DEF XorbMapInv, Wants
<1>4. ASSUME pc' = [pc EXCEPT ![Deleter] = next], UNCHANGED <<lru, entry, refs, drop>>
      PROVE  XorbMapInv'
  <2> HIDE DEF next
  <2>1. /\ \A r \in Reader : pc'[r] = pc[r] /\ want'[r] = want[r]
        /\ pc' \in [Actor -> ReaderStage \cup DeleterStage] /\ want' \in [Actor -> Hash \cup {None}]
        /\ pc'[Deleter] = next /\ want'[Deleter] = h
    BY <1>1, <1>2, <1>4, OtherTypes, Apart, Zenon
  <2>2. objects' \subseteq Hash /\ lru' \in Seq(Hash) /\ LRUBounded'
    BY <1>1, <1>4, QuietList, Zenon DEF XorbMapInv, Types, MapTypeOK
  <2>3. next # "evict" /\ pc[Deleter] # "evict"
    BY <1>2, Zenon
  <2> QED
    BY <1>1, <1>2, <1>3, <1>4, <2>1, <2>2, <2>3, OthersKeep, Zenon
<1>5. ASSUME m # None, lru' = Unlisted(h), entry' = [entry EXCEPT ![h] = None], Release(Deleter, m, "evict", next)
      PROVE  XorbMapInv'
  <2> DEFINE s == IF refs[m] = 1 THEN "evict" ELSE next
  <2>1. m \in Mapping /\ refs[m] > 0
    BY <1>3, <1>5, EntryHeld, Zenon
  <2>2. entry'[h] = None /\ entry' \in [Hash -> Mapping \cup {None}] /\ \A g \in Hash : g # h => entry'[g] = entry[g]
    BY <1>3, <1>5, OtherTypes, Zenon
  <2>3. pc' = [pc EXCEPT ![Deleter] = s] /\ s \in DeleterStage
    BY <1>2, <1>5, Zenon DEF Release, Goto
  <2> HIDE DEF m, next, s
  <2>4. /\ Drops'
        /\ refs' \in [Mapping -> Nat] /\ drop' \in [Actor -> Mapping \cup {None}]
        /\ refs'[m] = refs[m] - 1 /\ \A n \in Mapping : n # m => refs'[n] = refs[n]
        /\ \A n \in Mapping : hashOf[n] = None => refs'[n] = 0
        /\ \A n \in Mapping : hashOf[n] # None => refs'[n] > 0 \/ \E b \in Actor : drop'[b] = n
    BY <1>1, <1>2, <1>3, <1>5, <2>1, ReleaseDrops, Zenon
  <2>5. /\ pc'[Deleter] = s /\ \A r \in Reader : pc'[r] = pc[r]
        /\ pc' \in [Actor -> ReaderStage \cup DeleterStage]
    BY <1>3, <2>3, OtherTypes, Apart, Zenon
  <2>6. LRUBounded' /\ lru' \in Seq(Hash)
    <3>1. h \in Cached /\ Cached' = Cached \ {h}
      BY <1>3, <1>5, <2>2, Zenon DEF Cached, m
    <3>2. Listed(Unlisted(h), Cached \ {h}) /\ Len(Unlisted(h)) = Len(lru) - 1
      BY <1>3, <3>1, ListIs, UnlistedIs, Zenon
    <3>3. Len(lru) \in Nat /\ (MaxEntries > 0 => Len(lru) <= MaxEntries) /\ MaxEntries \in Int
      BY ListIs, XorbMapAssumption, Zenon
    <3>4. MaxEntries > 0 => Len(lru') <= MaxEntries
      BY <1>5, <3>2, <3>3
    <3> QED
      BY <1>5, <3>1, <3>2, <3>4, ListTo, Zenon
  <2>7. Types'
    <3>1. \A r \in Reader : pc'[r] \in ReaderStage
      BY <2>5, Zenon DEF XorbMapInv, Types, MapTypeOK
    <3> QED
      BY <1>1, <2>2, <2>3, <2>4, <2>5, <2>6, <3>1, Zenon DEF XorbMapInv, Types, MapTypeOK
  <2>8. Wants'
    BY <1>1, <1>3, <2>5, Zenon DEF XorbMapInv, Wants, Actor
  <2>9. Flights' /\ Sees'
    BY <1>1, <2>5 DEF XorbMapInv, Flights, Sees
  <2>10. \A q \in Reader : \A n \in Mapping : Holds(q, n)' = Holds(q, n)
    BY <1>1, <2>5, Zenon DEF Holds
  <2>11. Mapped'
    <3>1. \A g \in Hash : entry'[g] # None => hashOf[entry'[g]] = g
      BY <2>2, Zenon DEF XorbMapInv, Mapped
    <3> QED
      BY <1>1, <2>4, <2>10, <3>1, Zenon DEF XorbMapInv, Mapped
  <2>12. Misses'
    <3>1. ASSUME NEW q \in Reader, pc[q] # "idle"
          PROVE  entry'[want[q]] \in {entry[want[q]], None}
      <4>1. want[q] \in Hash
        BY <3>1, Apart, Zenon DEF XorbMapInv, Wants
      <4> QED
        BY <2>2, <4>1, Zenon
    <3>2. "idle" \notin {"open", "rename", "map", "add", "fillAcquire"}
      OBVIOUS
    <3> QED
      BY <1>1, <2>5, <3>1, <3>2 DEF XorbMapInv, Misses
  <2>13. RefsExact'
    <3>1. ASSUME NEW n \in Mapping
          PROVE  refs'[n] = CacheHolds(n)' + OwnedHolds(n)'
      <4>1. /\ CacheHolds(n) \in Nat
            /\ CacheHolds(n)' = CacheHolds(n) + (IF entry'[h] = n THEN 1 ELSE 0) - (IF entry[h] = n THEN 1 ELSE 0)
        BY <1>3, <2>2, CachedMoves, Zenon
      <4>2. /\ {q \in Reader : Holds(q, n)' = 1} = {q \in Reader : Holds(q, n) = 1}
            /\ {q \in Reader : Holds(q, n)' = 2} = {q \in Reader : Holds(q, n) = 2}
        BY <2>10, Zenon
      <4>3. OwnedHolds(n)' = OwnedHolds(n)
        BY <4>2, Zenon DEF OwnedHolds
      <4>4. refs[n] = CacheHolds(n) + OwnedHolds(n) /\ refs[n] \in Nat
        BY OtherTypes, Zenon DEF XorbMapInv, RefsExact
      <4>5. CacheHolds(n)' = CacheHolds(n) - (IF n = m THEN 1 ELSE 0)
        <5>1. entry'[h] # n /\ (entry[h] = n <=> n = m)
          BY <2>2, Apart, Zenon DEF m
        <5> QED
          BY <4>1, <5>1
      <4>6. OwnedHolds(n) \in Int
        BY OwnedIs
      <4> QED
        BY <2>4, <4>1, <4>3, <4>4, <4>5, <4>6
    <3> QED
      BY <1>1, <2>4, <3>1, Zenon DEF RefsExact
  <2>14. CopiesCounted'
    BY <1>1, <2>5, QuietCopies, Zenon DEF XorbMapInv
  <2> QED
    BY <2>4, <2>6, <2>7, <2>8, <2>9, <2>11, <2>12, <2>13, <2>14, Zenon DEF XorbMapInv
<1> QED
  BY <1>4, <1>5, Zenon DEF RemoveCached, Goto, cacheVars
=============================================================================
