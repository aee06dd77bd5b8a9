--------------------------- MODULE XorbMapProofs ----------------------------
(***************************************************************************)
(* XorbMap keeps its inductive invariant: Counting holds, a mapping to use *)
(* is always found, and MappingsSound and CopiesCounted follow.            *)
(***************************************************************************)
EXTENDS XorbMapSteps, FiniteSetTheorems

\* Two sets that differ in one element, and their sizes.
LEMMA CountDiffers ==
    ASSUME NEW U, IsFiniteSet(U), NEW S \in SUBSET U, NEW T \in SUBSET U, NEW x, S \ {x} = T \ {x}
    PROVE  CountedTo(S, T, x)
<1>1. IsFiniteSet(S) /\ IsFiniteSet(T)
  BY FS_Subset, Zenon
<1>2. Cardinality(S) \in Nat /\ Cardinality(T) \in Nat /\ Cardinality(S \ {x}) \in Nat
  BY <1>1, FS_CardinalityType, FS_RemoveElement, Zenon
<1>3. Cardinality(S \ {x}) = IF x \in S THEN Cardinality(S) - 1 ELSE Cardinality(S)
  BY <1>1, FS_RemoveElement, Zenon
<1>4. Cardinality(T \ {x}) = IF x \in T THEN Cardinality(T) - 1 ELSE Cardinality(T)
  BY <1>1, FS_RemoveElement, Zenon
<1> DEFINE n == Cardinality(S \ {x})
           s == Cardinality(S)
           t == Cardinality(T)
<1>5. n = Cardinality(T \ {x})
  BY Zenon
<1>6. n \in Nat /\ s \in Nat /\ t \in Nat
  BY <1>2, Zenon
<1>7. (x \in S => n = s - 1) /\ (x \notin S => n = s) /\ (x \in T => n = t - 1) /\ (x \notin T => n = t)
  BY <1>3, <1>4, <1>5, Zenon
<1> HIDE DEF n, s, t
<1>8. t = s + (IF x \in T THEN 1 ELSE 0) - (IF x \in S THEN 1 ELSE 0) /\ (x \in S => s > 0)
  BY <1>6, <1>7
<1> QED
  BY <1>6, <1>8, Zenon DEF s, t, CountedTo

\* So the counting arguments hold.
LEMMA CountingHolds == Counting
<1>1. Cardinality({}) = 0
  BY FS_EmptySet, Zenon
<1>2. ASSUME NEW U, IsFiniteSet(U), NEW S \in SUBSET U, NEW T \in SUBSET U, NEW x, S \ {x} = T \ {x}
      PROVE  CountedTo(S, T, x)
  BY <1>2, CountDiffers, Zenon
<1> QED
  BY <1>1, <1>2, Zenon DEF Counting

-----------------------------------------------------------------------------
\* The image of a finite set is no larger than the set.
LEMMA ImageBound ==
    ASSUME NEW S, IsFiniteSet(S), NEW f
    PROVE  IsFiniteSet({f[x] : x \in S}) /\ Cardinality({f[x] : x \in S}) <= Cardinality(S)
<1> DEFINE T == {f[x] : x \in S}
           g == [x \in S |-> f[x]]
<1>1. g \in Surjection(S, T)
  BY Zenon DEF Surjection
<1> HIDE DEF g, T
<1>2. IsFiniteSet(T) /\ Cardinality(T) <= Cardinality(S)
  BY <1>1, FS_Surjection, Zenon
<1> QED
  BY <1>2, Zenon DEF T

\* A mapping that nobody holds, has seen or is dropping is none.
LEMMA UnownedIsFree ==
    ASSUME RefsExact, NEW m \in Mapping, \A h \in Hash : entry[h] # m,
           \A r \in Reader : seen[r] # m, \A a \in Actor : drop[a] # m
    PROVE  hashOf[m] = None
<1>1. CacheHolds(m) = 0
  <2>1. {h \in Hash : entry[h] = m} = {}
    BY Zenon
  <2> QED
    BY <2>1, FS_EmptySet, Zenon DEF CacheHolds
<1>2. OwnedHolds(m) = 0
  <2>1. \A r \in Reader : Holds(r, m) = 0
    BY Zenon DEF Holds
  <2>2. {r \in Reader : Holds(r, m) = 1} = {} /\ {r \in Reader : Holds(r, m) = 2} = {}
    BY <2>1
  <2>3. OwnedHolds(m) = 0 + 2 * 0
    BY <2>2, FS_EmptySet, Zenon DEF OwnedHolds
  <2> QED
    BY <2>3
<1>3. refs[m] = 0 + 0 /\ (hashOf[m] # None => refs[m] > 0 \/ \E a \in Actor : drop[a] = m)
  BY <1>1, <1>2, Zenon DEF RefsExact
<1> QED
  BY <1>3

\* Map finds a mapping to use: the others do not use them all up.
LEMMA FreshMapping ==
    ASSUME RefsExact
    PROVE  \E n \in Mapping : hashOf[n] = None /\ \A q \in Reader : seen[q] # n
<1> DEFINE E == {entry[h] : h \in Hash}
           V == {seen[r] : r \in Reader}
           D == {drop[a] : a \in Actor}
<1>1. IsFiniteSet(Hash) /\ IsFiniteSet(Reader) /\ IsFiniteSet(Mapping) /\ Deleter \notin Reader
  BY XorbMapAssumption, Zenon
<1>2. IsFiniteSet(Actor) /\ Cardinality(Actor) = Cardinality(Reader) + 1
  BY <1>1, FS_AddElement, Zenon DEF Actor
<1>3. /\ IsFiniteSet(E) /\ Cardinality(E) <= Cardinality(Hash)
      /\ IsFiniteSet(V) /\ Cardinality(V) <= Cardinality(Reader)
      /\ IsFiniteSet(D) /\ Cardinality(D) <= Cardinality(Actor)
  BY <1>1, <1>2, ImageBound, Zenon
<1>4. \A m : (m \in E <=> \E h \in Hash : entry[h] = m) /\ (m \in V <=> \E r \in Reader : seen[r] = m)
             /\ (m \in D <=> \E a \in Actor : drop[a] = m)
  BY Zenon
<1> HIDE DEF E, V, D
<1>5. /\ IsFiniteSet(E \cup V)
      /\ Cardinality(E \cup V) = Cardinality(E) + Cardinality(V) - Cardinality(E \cap V)
      /\ Cardinality(E \cap V) \in Nat
  BY <1>3, FS_Union, FS_Intersection, FS_CardinalityType, Zenon
<1>6. /\ IsFiniteSet((E \cup V) \cup D)
      /\ Cardinality((E \cup V) \cup D) = Cardinality(E \cup V) + Cardinality(D) - Cardinality((E \cup V) \cap D)
      /\ Cardinality((E \cup V) \cap D) \in Nat
  BY <1>3, <1>5, FS_Union, FS_Intersection, FS_CardinalityType, Zenon
<1>7. /\ Cardinality(E) \in Nat /\ Cardinality(V) \in Nat /\ Cardinality(D) \in Nat
      /\ Cardinality(Hash) \in Nat /\ Cardinality(Reader) \in Nat /\ Cardinality(Mapping) \in Nat
      /\ Cardinality((E \cup V) \cup D) \in Nat
  BY <1>1, <1>3, <1>6, FS_CardinalityType, Zenon
<1>8. Cardinality(Mapping) > Cardinality(Hash) + 2 * Cardinality(Reader) + 1
  BY XorbMapAssumption, Zenon
<1>9. ~(Cardinality(Mapping) <= Cardinality((E \cup V) \cup D))
  <2> DEFINE cE == Cardinality(E)
             cV == Cardinality(V)
             cD == Cardinality(D)
             cH == Cardinality(Hash)
             cR == Cardinality(Reader)
             cM == Cardinality(Mapping)
             cEV == Cardinality(E \cup V)
             cAll == Cardinality((E \cup V) \cup D)
             x == Cardinality(E \cap V)
             y == Cardinality((E \cup V) \cap D)
  <2>1. /\ cE \in Nat /\ cV \in Nat /\ cD \in Nat /\ cH \in Nat /\ cR \in Nat /\ cM \in Nat
        /\ cAll \in Nat /\ x \in Nat /\ y \in Nat
    BY <1>5, <1>6, <1>7, Zenon
  <2>2. /\ cEV = cE + cV - x /\ cAll = cEV + cD - y /\ cE <= cH /\ cV <= cR /\ cD <= cR + 1
        /\ cM > cH + 2 * cR + 1
    BY <1>2, <1>3, <1>5, <1>6, <1>8, Zenon
  <2> HIDE DEF cE, cV, cD, cH, cR, cM, cEV, cAll, x, y
  <2>3. ~(cM <= cAll)
    BY <2>1, <2>2
  <2> QED
    BY <2>3, Zenon DEF cM, cAll
<1>10. PICK n \in Mapping : n \notin (E \cup V) \cup D
  <2>1. ~(Mapping \in SUBSET ((E \cup V) \cup D))
    BY <1>6, <1>9, FS_Subset, Zenon
  <2> QED
    BY <2>1, Zenon
<1>11. (\A h \in Hash : entry[h] # n) /\ (\A r \in Reader : seen[r] # n) /\ (\A a \in Actor : drop[a] # n)
  BY <1>4, <1>10, Zenon
<1>12. hashOf[n] = None
  BY <1>11, UnownedIsFree, Zenon
<1> QED
  BY <1>11, <1>12, Zenon

\* A fill maps the file, or fails to.
LEMMA MapKeeps ==
    ASSUME XorbMapInv, NEW r \in Reader, Map(r), UNCHANGED backend
    PROVE  XorbMapInv'
<1> DEFINE m == CHOOSE n \in Mapping : hashOf[n] = None /\ \A q \in Reader : seen[q] # n
<1>1. m \in Mapping /\ hashOf[m] = None /\ \A q \in Reader : seen[q] # m
  BY FreshMapping, Zenon DEF XorbMapInv
<1>2. /\ pc[r] = "map" /\ UNCHANGED <<objects, lru, entry, flight, want, drop>>
      /\ \/ /\ hashOf' = [hashOf EXCEPT ![m] = want[r]] /\ refs' = [refs EXCEPT ![m] = 2]
            /\ seen' = [seen EXCEPT ![r] = m] /\ pc' = [pc EXCEPT ![r] = "add"]
            /\ UNCHANGED <<copies, live>>
         \/ /\ pc' = [pc EXCEPT ![r] = "return"] /\ ReleaseHook(want[r])
            /\ UNCHANGED <<hashOf, refs, seen>>
  BY Zenon DEF Map, Goto, cacheVars, fileVars
<1> HIDE DEF m
<1> QED
  BY <1>1, <1>2, CountingHolds, MapFails, MapSucceeds, Zenon

-----------------------------------------------------------------------------
\* The invariant holds at the start.
LEMMA InitInv == MapInit => XorbMapInv
<1> SUFFICES ASSUME MapInit
             PROVE  XorbMapInv
  OBVIOUS
<1>1. Types
  <2>1. backend \in [remote : BOOLEAN, mayFail : BOOLEAN]
    BY XorbMapAssumption, Zenon DEF MapInit
  <2>2. /\ pc \in [Actor -> ReaderStage \cup DeleterStage] /\ (\A r \in Reader : pc[r] \in ReaderStage)
        /\ pc[Deleter] \in DeleterStage
    BY Apart DEF MapInit, ReaderStage, DeleterStage
  <2>3. /\ objects \subseteq Hash /\ lru \in Seq(Hash) /\ entry \in [Hash -> Mapping \cup {None}]
        /\ refs \in [Mapping -> Nat] /\ hashOf \in [Mapping -> Hash \cup {None}]
        /\ flight \in [Hash -> Reader \cup {None}]
    BY DEF MapInit
  <2>4. /\ copies \subseteq Hash /\ live \in [Hash -> Nat]
        /\ want \in [Actor -> Hash \cup {None}]
        /\ seen \in [Reader -> Mapping \cup {None}]
        /\ drop \in [Actor -> Mapping \cup {None}]
    BY DEF MapInit
  <2> QED
    BY <2>1, <2>2, <2>3, <2>4, Zenon DEF Types, MapTypeOK
<1>2. Wants /\ Flights /\ Sees /\ Misses
  <2>1. \A a \in Actor : pc[a] = "idle"
    BY Zenon DEF MapInit
  <2>2. "idle" \notin Filling /\ "idle" \notin Pointing
    BY DEF Filling, Pointing
  <2>3. \A r \in Reader : pc[r] = "idle" /\ seen[r] = None
    BY <2>1, Apart, Zenon DEF MapInit
  <2>4. Flights
    BY <2>2, <2>3, Apart, Zenon DEF Flights, MapInit
  <2> QED
    BY <2>1, <2>2, <2>3, <2>4 DEF Wants, Sees, Misses
<1>3. Drops
  BY DEF MapInit, Drops
<1>4. \A r \in Reader : \A m \in Mapping : Holds(r, m) = 0
  BY Apart, Zenon DEF MapInit, Holds
<1>5. Mapped
  <2>1. \A r \in Reader : \A m \in Mapping : ~(Holds(r, m) > 0)
    BY <1>4
  <2> QED
    BY <2>1, Zenon DEF MapInit, Mapped
<1>6. RefsExact
  <2> SUFFICES ASSUME NEW m \in Mapping
               PROVE  refs[m] = CacheHolds(m) + OwnedHolds(m) /\ hashOf[m] = None
    BY Zenon DEF RefsExact
  <2>1. {h \in Hash : entry[h] = m} = {}
    BY Apart, Zenon DEF MapInit
  <2>2. {r \in Reader : Holds(r, m) = 1} = {} /\ {r \in Reader : Holds(r, m) = 2} = {}
    BY <1>4
  <2>3. CacheHolds(m) = 0 /\ OwnedHolds(m) = 0 + 2 * 0
    BY <2>1, <2>2, FS_EmptySet, Zenon DEF CacheHolds, OwnedHolds
  <2>4. refs[m] = 0 /\ hashOf[m] = None
    BY Zenon DEF MapInit
  <2> QED
    BY <2>3, <2>4
<1>7. LRUBounded
  <2>1. lru = <<>> /\ \A h \in Hash : entry[h] = None
    BY Zenon DEF MapInit
  <2>2. (\A h \in Hash : ~Lists(lru, h)) /\ Distinct(lru) /\ Len(lru) = 0
    BY <2>1 DEF Lists, Distinct
  <2>3. MaxEntries > 0 => Len(lru) <= MaxEntries
    BY <2>2, XorbMapAssumption
  <2> QED
    BY <2>1, <2>2, <2>3, Zenon DEF LRUBounded, Distinct
<1>8. CopiesCounted
  <2> SUFFICES ASSUME NEW h \in Hash
               PROVE  live[h] = MapsOf(h) + FillsOf(h) /\ h \notin copies /\ ~(live[h] > 0)
    BY Zenon DEF CopiesCounted
  <2>1. {m \in Mapping : hashOf[m] = h} = {}
    BY Apart, Zenon DEF MapInit
  <2>2. {r \in Reader : pc[r] = "map" /\ want[r] = h} = {}
    BY Apart DEF MapInit
  <2>3. MapsOf(h) = 0 /\ FillsOf(h) = 0
    BY <2>1, <2>2, FS_EmptySet, Zenon DEF MapsOf, FillsOf
  <2>4. live[h] = 0 /\ h \notin copies
    BY Zenon DEF MapInit
  <2> QED
    BY <2>3, <2>4
<1> QED
  BY <1>1, <1>2, <1>3, <1>5, <1>6, <1>7, <1>8, Zenon DEF XorbMapInv

\* Every step keeps it.
LEMMA NextKeeps == XorbMapInv /\ [MapNext]_mapVars => XorbMapInv'
<1> SUFFICES ASSUME XorbMapInv, [MapNext]_mapVars, Counting
             PROVE  XorbMapInv'
  BY CountingHolds, Zenon
<1>1. ASSUME NEW r \in Reader, ReaderStep(r), UNCHANGED backend
      PROVE  XorbMapInv'
  <2>1. CASE Hit(r)
    BY <1>1, <2>1, HitKeeps, Zenon
  <2>2. CASE Acquire(r)
    <3>1. refs[seen[r]] > 0 \/ refs[seen[r]] = 0
      BY <2>2, Zenon DEF Acquire
    <3> QED
      BY <1>1, <2>2, <3>1, AcquireSucceeds, AcquireFails, Zenon
  <2>3. CASE Do(r)
    BY <1>1, <2>3, DoKeeps, Zenon
  <2>4. CASE Open(r)
    BY <1>1, <2>4, OpenKeeps, Zenon
  <2>5. CASE Rename(r)
    BY <1>1, <2>5, RenameKeeps, Zenon
  <2>6. CASE Map(r)
    BY <1>1, <2>6, MapKeeps, Zenon
  <2>7. CASE Add(r)
    BY <1>1, <2>7, AddKeeps, Zenon
  <2>8. CASE Return(r)
    BY <1>1, <2>8, ReturnKeeps, Zenon
  <2> QED
    BY <1>1, <2>1, <2>2, <2>3, <2>4, <2>5, <2>6, <2>7, <2>8, Zenon DEF ReaderStep
<1>2. ASSUME NEW r \in Reader, Close(r), UNCHANGED backend
      PROVE  XorbMapInv'
  BY <1>2, CloseKeeps, Zenon
<1>3. ASSUME NEW r \in Reader, NEW h \in Hash, Begin(r, h), UNCHANGED backend
      PROVE  XorbMapInv'
  BY <1>3, BeginKeeps, Zenon
<1>4. ASSUME NEW a \in Actor, Unmap(a), UNCHANGED backend
      PROVE  XorbMapInv'
  BY <1>4, UnmapKeeps, Zenon
<1>5. ASSUME NEW h \in Hash, BeginDelete(h) \/ PutXorb(h) \/ HasXorb(h), UNCHANGED backend
      PROVE  XorbMapInv'
  BY <1>5, BeginDeleteKeeps, ServeKeeps, Zenon
<1>6. ASSUME RemoveCached \/ RemoveObject, UNCHANGED backend
      PROVE  XorbMapInv'
  BY <1>6, RemoveCachedKeeps, RemoveObjectKeeps, Zenon
<1>7. ASSUME UNCHANGED mapVars
      PROVE  XorbMapInv'
  <2>1. /\ UNCHANGED <<backend, objects, lru, entry, refs, hashOf, flight>>
        /\ UNCHANGED <<copies, live, pc, want, seen, drop>>
    BY <1>7, Zenon DEF mapVars, cacheVars, fileVars
  <2>2. Types' /\ Wants' /\ Sees' /\ Drops' /\ Misses'
    BY <2>1, Zenon DEF XorbMapInv, Types, MapTypeOK, Wants, Sees, Drops, Misses
  <2>3. Flights'
    BY <2>1 DEF XorbMapInv, Flights
  <2>4. \A q \in Reader : \A m \in Mapping : Holds(q, m)' = Holds(q, m)
    BY <2>1, Zenon DEF Holds
  <2>5. Mapped' /\ RefsExact' /\ CopiesCounted' /\ LRUBounded'
    BY <2>1, <2>4, QuietRefs, QuietCopies, QuietList, Zenon DEF XorbMapInv, Mapped
  <2> QED
    BY <2>2, <2>3, <2>5, Zenon DEF XorbMapInv
<1> QED
  BY <1>1, <1>2, <1>3, <1>4, <1>5, <1>6, <1>7, Zenon DEF MapNext

\* It implies the properties.
LEMMA InvIsSound == XorbMapInv => MappingsSound /\ CopiesCounted
<1> SUFFICES ASSUME XorbMapInv
             PROVE  MappingsSound /\ CopiesCounted
  OBVIOUS
<1>1. HeldMapped
  <2> SUFFICES ASSUME NEW r \in Reader, pc[r] = "held"
               PROVE  refs[seen[r]] > 0 /\ hashOf[seen[r]] = want[r]
    BY Zenon DEF HeldMapped
  <2>1. pc[r] \in Pointing
    BY DEF Pointing
  <2>2. seen[r] \in Mapping
    BY <2>1, OtherTypes, Zenon DEF XorbMapInv, Sees
  <2>3. Holds(r, seen[r]) > 0
    BY DEF Holds
  <2> QED
    BY <2>2, <2>3, CountingHolds, OwnerHolds, Zenon
<1>2. OneFill
  <2> SUFFICES ASSUME NEW q \in Reader, NEW r \in Reader, want[q] = want[r],
                      {pc[q], pc[r]} \subseteq {"fillHit", "fillAcquire", "open", "rename", "map", "add", "evict"}
               PROVE  q = r
    BY Zenon DEF OneFill
  <2>1. pc[q] \in Filling /\ pc[r] \in Filling /\ pc[r] # "idle"
    BY DEF Filling
  <2>2. want[r] \in Hash
    BY <2>1, Apart, Zenon DEF XorbMapInv, Wants
  <2>3. flight[want[r]] = q /\ flight[want[r]] = r
    BY <2>1, <2>2, Zenon DEF XorbMapInv, Flights
  <2> QED
    BY <2>3, Zenon
<1> QED
  BY <1>1, <1>2, Zenon DEF MappingsSound, XorbMapInv, Types

\* Whatever readers, fills, evictions, deletes and uploads do to each other,
\* every hold on a mapping is owned, no mapping is leaked or unmapped under a
\* reader, the LRU keeps its bound and each hash is filled once at a time.
THEOREM MapsAreSound == MapSpec => []MappingsSound
<1>1. MapSpec => []XorbMapInv
  BY InitInv, NextKeeps, PTL DEF MapSpec
<1>2. XorbMapInv => MappingsSound
  BY InvIsSound, Zenon
<1> QED
  BY <1>1, <1>2, PTL

\* xorbLive counts exactly the mappings of a hash and the fills about to make
\* one, so that removeXorbFile neither leaks a local copy nor removes one in use.
THEOREM CopiesAreCounted == MapSpec => []CopiesCounted
<1>1. MapSpec => []XorbMapInv
  BY InitInv, NextKeeps, PTL DEF MapSpec
<1>2. XorbMapInv => CopiesCounted
  BY InvIsSound, Zenon
<1> QED
  BY <1>1, <1>2, PTL
=============================================================================
