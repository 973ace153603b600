------------------------ MODULE DeliveryResolveProofs ------------------------
(* Proofs about DeliveryResolve, for every value of its constants. *)
EXTENDS DeliveryResolve, TLAPS, FiniteSetTheorems, SequenceTheorems

\* The cache the calls share, with what is proved about it.
CP == INSTANCE AssetUrlCacheProofs WITH
          IdLists <- Seq(Assets),
          Batches <- Seq(Results)

-----------------------------------------------------------------------------
(* The definitions that the two instances of the cache, and of the modules   *)
(* it extends, share: each is the other, unfolded.                           *)

LEMMA SameFinite ==
    ASSUME NEW S
    PROVE  CP!IsFiniteSet(S) <=> IsFiniteSet(S)
BY Zenon DEF CP!IsFiniteSet, IsFiniteSet

LEMMA SameCardinality ==
    ASSUME NEW S
    PROVE  CP!Cardinality(S) = Cardinality(S)
BY Zenon DEF CP!Cardinality, Cardinality

\* The cache's assumptions on its constants hold for the one the calls share.
LEMMA CacheConstantsHold ==
    /\ NoTenant \notin TenantIds
    /\ TicksPerSecond \in Nat \ {0}
    /\ SafetyMargin \in Nat
    /\ DefaultTtl \in Nat
    /\ MaxEntries = Unbounded \/ MaxEntries \in Nat \ {0}
    /\ MinSweepSize \in Nat \ {0}
    /\ Seq(Assets) \subseteq Seq(Assets)
    /\ Seq(Results) \subseteq Seq(Results)
    /\ MaxTime \in Nat
    /\ \A r \in Results :
           /\ r.asset \in Assets
           /\ r.status \in CP!Statuses
           /\ r.ready \in BOOLEAN
           /\ r.expiries \subseteq Nat \ {0}
           /\ CP!IsFiniteSet(r.expiries)
<1>1. IsFiniteSet({}) /\ IsFiniteSet({Lifetime})
  BY FS_EmptySet, FS_Singleton
<1> QED  BY <1>1, SameFinite, ResolveConstants DEF Results, CP!Statuses

LEMMA SameInit == Cache!Init <=> CP!Init
BY Zenon DEF Cache!Init, CP!Init

LEMMA SameTick == Cache!Tick <=> CP!Tick
BY Zenon DEF Cache!Tick, CP!Tick, Cache!cacheVars, CP!cacheVars

LEMMA SameInvalidate ==
    ASSUME NEW a, NEW t
    PROVE  Cache!Invalidate(a, t) <=> CP!Invalidate(a, t)
BY Zenon DEF Cache!Invalidate, CP!Invalidate, Cache!Drop, CP!Drop,
   Cache!Restrict, CP!Restrict, Cache!Reindexed, CP!Reindexed, Cache!Tenants, CP!Tenants

LEMMA SameGetMany ==
    ASSUME NEW t, NEW ids
    PROVE  /\ Cache!GetMany(t, ids) <=> CP!GetMany(t, ids)
           /\ Cache!Hits(t, ids) = CP!Hits(t, ids)
BY Zenon DEF Cache!GetMany, CP!GetMany, Cache!Restrict, CP!Restrict,
   Cache!Reindexed, CP!Reindexed, Cache!Tenants, CP!Tenants,
   Cache!MovedToEnd, CP!MovedToEnd, Cache!LastPos, CP!LastPos,
   Cache!Max, CP!Max, Cache!Range, CP!Range, Cache!Hits, CP!Hits,
   Cache!IsLive, CP!IsLive

LEMMA SameLastFor ==
    ASSUME NEW rs, NEW a
    PROVE  Cache!LastFor(rs, a) = CP!LastFor(rs, a)
BY Zenon DEF Cache!LastFor, CP!LastFor, Cache!Max, CP!Max

LEMMA SameTtlFor ==
    ASSUME NEW r
    PROVE  Cache!TtlFor(r) = CP!TtlFor(r)
BY Zenon DEF Cache!TtlFor, CP!TtlFor, Cache!Cacheable, CP!Cacheable,
   Cache!Shortest, CP!Shortest, Cache!Min, CP!Min

LEMMA SameStored ==
    ASSUME NEW rs
    PROVE  /\ Cache!Offered(rs) = CP!Offered(rs)
           /\ Cache!Stored(rs) = CP!Stored(rs)
BY SameTtlFor, SameLastFor
   DEF Cache!Stored, CP!Stored, Cache!Offered, CP!Offered

LEMMA SameFilled ==
    ASSUME NEW t, NEW rs
    PROVE  Cache!Filled(t, rs) = CP!Filled(t, rs)
BY Zenon, SameStored DEF Cache!Filled, CP!Filled

LEMMA SamePut ==
    ASSUME NEW t, NEW rs
    PROVE  Cache!Put(t, rs) = CP!Put(t, rs)
BY SameStored, SameFilled, SameLastFor, SameTtlFor
   DEF Cache!Put, CP!Put, Cache!Fresh, CP!Fresh

LEMMA SameSwept ==
    ASSUME NEW t, NEW rs
    PROVE  /\ Cache!Sweeps(t, rs) <=> CP!Sweeps(t, rs)
           /\ Cache!Swept(t, rs) = CP!Swept(t, rs)
<1>1. Cache!Cardinality(Cache!Filled(t, rs)) = CP!Cardinality(CP!Filled(t, rs))
  BY Zenon, SameFilled DEF Cache!Cardinality, CP!Cardinality
<1>2. Cache!Expired(Cache!Put(t, rs), clock) = CP!Expired(CP!Put(t, rs), clock)
  BY Zenon, SamePut DEF Cache!Expired, CP!Expired, Cache!IsLive, CP!IsLive
<1>3. Cache!Sweeps(t, rs) <=> CP!Sweeps(t, rs)
  BY <1>1 DEF Cache!Sweeps, CP!Sweeps
<1> QED  BY <1>2, <1>3, SameFilled DEF Cache!Swept, CP!Swept

LEMMA SameOrderAfterPut ==
    ASSUME NEW t, NEW rs
    PROVE  Cache!OrderAfterPut(t, rs) = CP!OrderAfterPut(t, rs)
<1>1. [k \in {t} \X Cache!Stored(rs) |-> Cache!Max({i \in DOMAIN rs : rs[i].asset = k[2]})]
        = [k \in {t} \X CP!Stored(rs) |-> CP!Max({i \in DOMAIN rs : rs[i].asset = k[2]})]
  BY Zenon, SameStored DEF Cache!Max, CP!Max
<1>2. \A kept, moved, rank : Cache!MovedToEnd(kept, moved, rank) = CP!MovedToEnd(kept, moved, rank)
  BY Zenon DEF Cache!MovedToEnd, CP!MovedToEnd
<1> QED  BY <1>1, <1>2, SameStored, SameSwept DEF Cache!OrderAfterPut, CP!OrderAfterPut

LEMMA SameKept ==
    ASSUME NEW t, NEW rs
    PROVE  Cache!Kept(t, rs) = CP!Kept(t, rs)
<1>1. \A K, ord, n : Cache!Youngest(K, ord, n) = CP!Youngest(K, ord, n)
  BY Zenon DEF Cache!Youngest, CP!Youngest, Cache!Cardinality, CP!Cardinality
<1> QED  BY <1>1, SameSwept, SameOrderAfterPut DEF Cache!Kept, CP!Kept

LEMMA SamePutMany ==
    ASSUME NEW t, NEW rs
    PROVE  Cache!PutMany(t, rs) <=> CP!PutMany(t, rs)
<1>1. \A f, S : Cache!Restrict(f, S) = CP!Restrict(f, S)
  BY Zenon DEF Cache!Restrict, CP!Restrict
<1>2. \A added, dropped : Cache!Reindexed(added, dropped) = CP!Reindexed(added, dropped)
  BY Zenon DEF Cache!Reindexed, CP!Reindexed, Cache!Tenants, CP!Tenants
<1>3. \A S : Cache!Max(S) = CP!Max(S)
  BY Zenon DEF Cache!Max, CP!Max
<1>4. Cache!Cardinality(Cache!Swept(t, rs)) = CP!Cardinality(CP!Swept(t, rs))
  BY Zenon, SameSwept DEF Cache!Cardinality, CP!Cardinality
<1> QED
  BY <1>1, <1>2, <1>3, <1>4, SameStored, SamePut, SameSwept, SameOrderAfterPut, SameKept
     DEF Cache!PutMany, CP!PutMany

\* The seconds a hit reports as elapsed cover the entry's age.
LEMMA ElapsedCovers ==
    ASSUME NEW age \in Nat
    PROVE  /\ Cache!Elapsed(age) \in Nat
           /\ TicksPerSecond * Cache!Elapsed(age) >= age
<1>1. /\ CP!Elapsed(age) \in Nat
      /\ TicksPerSecond * CP!Elapsed(age) >= age
  BY CacheConstantsHold, CP!ElapsedRoundsUp
<1>2. Cache!Elapsed(age) = CP!Elapsed(age)
  BY DEF Cache!Elapsed, CP!Elapsed
<1> QED  BY <1>1, <1>2

-----------------------------------------------------------------------------
(* What the cache's methods do to its entries. *)

\* A lookup drops entries at most.
LEMMA LookupStep ==
    ASSUME CP!IInv, NEW t \in Tenants, NEW ids \in Seq(Assets), Cache!GetMany(t, ids)
    PROVE  /\ CP!IInv'
           /\ clock' = clock
           /\ \A k \in DOMAIN entries' : k \in DOMAIN entries /\ entries'[k] = entries[k]
<1>1. CP!GetMany(t, ids) /\ t \in CP!Tenants /\ CP!TypeOK
  BY SameGetMany DEF Tenants, CP!Tenants, CP!IInv
<1>2. PICK kept : CP!Keeps(kept)
  BY <1>1, CacheConstantsHold, CP!GetManyKeeps
<1>3. CP!IInv'
  BY <1>2, CacheConstantsHold, CP!KeepsPreserves
<1> QED  BY <1>2, <1>3 DEF CP!Keeps

\* put_many leaves entries as they were, and those it cut now from the batch.
LEMMA StoreStep ==
    ASSUME CP!IInv, NEW t \in Tenants, NEW rs \in Seq(Results), Cache!PutMany(t, rs)
    PROVE  /\ CP!IInv'
           /\ clock' = clock
           /\ \A k \in DOMAIN entries' :
                 \/ k \in DOMAIN entries /\ entries'[k] = entries[k]
                 \/ /\ k[1] = t
                    /\ entries'[k].storedAt = clock
                    /\ \E i \in DOMAIN rs : entries'[k].result = rs[i]
                    /\ entries'[k].result.ready
<1>1. CP!PutMany(t, rs) /\ t \in CP!Tenants /\ CP!TypeOK
  BY SamePutMany DEF Tenants, CP!Tenants, CP!IInv
<1>2. PICK kept : CP!KeepsAndStores(t, rs, kept)
  BY <1>1, CacheConstantsHold, CP!PutManyKeepsAndStores
<1>3. CP!IInv'
  BY <1>1, <1>2, CacheConstantsHold, CP!KeepsAndStoresPreserves
<1>4. ASSUME NEW k \in DOMAIN entries', k \in {t} \X CP!Stored(rs)
      PROVE  /\ k[1] = t
             /\ entries'[k].storedAt = clock
             /\ \E i \in DOMAIN rs : entries'[k].result = rs[i]
             /\ entries'[k].result.ready
  <2>1. entries'[k] = CP!Fresh(CP!LastFor(rs, k[2]))
    BY <1>2, <1>4 DEF CP!KeepsAndStores
  <2>2. /\ entries'[k].result = CP!LastFor(rs, k[2])
        /\ CP!Cacheable(entries'[k].result)
        /\ entries'[k].storedAt = clock
    BY <1>1, <1>4, <2>1, CacheConstantsHold, CP!FreshEntry
  <2>3. k[2] \in CP!Offered(rs)
    BY <1>4, CacheConstantsHold, CP!StoredAreOffered
  <2>4. \E n \in DOMAIN rs : CP!LastFor(rs, k[2]) = rs[n]
    BY <2>3, CacheConstantsHold, CP!LastForIsOffered
  <2> QED  BY <1>4, <2>2, <2>4 DEF CP!Cacheable
<1> QED  BY <1>2, <1>3, <1>4 DEF CP!KeepsAndStores

\* invalidate leaves no entry of the asset, and the others as they were.
LEMMA InvalidateStep ==
    ASSUME CP!IInv, NEW a \in Assets, Cache!Invalidate(a, NoTenant)
    PROVE  /\ CP!IInv'
           /\ clock' = clock
           /\ \A k \in DOMAIN entries' :
                 k \in DOMAIN entries /\ entries'[k] = entries[k] /\ k[2] # a
<1> DEFINE K == tenantsByAsset[a] \X {a}
           kept == (DOMAIN entries) \ K
<1>1. CP!Drop(K) /\ UNCHANGED <<sweepAt, clock>> /\ CP!TypeOK
  BY SameInvalidate DEF CP!Invalidate, CP!IInv
<1>2. CP!Keeps(kept)
  <2> HIDE DEF K
  <2> QED  BY <1>1, CacheConstantsHold, CP!DropKeeps
<1>3. CP!IInv'
  <2> HIDE DEF kept
  <2> QED  BY <1>2, CacheConstantsHold, CP!KeepsPreserves
<1>4. tenantsByAsset[a] = {u \in CP!Tenants : <<u, a>> \in DOMAIN entries}
         /\ DOMAIN entries \subseteq CP!Keys
  BY DEF CP!IInv, CP!IndexMatchesEntries, CP!TypeOK
<1>5. \A k \in kept : k[2] # a
  BY <1>4 DEF CP!Keys
<1> HIDE DEF kept
<1> QED  BY <1>2, <1>3, <1>5 DEF CP!Keeps

LEMMA TickStep ==
    ASSUME CP!IInv, Cache!Tick
    PROVE  /\ CP!IInv'
           /\ clock \in Nat /\ clock < MaxTime /\ clock' = clock + 1
           /\ entries' = entries
<1>1. CP!IInv'
  BY SameTick, CacheConstantsHold, CP!TickPreserves
<1>2. clock \in Nat
  BY DEF CP!IInv, CP!TypeOK
<1> QED  BY <1>1, <1>2 DEF Cache!Tick, Cache!cacheVars

\* What a hit's entry says: the result is of the key's asset, and it is live.
LEMMA HitFacts ==
    ASSUME CP!IInv, NEW t \in Tenants, NEW ids, NEW k \in Cache!Hits(t, ids)
    PROVE  /\ k \in DOMAIN entries
           /\ k = <<t, k[2]>>
           /\ entries[k].result \in Results
           /\ entries[k].result.asset = k[2]
           /\ entries[k].storedAt \in Nat /\ clock \in Nat
           /\ entries[k].storedAt <= clock
           /\ \A e \in entries[k].result.expiries :
                 /\ TicksPerSecond * e \in Nat
                 /\ clock + SafetyMargin < entries[k].storedAt + TicksPerSecond * e
<1>1. k \in DOMAIN entries /\ k \in {t} \X Cache!Range(ids) /\ entries[k].expiresAt > clock
  BY DEF Cache!Hits, Cache!IsLive
<1>2. /\ entries[k] \in [result: Results, storedAt: Nat, expiresAt: Nat]
      /\ clock \in Nat
      /\ entries[k].result.asset = k[2]
      /\ entries[k].storedAt <= clock
      /\ \A e \in entries[k].result.expiries :
             entries[k].expiresAt + SafetyMargin
                 <= entries[k].storedAt + TicksPerSecond * e
  BY <1>1 DEF CP!IInv, CP!TypeOK, CP!Entry, CP!LeasesHold
<1>3. \A e \in entries[k].result.expiries : TicksPerSecond * e \in Nat
  <2>1. entries[k].result.expiries \in {{}, {Lifetime}}
    BY <1>2 DEF Results
  <2>2. TicksPerSecond * Lifetime \in Nat
    BY ResolveConstants
  <2> QED  BY <2>1, <2>2
<1>4. entries[k].expiresAt \in Nat /\ entries[k].storedAt \in Nat /\ SafetyMargin \in Nat
  BY <1>2, ResolveConstants
<1> QED  BY <1>1, <1>2, <1>3, <1>4

-----------------------------------------------------------------------------
(* The lists a call works through. *)

\* InOrder lists the elements at the positions it is given, and all of them.
LEMMA InOrderIsAList ==
    ASSUME NEW S, NEW s \in Seq(S), NEW P \in SUBSET DOMAIN s
    PROVE  /\ InOrder(s, P) \in Seq(S)
           /\ \A i \in P : s[i] \in Range(InOrder(s, P))
<1> DEFINE R == {p \in P \X P : p[2] < p[1]}
           T == 0..(Cardinality(P) - 1)
           rank == [i \in P |-> Cardinality({j \in P : j < i})]
           place(n) == CHOOSE i \in P : Cardinality({j \in P : j < i}) = n - 1
<1>1. P \in SUBSET (1..Len(s)) /\ Len(s) \in Nat
  OBVIOUS
<1>2. IsFiniteSet(P)
  BY <1>1, FS_Interval, FS_Subset
<1>3. Cardinality(P) \in Nat
  BY <1>2, FS_CardinalityType
<1>4. CP!StrictlyOrders(R, P)
  <2>1. \A i \in P : i \in Nat
    BY <1>1
  <2> QED  BY <2>1 DEF CP!StrictlyOrders
<1>5. rank \in CP!Bijection(P, T)
  <2>1. \A x \in P : {y \in P : <<x, y>> \in R} = {j \in P : j < x}
    OBVIOUS
  <2> HIDE DEF R
  <2>2. CP!IsFiniteSet(P)
    BY <1>2, SameFinite
  <2>3. [x \in P |-> CP!Cardinality(CP!After(P, R, x))]
            \in CP!Bijection(P, 0..(CP!Cardinality(P) - 1))
    BY <1>4, <2>2, CacheConstantsHold, CP!AfterNumbersTheSet
  <2>4. \A x \in P : CP!Cardinality(CP!After(P, R, x)) = rank[x]
    BY <2>1, SameCardinality DEF CP!After
  <2>5. [x \in P |-> CP!Cardinality(CP!After(P, R, x))] = rank
    BY <2>4
  <2> QED  BY <2>3, <2>5, SameCardinality
<1>6. /\ \A x \in P : rank[x] \in T
      /\ \A x, y \in P : rank[x] = rank[y] => x = y
      /\ \A m \in T : \E x \in P : rank[x] = m
  <2> HIDE DEF rank, T
  <2> QED  BY <1>5 DEF CP!Bijection, CP!Injection, CP!Surjection, CP!IsInjective
<1>7. \A n \in 1..Cardinality(P) : place(n) \in P /\ rank[place(n)] = n - 1
  <2>1. \A n \in 1..Cardinality(P) : n - 1 \in T
    BY <1>3
  <2>2. \A n \in 1..Cardinality(P) :
            \E i \in P : Cardinality({j \in P : j < i}) = n - 1
    <3> HIDE DEF T
    <3> QED  BY <1>6, <2>1
  <2> QED  BY <2>2
<1>8. InOrder(s, P) = [n \in 1..Cardinality(P) |-> s[place(n)]]
  BY DEF InOrder
<1>9. ASSUME NEW i \in P
      PROVE  rank[i] + 1 \in 1..Cardinality(P) /\ place(rank[i] + 1) = i
  <2>1. rank[i] \in T
    BY <1>6
  <2> HIDE DEF rank, place
  <2>2. rank[i] + 1 \in 1..Cardinality(P) /\ (rank[i] + 1) - 1 = rank[i]
    BY <1>3, <2>1
  <2> HIDE DEF T
  <2>3. place(rank[i] + 1) \in P /\ rank[place(rank[i] + 1)] = rank[i]
    BY <1>7, <2>2
  <2> QED  BY <1>6, <2>2, <2>3
<1> HIDE DEF place, rank, T
<1>10. \A n \in 1..Cardinality(P) : s[place(n)] \in S
  BY <1>1, <1>7
<1>11. InOrder(s, P) \in Seq(S)
  BY <1>3, <1>8, <1>10
<1>12. \A i \in P : s[i] \in Range(InOrder(s, P))
  BY <1>8, <1>9 DEF Range
<1> QED  BY <1>11, <1>12

LEMMA UniqueLists ==
    ASSUME NEW s \in Seq(Assets)
    PROVE  Unique(s) \in Seq(Assets) /\ Range(s) \subseteq Range(Unique(s))
<1> DEFINE P == {i \in DOMAIN s : \A j \in 1..(i - 1) : s[j] # s[i]}
<1>1. P \in SUBSET DOMAIN s
  OBVIOUS
<1>2. ASSUME NEW a \in Range(s) PROVE \E i \in P : s[i] = a
  <2> DEFINE places == {i \in DOMAIN s : s[i] = a}
  <2>1. places \in SUBSET Nat /\ places # {}
    BY DEF Range
  <2>2. PICK i \in places : \A j \in places : i <= j
    <3> HIDE DEF places
    <3> QED  BY <2>1, CacheConstantsHold, CP!MinOfNaturals
  <2>3. DOMAIN s = 1..Len(s) /\ Len(s) \in Nat
    OBVIOUS
  <2>4. \A j \in 1..(i - 1) : s[j] # s[i]
    BY <2>2, <2>3
  <2> QED  BY <2>2, <2>4
<1> HIDE DEF P
<1>3. InOrder(s, P) \in Seq(Assets) /\ \A i \in P : s[i] \in Range(InOrder(s, P))
  BY <1>1, InOrderIsAList
<1>4. Unique(s) = InOrder(s, P)
  BY DEF Unique, P
<1> QED  BY <1>2, <1>3, <1>4

LEMMA OnlyLists ==
    ASSUME NEW s \in Seq(Assets), NEW S
    PROVE  Only(s, S) \in Seq(Assets) /\ Range(s) \cap S \subseteq Range(Only(s, S))
<1> DEFINE P == {i \in DOMAIN s : s[i] \in S}
<1>1. P \in SUBSET DOMAIN s
  OBVIOUS
<1>2. \A a \in Range(s) \cap S : \E i \in P : s[i] = a
  BY DEF Range
<1> HIDE DEF P
<1>3. InOrder(s, P) \in Seq(Assets) /\ \A i \in P : s[i] \in Range(InOrder(s, P))
  BY <1>1, InOrderIsAList
<1>4. Only(s, S) = InOrder(s, P)
  BY DEF Only, P
<1> QED  BY <1>2, <1>3, <1>4

\* A batch and what is left after it are all there was.
LEMMA BatchLists ==
    ASSUME NEW s \in Seq(Assets)
    PROVE  /\ NextBatch(s) \in Seq(Assets)
           /\ Without(s) \in Seq(Assets)
           /\ Range(s) \subseteq Range(NextBatch(s)) \cup Range(Without(s))
<1> DEFINE n == IF Len(s) < BatchSize THEN Len(s) ELSE BatchSize
<1>1. Len(s) \in Nat /\ BatchSize \in Nat \ {0} /\ \A i \in 1..Len(s) : s[i] \in Assets
  BY ResolveConstants
<1>2. n \in 0..Len(s)
  BY <1>1
<1> HIDE DEF n
<1>3. /\ SubSeq(s, 1, n) \in Seq(Assets)
      /\ Len(SubSeq(s, 1, n)) = n
      /\ \A i \in 1..n : SubSeq(s, 1, n)[i] = s[i]
  BY <1>1, <1>2, SubSeqProperties
<1>4. NextBatch(s) = SubSeq(s, 1, n)
  BY DEF NextBatch, n
<1>5. Without(s) = SubSeq(s, n + 1, Len(s))
  BY <1>3, <1>4 DEF Without
<1>6. /\ Without(s) \in Seq(Assets)
      /\ Len(Without(s)) = Len(s) - n
      /\ \A i \in 1..(Len(s) - n) : Without(s)[i] = s[n + i]
  <2>1. n + 1 \in Int /\ Len(s) \in Int /\ \A i \in (n + 1)..Len(s) : s[i] \in Assets
    BY <1>1, <1>2
  <2>2. /\ SubSeq(s, n + 1, Len(s)) \in Seq(Assets)
        /\ Len(SubSeq(s, n + 1, Len(s))) = IF n + 1 <= Len(s) THEN Len(s) - (n + 1) + 1 ELSE 0
        /\ \A i \in 1..(Len(s) - (n + 1) + 1) :
              SubSeq(s, n + 1, Len(s))[i] = s[n + 1 + i - 1]
    BY <2>1, SubSeqProperties
  <2>3. Len(s) - (n + 1) + 1 = Len(s) - n /\ (n + 1 > Len(s) => Len(s) - n = 0)
    BY <1>1, <1>2
  <2>4. \A i \in 1..(Len(s) - n) : n + 1 + i - 1 = n + i
    BY <1>2
  <2>5. Len(Without(s)) = Len(s) - n
    <3>1. CASE n + 1 <= Len(s)
      BY <1>5, <2>2, <2>3, <3>1
    <3>2. CASE ~(n + 1 <= Len(s))
      <4>1. Len(s) - n = 0
        BY <1>1, <1>2, <3>2
      <4> QED  BY <1>5, <2>2, <3>2, <4>1
    <3> QED  BY <3>1, <3>2
  <2>6. \A i \in 1..(Len(s) - n) : Without(s)[i] = s[n + i]
    BY <1>5, <2>2, <2>3, <2>4
  <2> QED  BY <1>5, <2>2, <2>5, <2>6
<1>7. ASSUME NEW i \in 1..Len(s)
      PROVE  s[i] \in Range(NextBatch(s)) \cup Range(Without(s))
  <2>1. CASE i <= n
    <3>1. i \in DOMAIN NextBatch(s) /\ NextBatch(s)[i] = s[i]
      BY <1>2, <1>3, <1>4, <2>1
    <3> QED  BY <3>1 DEF Range
  <2>2. CASE n < i
    <3>1. i - n \in 1..(Len(s) - n) /\ n + (i - n) = i
      BY <1>1, <1>2, <2>2
    <3>2. i - n \in DOMAIN Without(s) /\ Without(s)[i - n] = s[i]
      BY <1>6, <3>1
    <3> QED  BY <3>2 DEF Range
  <2> QED  BY <1>2, <2>1, <2>2
<1>8. Range(s) \subseteq Range(NextBatch(s)) \cup Range(Without(s))
  <2>1. \A a \in Range(s) : \E i \in 1..Len(s) : s[i] = a
    BY DEF Range
  <2> QED  BY <1>7, <2>1
<1> QED  BY <1>3, <1>4, <1>6, <1>8

\* The gate resolves at least what the user may see.
LEMMA AllowedAreResolved ==
    ASSUME NEW ids \in Seq(Assets), NEW allowed
    PROVE  /\ ToResolve(ids, allowed) \in Seq(Assets)
           /\ Range(ids) \cap allowed \subseteq Range(ToResolve(ids, allowed))
<1>1. Unique(ids) \in Seq(Assets) /\ Range(ids) \subseteq Range(Unique(ids))
  BY UniqueLists
<1>2. /\ Only(Unique(ids), allowed) \in Seq(Assets)
      /\ Range(Unique(ids)) \cap allowed \subseteq Range(Only(Unique(ids), allowed))
  BY <1>1, OnlyLists
<1> QED  BY <1>1, <1>2 DEF ToResolve

-----------------------------------------------------------------------------
(* The inductive invariant. *)

\* How long a link lives, and how long one was cached, in ticks.
LinkTicks == TicksPerSecond * Lifetime
Waited(h) == TicksPerSecond * h.elapsed

\* A result the server gave, in this state or an earlier one.
Sound(r) ==
    /\ r \in Results
    /\ r.ready => r.status = "ok" /\ r.expiries = {Lifetime}
    /\ r.issued <= clock
    /\ r.ver <= server[r.asset].ver

\* A cached result is of its key's tenant, may be cached, and was cached after
\* the server gave it.
EntryGood(k, e) ==
    /\ Sound(e.result)
    /\ e.result.tenant = k[1]
    /\ e.result.ready
    /\ e.result.issued <= e.storedAt
    /\ invalidated[k[2]].quiet => e.result.ver >= invalidated[k[2]].ver

\* A result the server gave caller c since its lookup at "since".
Got(c, since, r) ==
    /\ Sound(r)
    /\ r.tenant = ClientTenant[c]
    /\ since <= r.issued
    /\ invalidated[r.asset].quiet => r.ver >= invalidated[r.asset].ver

\* What caller c holds of asset a at "now", or gets then: the time since the
\* links were issued is covered by what is reported and the latency, and so is
\* the margin, or it was less than the latency.
InHand(c, now, a, h) ==
    /\ h.result \in Results
    /\ h.result.asset = a
    /\ h.result.tenant = ClientTenant[c]
    /\ h.elapsed \in Nat
    /\ h.latency \in Nat
    /\ now <= h.result.issued + h.latency + Waited(h)
    /\ \/ now + SafetyMargin < h.result.issued + h.latency + LinkTicks
       \/ now <= h.result.issued + h.latency

\* An item, as what is held for it.
Holding(item) ==
    [result |-> item.from, elapsed |-> item.elapsed, latency |-> item.latency]

\* The items of a call that has returned.
ItemsGood(c, r) ==
    /\ DOMAIN r.items = Range(r.ids)
    /\ \A a \in Range(r.ids) :
          /\ \/ r.items[a].from = Nothing /\ r.items[a].links = "none"
             \/ InHand(c, clock, a, Holding(r.items[a]))
          /\ r.items[a].links = "all" => a \in r.allowed
          /\ a \in r.allowed \ r.silent =>
                /\ r.items[a].from \in Results
                /\ r.items[a].status = r.items[a].from.status

\* A call's record.
Shaped(r) ==
    /\ r = [pc |-> r.pc, ids |-> r.ids, allowed |-> r.allowed, found |-> r.found,
            todo |-> r.todo, reply |-> r.reply, fresh |-> r.fresh, since |-> r.since,
            silent |-> r.silent, items |-> r.items]
    /\ r.pc \in Pcs
    /\ r.ids \in Seq(Assets)
    /\ r.todo \in Seq(Assets)
    /\ r.fresh \in Seq(Results)
    /\ r.reply \in Seq(Results) \cup {Nothing}

AssetsOf(rs) == {rs[i].asset : i \in DOMAIN rs}

\* No id is lost: what the user may see is found, answered, asked for, or the
\* server was silent on it.
Complete(r) ==
    /\ r.pc = "storing" => r.todo = <<>>
    /\ Range(r.ids) \cap r.allowed
          \subseteq DOMAIN r.found \cup AssetsOf(r.fresh) \cup Range(r.todo) \cup r.silent
    /\ r.reply # Nothing =>
          Range(NextBatch(r.todo)) \subseteq AssetsOf(r.reply) \cup r.silent

\* A call between its lookup and its return.
Underway(c, r) ==
    /\ r.since \in Nat
    /\ r.since <= clock
    /\ \A a \in DOMAIN r.found : InHand(c, r.since, a, r.found[a])
    /\ \A i \in DOMAIN r.fresh : Got(c, r.since, r.fresh[i])
    /\ r.reply # Nothing => \A i \in DOMAIN r.reply : Got(c, r.since, r.reply[i])
    /\ Complete(r)

CallGood(c, r) ==
    /\ Shaped(r)
    /\ r.pc \in {"waiting", "storing"} => Underway(c, r)
    /\ r.pc = "done" => ItemsGood(c, r)

ServerTyped ==
    /\ server \in [Assets -> [ver: 0..MaxVersion, status: {"ok", "not_found"}]]
    /\ invalidated \in [Assets -> [ver: 0..MaxVersion, quiet: BOOLEAN]]
    /\ \A a \in Assets : invalidated[a].ver <= server[a].ver

IInv ==
    /\ CP!IInv
    /\ clock <= MaxTime
    /\ ServerTyped
    /\ \A k \in DOMAIN entries : EntryGood(k, entries[k])
    /\ call = [c \in Callers |-> call[c]]
    /\ \A c \in Callers : CallGood(c, call[c])

-----------------------------------------------------------------------------
(* What a call returns. *)

LEMMA ProductTypes ==
    /\ LinkTicks \in Nat
    /\ \A h : h.elapsed \in Nat => Waited(h) \in Nat
BY ResolveConstants DEF LinkTicks, Waited

\* What was in hand at "since" and is returned after "lasted" ticks more.
LEMMA InHandLasts ==
    ASSUME NEW c, NEW since \in Nat, NEW lasted \in Nat, NEW a, NEW h, InHand(c, since, a, h)
    PROVE  InHand(c, since + lasted, a,
                  [result |-> h.result, elapsed |-> h.elapsed, latency |-> h.latency + lasted])
<1> DEFINE g == [result |-> h.result, elapsed |-> h.elapsed, latency |-> h.latency + lasted]
<1>1. h.result.issued \in Nat /\ h.latency \in Nat
  BY DEF InHand, Results
<1>2. Waited(h) \in Nat /\ LinkTicks \in Nat /\ SafetyMargin \in Nat
  BY ProductTypes, ResolveConstants DEF InHand
<1>3. /\ g.result = h.result /\ g.elapsed = h.elapsed /\ g.latency = h.latency + lasted
      /\ Waited(g) = Waited(h)
  BY DEF Waited
<1> HIDE DEF g
<1>4. InHand(c, since + lasted, a, g)
  BY <1>1, <1>2, <1>3 DEF InHand
<1> QED  BY <1>4 DEF g

\* So is what the server gave since.
LEMMA GotInHand ==
    ASSUME NEW c, NEW since \in Nat, NEW r, Got(c, since, r)
    PROVE  InHand(c, since, r.asset, [result |-> r, elapsed |-> 0, latency |-> 0])
<1> DEFINE h == [result |-> r, elapsed |-> 0, latency |-> 0]
<1>1. r.issued \in Nat /\ r \in Results /\ since <= r.issued /\ r.tenant = ClientTenant[c]
  BY DEF Got, Sound, Results
<1>2. h.result = r /\ h.elapsed = 0 /\ h.latency = 0
  OBVIOUS
<1> HIDE DEF h
<1>3. Waited(h) \in Nat
  BY <1>2, ProductTypes
<1>4. InHand(c, since, r.asset, h)
  BY <1>1, <1>2, <1>3 DEF InHand
<1> QED  BY <1>4 DEF h

LEMMA ReturnedGood ==
    ASSUME clock \in Nat, NEW c, NEW r, Shaped(r), r.since \in Nat, r.since <= clock,
           NEW resolved, \A a \in DOMAIN resolved : InHand(c, r.since, a, resolved[a]),
           Range(r.ids) \cap r.allowed \subseteq DOMAIN resolved \cup r.silent
    PROVE  CallGood(c, Returned(r, resolved))
<1> DEFINE lasted == clock - r.since
           item(a) == ItemFor(a, r.allowed, resolved, lasted)
           items == [a \in Range(r.ids) |-> item(a)]
           done == Returned(r, resolved)
<1>1. done = [pc |-> "done", ids |-> r.ids, allowed |-> r.allowed, found |-> None,
              todo |-> r.todo, reply |-> r.reply, fresh |-> <<>>, since |-> 0,
              silent |-> r.silent, items |-> items]
  <2>1. done = [r EXCEPT !.pc = "done", !.found = None, !.fresh = <<>>, !.since = 0,
                         !.items = items]
    BY DEF Returned
  <2> HIDE DEF items, done
  <2> QED  BY <2>1 DEF Shaped
<1>2. Shaped(done)
  <2>1. <<>> \in Seq(Results)
    OBVIOUS
  <2> HIDE DEF items, done
  <2> QED  BY <1>1, <2>1 DEF Shaped, Pcs
<1>3. lasted \in Nat /\ r.since + lasted = clock
  OBVIOUS
<1> HIDE DEF lasted
<1>4. ASSUME NEW a \in DOMAIN resolved
      PROVE  /\ Holding(item(a)) = [result |-> resolved[a].result,
                                    elapsed |-> resolved[a].elapsed,
                                    latency |-> resolved[a].latency + lasted]
             /\ item(a).from = resolved[a].result
             /\ item(a).links = "all" => a \in r.allowed
             /\ a \in r.allowed => item(a).status = resolved[a].result.status
  BY DEF ItemFor, AllowedItem, DeniedItem, Item, WithoutAsset, Holding
<1>5. ASSUME NEW a, a \notin DOMAIN resolved
      PROVE  item(a).from = Nothing /\ item(a).links = "none"
  BY <1>5 DEF ItemFor, AllowedItem, DeniedItem, NoItem
<1>6. ItemsGood(c, done)
  <2>1. done.items = items /\ done.ids = r.ids /\ done.allowed = r.allowed
           /\ done.silent = r.silent
    BY <1>1
  <2>2. DOMAIN items = Range(r.ids) /\ \A a \in Range(r.ids) : items[a] = item(a)
    OBVIOUS
  <2> HIDE DEF items, item, done
  <2> SUFFICES ASSUME NEW a \in Range(r.ids)
               PROVE  /\ \/ item(a).from = Nothing /\ item(a).links = "none"
                         \/ InHand(c, clock, a, Holding(item(a)))
                      /\ item(a).links = "all" => a \in r.allowed
                      /\ a \in r.allowed \ r.silent =>
                            /\ item(a).from \in Results
                            /\ item(a).status = item(a).from.status
    BY <2>1, <2>2 DEF ItemsGood
  <2>3. CASE a \in DOMAIN resolved
    <3>1. InHand(c, r.since, a, resolved[a])
      BY <2>3
    <3>2. InHand(c, clock, a, Holding(item(a)))
      BY <1>3, <1>4, <2>3, <3>1, InHandLasts
    <3>3. resolved[a].result \in Results
      BY <3>1 DEF InHand
    <3> QED  BY <1>4, <2>3, <3>2, <3>3
  <2>4. CASE a \notin DOMAIN resolved
    BY <1>5, <2>4
  <2> QED  BY <2>3, <2>4
<1>7. done.pc = "done"
  BY <1>1
<1> HIDE DEF done
<1>8. CallGood(c, done)
  BY <1>2, <1>6, <1>7 DEF CallGood
<1> QED  BY <1>8 DEF done

\* A call stays good in every step that leaves it, the clock, the server and
\* the invalidations alone.
LEMMA GoodCallsStay ==
    ASSUME NEW c, CallGood(c, call[c]), call'[c] = call[c],
           UNCHANGED <<clock, server, invalidated>>
    PROVE  CallGood(c, call[c])'
<1>1. Shaped(call[c])'
  BY DEF CallGood, Shaped
<1>2. \A r, since : Got(c, since, r) => Got(c, since, r)'
  BY DEF Got, Sound
<1>3. \A a, now, h : InHand(c, now, a, h) => InHand(c, now, a, h)'
  BY DEF InHand, Waited
<1>4. Underway(c, call[c]) => Underway(c, call[c])'
  BY <1>2, <1>3 DEF Underway, Complete
<1>5. ItemsGood(c, call[c]) => ItemsGood(c, call[c])'
  BY <1>3 DEF ItemsGood, Holding
<1> QED  BY <1>1, <1>4, <1>5 DEF CallGood

-----------------------------------------------------------------------------
(* The steps. *)

\* Only call[c] changes.
Moves(c) ==
    /\ call' = [d \in Callers |-> call'[d]]
    /\ \A d \in Callers \ {c} : call'[d] = call[d]
    /\ UNCHANGED <<clock, server, invalidated>>

LEMMA CacheStays ==
    ASSUME CP!IInv, UNCHANGED <<cacheVars, clock>>
    PROVE  CP!IInv'
BY DEF CP!IInv, CP!TypeOK, CP!IndexMatchesEntries, CP!LeasesHold, cacheVars

\* A cache entry stays good while the server and the invalidations do.
LEMMA GoodEntriesStay ==
    ASSUME NEW k, EntryGood(k, entries[k]), entries'[k] = entries[k],
           UNCHANGED <<clock, server, invalidated>>
    PROVE  EntryGood(k, entries[k])'
BY DEF EntryGood, Sound

LEMMA MovesPreserve ==
    ASSUME IInv, NEW c \in Callers, Moves(c), CallGood(c, call[c])', CP!IInv',
           \A k \in DOMAIN entries' : EntryGood(k, entries[k])'
    PROVE  IInv'
<1>1. ASSUME NEW d \in Callers PROVE CallGood(d, call[d])'
  <2>1. CASE d = c
    BY <2>1
  <2>2. CASE d # c
    BY <2>2, GoodCallsStay DEF Moves, IInv
  <2> QED  BY <2>1, <2>2
<1> QED  BY <1>1 DEF IInv, Moves, ServerTyped

LEMMA CallStepPreserves ==
    ASSUME IInv, NEW c \in Callers, Moves(c), CallGood(c, call[c])', UNCHANGED cacheVars
    PROVE  IInv'
<1>1. CP!IInv'
  BY CacheStays DEF IInv, Moves
<1>2. entries' = entries
  BY DEF cacheVars
<1>3. \A k \in DOMAIN entries' : EntryGood(k, entries[k])'
  BY <1>2, GoodEntriesStay DEF IInv, Moves
<1> QED  BY <1>1, <1>3, MovesPreserve

\* A call that is not under way.
LEMMA IdleGood ==
    ASSUME NEW c
    PROVE  CallGood(c, Idle)
<1>1. <<>> \in Seq(Assets) /\ <<>> \in Seq(Results)
  OBVIOUS
<1>2. Shaped(Idle)
  BY <1>1 DEF Shaped, Idle, Pcs
<1> QED  BY <1>2 DEF CallGood, Idle

LEMMA EndsPreserve ==
    ASSUME IInv, NEW c \in Callers, Fail(c) \/ HandOver(c)
    PROVE  IInv'
<1>1. call' = [call EXCEPT ![c] = Idle]
  BY DEF Fail, HandOver
<1>2. UNCHANGED cacheVars /\ UNCHANGED <<clock, server, invalidated>>
  BY DEF Fail, HandOver
<1>3. call = [d \in Callers |-> call[d]]
  BY DEF IInv
<1>4. call'[c] = Idle /\ Moves(c)
  BY <1>1, <1>2, <1>3 DEF Moves
<1>5. CallGood(c, call[c])'
  <2>1. Shaped(Idle) /\ Idle.pc = "idle"
    BY IdleGood DEF CallGood, Idle
  <2>2. Shaped(call[c])' /\ (call[c].pc)' = "idle"
    BY <1>4, <2>1 DEF Shaped
  <2> QED  BY <2>2 DEF CallGood
<1> QED  BY <1>2, <1>4, <1>5, CallStepPreserves

\* What the server answers is about the state it is in.
LEMMA AnsweredGot ==
    ASSUME IInv, NEW c \in Callers, ClientTenant[c] \in Tenants,
           NEW a \in Assets, NEW refused, NEW failed, NEW since \in Nat, since <= clock
    PROVE  /\ Got(c, since, Answered(a, ClientTenant[c], refused, failed))
           /\ Answered(a, ClientTenant[c], refused, failed).asset = a
<1> DEFINE status == IF failed THEN "error"
                     ELSE IF refused /\ server[a].status = "ok" THEN "forbidden"
                     ELSE server[a].status
           r == [asset |-> a, tenant |-> ClientTenant[c], ver |-> server[a].ver, issued |-> clock,
                 status |-> status, ready |-> status = "ok",
                 expiries |-> IF status = "ok" THEN {Lifetime} ELSE {}]
<1>1. Answered(a, ClientTenant[c], refused, failed) = r
  BY DEF Answered
<1>2. /\ server[a].ver \in 0..MaxVersion /\ server[a].status \in {"ok", "not_found"}
      /\ invalidated[a].ver <= server[a].ver
  BY DEF IInv, ServerTyped
<1>3. clock \in 0..MaxTime
  BY ResolveConstants DEF IInv, CP!IInv, CP!TypeOK
<1>4. status \in {"ok", "not_found", "forbidden", "error"}
  BY <1>2
<1> HIDE DEF status
<1>5. r \in Results
  BY <1>2, <1>3, <1>4 DEF Results
<1>6. r.ready => r.status = "ok" /\ r.expiries = {Lifetime}
  OBVIOUS
<1>7. r.asset = a /\ r.tenant = ClientTenant[c] /\ r.ver = server[a].ver /\ r.issued = clock
  OBVIOUS
<1> HIDE DEF r
<1>8. Got(c, since, r)
  BY <1>2, <1>3, <1>5, <1>6, <1>7, ResolveConstants DEF Got, Sound
<1> QED  BY <1>1, <1>7, <1>8

LEMMA ServerAnswersPreserves ==
    ASSUME IInv, NEW c \in Callers, ServerAnswers(c)
    PROVE  IInv'
<1> DEFINE batch == NextBatch(call[c].todo)
<1>1. CallGood(c, call[c]) /\ call[c].pc = "waiting" /\ call = [d \in Callers |-> call[d]]
  BY DEF IInv, ServerAnswers
<1>2. Shaped(call[c]) /\ Underway(c, call[c])
  BY <1>1 DEF CallGood
<1>3. PICK silent, refused, failed \in SUBSET Range(batch) :
          LET given == Only(batch, Assets \ silent)
          IN  call' = [call EXCEPT
                 ![c].silent = @ \cup silent,
                 ![c].reply = [i \in DOMAIN given |->
                                  Answered(given[i], ClientTenant[c],
                                           given[i] \in refused, given[i] \in failed)]]
  BY DEF ServerAnswers
<1> DEFINE given == Only(batch, Assets \ silent)
           answer == [i \in DOMAIN given |->
                         Answered(given[i], ClientTenant[c],
                                  given[i] \in refused, given[i] \in failed)]
<1>4. batch \in Seq(Assets)
  BY <1>2, BatchLists DEF Shaped
<1>5. call' = [call EXCEPT ![c].silent = @ \cup silent, ![c].reply = answer]
  BY <1>3
<1> HIDE DEF batch
<1>6. given \in Seq(Assets) /\ Range(batch) \cap (Assets \ silent) \subseteq Range(given)
  BY <1>4, OnlyLists
<1>7. call[c].since \in Nat /\ call[c].since <= clock
  BY <1>2 DEF Underway
<1>8. ClientTenant[c] \in Tenants
  BY ResolveConstants DEF Tenants
<1> HIDE DEF given
<1>9. \A i \in DOMAIN given : Got(c, call[c].since, answer[i]) /\ answer[i].asset = given[i]
  <2>1. \A i \in DOMAIN given : given[i] \in Assets
    BY <1>6
  <2> QED  BY <1>7, <1>8, <2>1, AnsweredGot
<1>10. answer \in Seq(Results) /\ DOMAIN answer = DOMAIN given
  <2>1. DOMAIN given = 1..Len(given) /\ Len(given) \in Nat
    BY <1>6
  <2>2. \A i \in DOMAIN given : answer[i] \in Results
    BY <1>9 DEF Got, Sound
  <2> QED  BY <2>1, <2>2
<1> HIDE DEF answer
<1>11. Range(batch) \subseteq AssetsOf(answer) \cup call[c].silent \cup silent
  <2>1. Range(batch) \subseteq Assets
    BY <1>4 DEF Range
  <2>2. Range(given) \subseteq AssetsOf(answer)
    BY <1>9, <1>10 DEF Range, AssetsOf
  <2> QED  BY <1>6, <2>1, <2>2
<1>12. call'[c] = [call[c] EXCEPT !.silent = @ \cup silent, !.reply = answer]
          /\ UNCHANGED cacheVars /\ UNCHANGED <<clock, server, invalidated>>
          /\ Moves(c)
  BY <1>1, <1>5 DEF ServerAnswers, Moves
<1>13. call'[c] = [pc |-> call[c].pc, ids |-> call[c].ids, allowed |-> call[c].allowed,
                   found |-> call[c].found, todo |-> call[c].todo, reply |-> answer,
                   fresh |-> call[c].fresh, since |-> call[c].since,
                   silent |-> call[c].silent \cup silent, items |-> call[c].items]
  BY <1>2, <1>12 DEF Shaped
<1>14. Shaped(call[c])'
  BY <1>2, <1>10, <1>13 DEF Shaped
<1>15. Complete(call'[c])
  BY <1>2, <1>11, <1>13 DEF Underway, Complete, batch
<1>16. Underway(c, call[c])'
  <2>1. \A r : Got(c, call[c].since, r) => Got(c, call[c].since, r)'
    BY <1>12, <1>13 DEF Got, Sound
  <2>2. \A a, h : InHand(c, call[c].since, a, h) => InHand(c, call[c].since, a, h)'
    BY <1>12, <1>13 DEF InHand, Waited
  <2>3. Complete(call[c])'
    BY <1>15 DEF Complete
  <2> QED  BY <1>2, <1>9, <1>10, <1>12, <1>13, <2>1, <2>2, <2>3 DEF Underway
<1>17. CallGood(c, call[c])'
  BY <1>1, <1>13, <1>14, <1>16 DEF CallGood
<1> QED  BY <1>12, <1>17, CallStepPreserves

\* A concatenation consists of the elements of its parts, and of all of them.
LEMMA BothPartsOnly ==
    ASSUME NEW s \in Seq(Results), NEW u \in Seq(Results)
    PROVE  /\ s \o u \in Seq(Results)
           /\ \A i \in DOMAIN (s \o u) : \/ \E j \in DOMAIN s : (s \o u)[i] = s[j]
                                         \/ \E j \in DOMAIN u : (s \o u)[i] = u[j]
           /\ \A j \in DOMAIN s : \E i \in DOMAIN (s \o u) : (s \o u)[i] = s[j]
           /\ \A j \in DOMAIN u : \E i \in DOMAIN (s \o u) : (s \o u)[i] = u[j]
<1> DEFINE w == s \o u
           m == Len(s)
           n == Len(u)
<1>1. /\ w \in Seq(Results)
      /\ Len(w) = m + n
      /\ \A i \in 1..(m + n) : w[i] = IF i <= m THEN s[i] ELSE u[i - m]
  BY ConcatProperties
<1>2. DOMAIN s = 1..m /\ DOMAIN u = 1..n /\ m \in Nat /\ n \in Nat
  OBVIOUS
<1>3. DOMAIN w = 1..(m + n)
  BY <1>1
<1> HIDE DEF w, m, n
<1>4. \A i \in 1..m : i \in DOMAIN w /\ w[i] = s[i]
  BY <1>1, <1>2, <1>3
<1>5. \A i \in (m + 1)..(m + n) : w[i] = u[i - m] /\ i - m \in 1..n
  BY <1>1, <1>2
<1>6. \A i \in 1..(m + n) : i \in 1..m \/ i \in (m + 1)..(m + n)
  BY <1>2
<1>7. \A i \in DOMAIN w : \/ \E j \in DOMAIN s : w[i] = s[j]
                          \/ \E j \in DOMAIN u : w[i] = u[j]
  BY <1>2, <1>3, <1>4, <1>5, <1>6
<1>8. \A j \in DOMAIN u : \E i \in DOMAIN w : w[i] = u[j]
  <2>1. \A j \in 1..n : j + m \in (m + 1)..(m + n) /\ j + m \in 1..(m + n) /\ (j + m) - m = j
    BY <1>2
  <2> QED  BY <1>2, <1>3, <1>5, <2>1
<1> QED  BY <1>1, <1>2, <1>4, <1>7, <1>8 DEF w

\* What holds of all elements of two lists holds of their concatenation.
LEMMA BothParts ==
    ASSUME NEW c, NEW since, NEW s \in Seq(Results), NEW u \in Seq(Results),
           \A i \in DOMAIN s : Got(c, since, s[i]),
           \A i \in DOMAIN u : Got(c, since, u[i])
    PROVE  s \o u \in Seq(Results) /\ \A i \in DOMAIN (s \o u) : Got(c, since, (s \o u)[i])
BY BothPartsOnly

LEMMA AssetsOfBothParts ==
    ASSUME NEW s \in Seq(Results), NEW u \in Seq(Results)
    PROVE  AssetsOf(s \o u) = AssetsOf(s) \cup AssetsOf(u)
<1>1. AssetsOf(s \o u) \subseteq AssetsOf(s) \cup AssetsOf(u)
  BY BothPartsOnly DEF AssetsOf
<1>2. ASSUME NEW a \in AssetsOf(s) PROVE a \in AssetsOf(s \o u)
  <2>1. PICK j \in DOMAIN s : a = s[j].asset
    BY DEF AssetsOf
  <2>2. PICK i \in DOMAIN (s \o u) : (s \o u)[i] = s[j]
    BY BothPartsOnly
  <2> QED  BY <2>1, <2>2 DEF AssetsOf
<1>3. ASSUME NEW a \in AssetsOf(u) PROVE a \in AssetsOf(s \o u)
  <2>1. PICK j \in DOMAIN u : a = u[j].asset
    BY DEF AssetsOf
  <2>2. PICK i \in DOMAIN (s \o u) : (s \o u)[i] = u[j]
    BY BothPartsOnly
  <2> QED  BY <2>1, <2>2 DEF AssetsOf
<1> QED  BY <1>1, <1>2, <1>3

LEMMA ReceivePreserves ==
    ASSUME IInv, NEW c \in Callers, Receive(c)
    PROVE  IInv'
<1>1. CallGood(c, call[c]) /\ call[c].pc = "waiting" /\ call[c].reply # Nothing
         /\ call = [d \in Callers |-> call[d]]
  BY DEF IInv, Receive
<1>2. Shaped(call[c]) /\ Underway(c, call[c])
  BY <1>1 DEF CallGood
<1> DEFINE rest == Without(call[c].todo)
           got == call[c].fresh \o call[c].reply
           pc == IF rest = <<>> THEN "storing" ELSE "waiting"
<1>3. /\ rest \in Seq(Assets)
      /\ Range(call[c].todo) \subseteq Range(NextBatch(call[c].todo)) \cup Range(rest)
  BY <1>2, BatchLists DEF Shaped
<1>4. call[c].fresh \in Seq(Results) /\ call[c].reply \in Seq(Results)
  BY <1>1, <1>2 DEF Shaped
<1>5. /\ got \in Seq(Results)
      /\ \A i \in DOMAIN got : Got(c, call[c].since, got[i])
      /\ AssetsOf(got) = AssetsOf(call[c].fresh) \cup AssetsOf(call[c].reply)
  <2>1. /\ \A i \in DOMAIN call[c].fresh : Got(c, call[c].since, call[c].fresh[i])
        /\ \A i \in DOMAIN call[c].reply : Got(c, call[c].since, call[c].reply[i])
    BY <1>1, <1>2 DEF Underway
  <2>2. /\ got \in Seq(Results)
        /\ \A i \in DOMAIN got : Got(c, call[c].since, got[i])
    BY <1>4, <2>1, BothParts
  <2>3. AssetsOf(got) = AssetsOf(call[c].fresh) \cup AssetsOf(call[c].reply)
    BY <1>4, AssetsOfBothParts
  <2> QED  BY <2>2, <2>3
<1>6. call' = [call EXCEPT ![c].fresh = got, ![c].reply = Nothing, ![c].todo = rest,
                           ![c].pc = pc]
  BY DEF Receive
<1> HIDE DEF rest, got
<1>7. call'[c] = [call[c] EXCEPT !.fresh = got, !.reply = Nothing, !.todo = rest, !.pc = pc]
          /\ UNCHANGED cacheVars /\ UNCHANGED <<clock, server, invalidated>>
          /\ Moves(c)
  BY <1>1, <1>6 DEF Receive, Moves
<1>8. pc \in {"storing", "waiting"} /\ (pc = "storing" => rest = <<>>)
  OBVIOUS
<1> HIDE DEF pc
<1>9. call'[c] = [pc |-> pc, ids |-> call[c].ids, allowed |-> call[c].allowed,
                   found |-> call[c].found, todo |-> rest, reply |-> Nothing,
                   fresh |-> got, since |-> call[c].since,
                   silent |-> call[c].silent, items |-> call[c].items]
  BY <1>2, <1>7 DEF Shaped
<1>10. Shaped(call[c])'
  BY <1>2, <1>3, <1>5, <1>8, <1>9 DEF Shaped, Pcs
<1>11. Underway(c, call[c])'
  <2>1. \A r : Got(c, call[c].since, r) => Got(c, call[c].since, r)'
    BY <1>7, <1>9 DEF Got, Sound
  <2>2. \A a, h : InHand(c, call[c].since, a, h) => InHand(c, call[c].since, a, h)'
    BY <1>7, <1>9 DEF InHand, Waited
  <2>3. Complete(call'[c])
    <3>1. Complete(call[c])
      BY <1>2 DEF Underway
    <3> QED  BY <1>1, <1>3, <1>5, <1>8, <1>9, <3>1 DEF Complete
  <2>4. Complete(call[c])'
    BY <2>3 DEF Complete
  <2> QED  BY <1>2, <1>5, <1>7, <1>9, <2>1, <2>2, <2>4 DEF Underway
<1>12. CallGood(c, call[c])'
  BY <1>8, <1>9, <1>10, <1>11 DEF CallGood
<1> QED  BY <1>7, <1>12, CallStepPreserves

\* What call[c] becomes is as good after the step as it was before.
LEMMA BecomesGood ==
    ASSUME NEW c, NEW STATE r, CallGood(c, r), call'[c] = r,
           UNCHANGED <<clock, server, invalidated>>
    PROVE  CallGood(c, call[c])'
<1>1. Shaped(call[c])'
  BY DEF CallGood, Shaped
<1>2. \A x, since : Got(c, since, x) => Got(c, since, x)'
  BY DEF Got, Sound
<1>3. \A a, now, h : InHand(c, now, a, h) => InHand(c, now, a, h)'
  BY DEF InHand, Waited
<1>4. Underway(c, r) => Underway(c, call[c])'
  BY <1>2, <1>3 DEF Underway, Complete
<1>5. ItemsGood(c, r) => ItemsGood(c, call[c])'
  BY <1>3 DEF ItemsGood, Holding
<1> QED  BY <1>1, <1>4, <1>5 DEF CallGood

\* A live entry makes a hit of the lookup that finds it.
LEMMA EntryMakesHit ==
    ASSUME IInv, NEW c \in Callers, NEW t \in Tenants, t = ClientTenant[c],
           NEW ids, NEW k \in Cache!Hits(t, ids)
    PROVE  InHand(c, clock, k[2], Looked(entries[k]))
<1> DEFINE e == entries[k]
           h == Looked(e)
<1>1. /\ k \in DOMAIN entries /\ k[1] = t
      /\ e.result \in Results
      /\ e.result.asset = k[2]
      /\ e.storedAt \in Nat /\ clock \in Nat
      /\ e.storedAt <= clock
      /\ \A x \in e.result.expiries :
            /\ TicksPerSecond * x \in Nat
            /\ clock + SafetyMargin < e.storedAt + TicksPerSecond * x
  BY HitFacts DEF IInv
<1>2. EntryGood(k, e)
  BY <1>1 DEF IInv
<1>3. e.result.expiries = {Lifetime} /\ e.result.tenant = t
         /\ e.result.issued <= e.storedAt
  BY <1>1, <1>2 DEF EntryGood, Sound
<1>4. e.result.issued \in Nat
  BY <1>1 DEF Results
<1>5. /\ h.result = e.result
      /\ h.elapsed \in Nat
      /\ Waited(h) >= clock - e.storedAt
      /\ Waited(h) \in Nat
      /\ h.latency = e.storedAt - e.result.issued
  <2> DEFINE age == clock - e.storedAt
  <2>1. age \in Nat
    BY <1>1
  <2>2. Cache!Elapsed(age) \in Nat /\ TicksPerSecond * Cache!Elapsed(age) >= age
    <3> HIDE DEF age
    <3> QED  BY <2>1, ElapsedCovers
  <2>3. h.result = e.result /\ h.elapsed = Cache!Elapsed(age)
           /\ h.latency = e.storedAt - e.result.issued
    BY DEF Looked
  <2> HIDE DEF h, age, e
  <2>4. Waited(h) = TicksPerSecond * Cache!Elapsed(age)
    BY <2>3 DEF Waited
  <2> QED  BY <2>2, <2>3, <2>4, ProductTypes DEF age
<1>6. clock + SafetyMargin < e.storedAt + LinkTicks
  BY <1>1, <1>3 DEF LinkTicks
<1>7. SafetyMargin \in Nat /\ LinkTicks \in Nat
  BY ResolveConstants, ProductTypes
<1> HIDE DEF h, e
<1>8. /\ h.latency \in Nat
      /\ clock <= e.result.issued + h.latency + Waited(h)
      /\ clock + SafetyMargin < e.result.issued + h.latency + LinkTicks
  BY <1>1, <1>3, <1>4, <1>5, <1>6, <1>7
<1>9. InHand(c, clock, k[2], h)
  BY <1>1, <1>3, <1>5, <1>8 DEF InHand
<1> QED  BY <1>9 DEF h, e

LEMMA ResolvePreserves ==
    ASSUME IInv, NEW c \in Callers, NEW ids \in IdRequests, Resolve(c, ids)
    PROVE  IInv'
<1>1. PICK allowed \in SUBSET Range(ids) :
         LET asked == ToResolve(ids, allowed)
             t == ClientTenant[c]
             found == [a \in {k[2] : k \in Cache!Hits(t, asked)} |-> Looked(entries[<<t, a>>])]
             todo == Only(asked, Assets \ DOMAIN found)
             begun == [Idle EXCEPT !.pc = "waiting", !.ids = ids, !.allowed = allowed,
                                   !.found = found, !.todo = todo, !.since = clock]
         IN  /\ Cache!GetMany(t, asked)
             /\ call' = [call EXCEPT ![c] = IF todo = <<>> THEN Returned(begun, found)
                                                           ELSE begun]
  BY DEF Resolve
<1> DEFINE asked == ToResolve(ids, allowed)
           t == ClientTenant[c]
           found == [a \in {k[2] : k \in Cache!Hits(t, asked)} |-> Looked(entries[<<t, a>>])]
           todo == Only(asked, Assets \ DOMAIN found)
           begun == [Idle EXCEPT !.pc = "waiting", !.ids = ids, !.allowed = allowed,
                                 !.found = found, !.todo = todo, !.since = clock]
           next == IF todo = <<>> THEN Returned(begun, found) ELSE begun
<1>2. ids \in Seq(Assets)
  BY ResolveConstants
<1>3. asked \in Seq(Assets) /\ Range(ids) \cap allowed \subseteq Range(asked)
  BY <1>2, AllowedAreResolved
<1>4. t \in Tenants
  BY ResolveConstants DEF Tenants
<1>5. clock \in Nat /\ CP!IInv /\ call = [d \in Callers |-> call[d]]
  BY DEF IInv, CP!IInv, CP!TypeOK
<1>6. \A a \in DOMAIN found : InHand(c, clock, a, found[a])
  <2> SUFFICES ASSUME NEW a \in DOMAIN found PROVE InHand(c, clock, a, found[a])
    OBVIOUS
  <2>1. PICK k \in Cache!Hits(t, asked) : a = k[2]
    OBVIOUS
  <2>2. k = <<t, a>>
    BY <1>4, <1>5, <2>1, HitFacts
  <2>3. InHand(c, clock, k[2], Looked(entries[k]))
    BY <1>4, <2>1, EntryMakesHit
  <2>4. found[a] = Looked(entries[k])
    BY <2>2
  <2> QED  BY <2>1, <2>3, <2>4
<1>7. Cache!GetMany(t, asked)
  BY <1>1
<1>8. call' = [call EXCEPT ![c] = next]
  BY <1>1
<1>9. UNCHANGED <<server, invalidated>>
  BY DEF Resolve
<1>10. todo \in Seq(Assets) /\ Range(asked) \subseteq DOMAIN found \cup Range(todo)
  <2>1. Range(asked) \subseteq Assets
    BY <1>3 DEF Range
  <2> HIDE DEF asked, found
  <2>2. todo \in Seq(Assets) /\ Range(asked) \cap (Assets \ DOMAIN found) \subseteq Range(todo)
    BY <1>3, OnlyLists
  <2> QED  BY <2>1, <2>2
<1> HIDE DEF asked, t, found, todo
<1>11. /\ CP!IInv' /\ clock' = clock
       /\ \A k \in DOMAIN entries' : k \in DOMAIN entries /\ entries'[k] = entries[k]
  BY <1>3, <1>4, <1>5, <1>7, LookupStep
<1>12. begun = [pc |-> "waiting", ids |-> ids, allowed |-> allowed, found |-> found,
                todo |-> todo, reply |-> Nothing, fresh |-> <<>>, since |-> clock,
                silent |-> {}, items |-> None]
  <2> DEFINE w == begun
  <2>1. w = [Idle EXCEPT !.pc = "waiting", !.ids = ids, !.allowed = allowed,
                         !.found = found, !.todo = todo, !.since = clock]
    OBVIOUS
  <2> HIDE DEF w
  <2>2. w = [pc |-> "waiting", ids |-> ids, allowed |-> allowed, found |-> found,
             todo |-> todo, reply |-> Nothing, fresh |-> <<>>, since |-> clock,
             silent |-> {}, items |-> None]
    BY <2>1 DEF Idle
  <2> QED  BY <2>2 DEF w
<1> HIDE DEF begun
<1>13. Shaped(begun)
  <2>1. <<>> \in Seq(Results)
    OBVIOUS
  <2> QED  BY <1>2, <1>10, <1>12, <2>1 DEF Shaped, Pcs
<1>14. CallGood(c, begun)
  <2>1. DOMAIN <<>> = {}
    OBVIOUS
  <2>2. Complete(begun)
    BY <1>3, <1>10, <1>12 DEF Complete
  <2>3. Underway(c, begun)
    BY <1>5, <1>6, <1>12, <2>1, <2>2 DEF Underway
  <2> QED  BY <1>12, <1>13, <2>3 DEF CallGood
<1>15. todo = <<>> => CallGood(c, Returned(begun, found))
  <2> SUFFICES ASSUME todo = <<>> PROVE CallGood(c, Returned(begun, found))
    OBVIOUS
  <2>1. Range(todo) = {}
    BY DEF Range
  <2>2. begun.since = clock /\ Range(begun.ids) \cap begun.allowed \subseteq DOMAIN found
    BY <1>3, <1>10, <1>12, <2>1
  <2> QED  BY <1>5, <1>6, <1>13, <2>2, ReturnedGood
<1>16. CallGood(c, next)
  BY <1>14, <1>15
<1> HIDE DEF next
<1>17. call'[c] = next /\ Moves(c)
  BY <1>5, <1>8, <1>9, <1>11 DEF Moves
<1>18. CallGood(c, call[c])'
  BY <1>9, <1>11, <1>16, <1>17, BecomesGood
<1>19. \A k \in DOMAIN entries' : EntryGood(k, entries[k])'
  BY <1>9, <1>11, GoodEntriesStay DEF IInv
<1> QED  BY <1>11, <1>17, <1>18, <1>19, MovesPreserve

LEMMA StorePreserves ==
    ASSUME IInv, NEW c \in Callers, Store(c)
    PROVE  IInv'
<1> DEFINE t == ClientTenant[c]
           fresh == call[c].fresh
           found == call[c].found
           since == call[c].since
           next == Returned(call[c], WithFresh(found, fresh))
<1>1. CallGood(c, call[c]) /\ call[c].pc = "storing" /\ call = [d \in Callers |-> call[d]]
         /\ CP!IInv /\ clock \in Nat
  BY DEF IInv, Store, CP!IInv, CP!TypeOK
<1>2. Shaped(call[c]) /\ Underway(c, call[c])
  BY <1>1 DEF CallGood
<1>3. fresh \in Seq(Results)
  BY <1>2 DEF Shaped
<1>4. /\ since \in Nat /\ since <= clock
      /\ \A a \in DOMAIN found : InHand(c, since, a, found[a])
      /\ \A i \in DOMAIN fresh : Got(c, since, fresh[i])
      /\ Range(call[c].ids) \cap call[c].allowed
            \subseteq DOMAIN found \cup AssetsOf(fresh) \cup call[c].silent
  <2>1. call[c].todo = <<>> /\ Range(call[c].todo) = {}
    BY <1>1, <1>2 DEF Underway, Complete, Range
  <2> QED  BY <1>2, <2>1 DEF Underway, Complete
<1>5. Cache!PutMany(t, fresh) /\ call' = [call EXCEPT ![c] = next]
         /\ UNCHANGED <<server, invalidated>>
  BY DEF Store
<1>6. t \in Tenants
  BY ResolveConstants DEF Tenants
<1> HIDE DEF t, fresh, found, since
<1>7. /\ CP!IInv' /\ clock' = clock
      /\ \A k \in DOMAIN entries' :
            \/ k \in DOMAIN entries /\ entries'[k] = entries[k]
            \/ /\ k[1] = t
               /\ entries'[k].storedAt = clock
               /\ \E i \in DOMAIN fresh : entries'[k].result = fresh[i]
               /\ entries'[k].result.ready
  BY <1>1, <1>3, <1>5, <1>6, StoreStep
<1>8. \A a \in DOMAIN WithFresh(found, fresh) :
          InHand(c, since, a, WithFresh(found, fresh)[a])
  <2> SUFFICES ASSUME NEW a \in DOMAIN WithFresh(found, fresh)
               PROVE  InHand(c, since, a, WithFresh(found, fresh)[a])
    OBVIOUS
  <2>1. CASE \E i \in DOMAIN fresh : fresh[i].asset = a
    <3>1. WithFresh(found, fresh)[a] =
              [result |-> Cache!LastFor(fresh, a), elapsed |-> 0, latency |-> 0]
      BY <2>1 DEF WithFresh
    <3>2. a \in CP!Offered(fresh)
      BY <2>1 DEF CP!Offered
    <3>3. PICK n \in DOMAIN fresh : CP!LastFor(fresh, a) = fresh[n]
      BY <1>3, <3>2, CacheConstantsHold, CP!LastForIsOffered
    <3>4. fresh[n].asset = a
      BY <1>3, <3>2, <3>3, CacheConstantsHold, CP!LastForIsOffered
    <3>5. Cache!LastFor(fresh, a) = fresh[n]
      BY <3>3, SameLastFor
    <3>6. InHand(c, since, fresh[n].asset, [result |-> fresh[n], elapsed |-> 0, latency |-> 0])
      BY <1>4, GotInHand
    <3> QED  BY <3>1, <3>4, <3>5, <3>6
  <2>2. CASE ~\E i \in DOMAIN fresh : fresh[i].asset = a
    <3>1. a \in DOMAIN found /\ WithFresh(found, fresh)[a] = found[a]
      BY <2>2 DEF WithFresh
    <3> QED  BY <1>4, <3>1
  <2> QED  BY <2>1, <2>2
<1>9. CallGood(c, next)
  <2>1. DOMAIN WithFresh(found, fresh) = DOMAIN found \cup AssetsOf(fresh)
    BY DEF WithFresh, AssetsOf
  <2> HIDE DEF next
  <2>2. CallGood(c, Returned(call[c], WithFresh(found, fresh)))
    BY <1>1, <1>2, <1>4, <1>8, <2>1, ReturnedGood DEF since
  <2> QED  BY <2>2 DEF next
<1> HIDE DEF next
<1>10. call'[c] = next /\ Moves(c)
  BY <1>1, <1>5, <1>7 DEF Moves
<1>11. CallGood(c, call[c])'
  BY <1>5, <1>7, <1>9, <1>10, BecomesGood
<1>12. ASSUME NEW k \in DOMAIN entries' PROVE EntryGood(k, entries[k])'
  <2>1. CASE k \in DOMAIN entries /\ entries'[k] = entries[k]
    BY <1>5, <1>7, <2>1, GoodEntriesStay DEF IInv
  <2>2. CASE /\ k[1] = t
             /\ entries'[k].storedAt = clock
             /\ \E i \in DOMAIN fresh : entries'[k].result = fresh[i]
             /\ entries'[k].result.ready
    <3>1. PICK i \in DOMAIN fresh : entries'[k].result = fresh[i]
      BY <2>2
    <3>2. Got(c, since, fresh[i])
      BY <1>4
    <3>3. entries'[k].result.asset = k[2]
      BY <1>7 DEF CP!IInv, CP!LeasesHold
    <3>5. /\ fresh[i].tenant = k[1]
          /\ fresh[i].ready
          /\ fresh[i].issued <= clock
          /\ invalidated[k[2]].quiet => fresh[i].ver >= invalidated[k[2]].ver
      BY <2>2, <3>1, <3>2, <3>3 DEF Got, Sound, t
    <3>6. Sound(fresh[i])
      BY <3>2 DEF Got
    <3> QED  BY <1>5, <1>7, <2>2, <3>1, <3>5, <3>6 DEF EntryGood, Sound
  <2> QED  BY <1>7, <2>1, <2>2
<1> QED  BY <1>7, <1>10, <1>11, <1>12, MovesPreserve

LEMMA ChangeAssetPreserves ==
    ASSUME IInv, NEW a \in Assets, ChangeAsset(a)
    PROVE  IInv'
<1>1. PICK s \in {"ok", "not_found"} :
          server' = [server EXCEPT ![a] = [ver |-> @.ver + 1, status |-> s]]
  BY DEF ChangeAsset
<1>2. server[a].ver < MaxVersion /\ UNCHANGED cacheVars /\ UNCHANGED <<clock, call, invalidated>>
         /\ entries' = entries
  BY DEF ChangeAsset, cacheVars
<1>3. ServerTyped /\ MaxVersion \in Nat /\ CP!IInv
  BY ResolveConstants DEF IInv
<1>4. /\ ServerTyped'
      /\ \A b \in Assets : server[b].ver <= server'[b].ver
  <2>1. server[a].ver + 1 \in 0..MaxVersion /\ server[a].ver \in Nat
    BY <1>2, <1>3 DEF ServerTyped
  <2>2. \A b \in Assets : /\ server[b].ver \in Nat /\ invalidated[b].ver \in Nat
                          /\ invalidated[b].ver <= server[b].ver
    BY <1>3 DEF ServerTyped
  <2>3. \A b \in Assets : server'[b] = IF b = a THEN [ver |-> server[a].ver + 1, status |-> s]
                                                ELSE server[b]
    BY <1>1, <1>3 DEF ServerTyped
  <2>4. server' \in [Assets -> [ver: 0..MaxVersion, status: {"ok", "not_found"}]]
    BY <1>1, <1>3, <2>1 DEF ServerTyped
  <2>5. \A b \in Assets : server[b].ver <= server'[b].ver
    BY <2>2, <2>3
  <2>6. \A b \in Assets : invalidated[b].ver <= server'[b].ver
    BY <2>2, <2>3
  <2> QED  BY <1>2, <1>3, <2>4, <2>5, <2>6 DEF ServerTyped
<1>5. \A r : Sound(r) => Sound(r)'
  <2> SUFFICES ASSUME NEW r, Sound(r) PROVE Sound(r)'
    OBVIOUS
  <2>1. r \in Results /\ r.asset \in Assets /\ r.ver \in Nat
    BY DEF Sound, Results
  <2>2. server[r.asset].ver \in Nat /\ server'[r.asset].ver \in Nat
           /\ server[r.asset].ver <= server'[r.asset].ver
    BY <1>3, <1>4, <2>1 DEF ServerTyped
  <2>3. r.ver <= server'[r.asset].ver
    BY <2>1, <2>2 DEF Sound
  <2> QED  BY <1>2, <2>3 DEF Sound
<1>6. CP!IInv'
  BY <1>2, <1>3, CacheStays
<1>7. \A k \in DOMAIN entries' : EntryGood(k, entries[k])'
  BY <1>2, <1>5 DEF IInv, EntryGood
<1>8. \A c \in Callers : CallGood(c, call[c])'
  <2> SUFFICES ASSUME NEW c \in Callers PROVE CallGood(c, call[c])'
    OBVIOUS
  <2>1. CallGood(c, call[c])
    BY DEF IInv
  <2>2. \A r, since : Got(c, since, r) => Got(c, since, r)'
    BY <1>2, <1>5 DEF Got
  <2>3. Underway(c, call[c]) => Underway(c, call[c])'
    BY <1>2, <2>2 DEF Underway, Complete, InHand, Waited
  <2>4. ItemsGood(c, call[c]) => ItemsGood(c, call[c])'
    BY <1>2 DEF ItemsGood, Holding, InHand, Waited
  <2> QED  BY <1>2, <2>1, <2>3, <2>4 DEF CallGood, Shaped
<1> QED  BY <1>2, <1>4, <1>6, <1>7, <1>8 DEF IInv

LEMMA InvalidateAssetPreserves ==
    ASSUME IInv, NEW a \in Assets, InvalidateAsset(a)
    PROVE  IInv'
<1> DEFINE quiet == \A c \in Callers : ~InFlight(c)
<1>1. /\ Cache!Invalidate(a, NoTenant)
      /\ invalidated' = [invalidated EXCEPT ![a] = [ver |-> server[a].ver, quiet |-> quiet]]
      /\ UNCHANGED <<server, call>>
  BY DEF InvalidateAsset
<1>2. CP!IInv /\ ServerTyped
  BY DEF IInv
<1>3. /\ CP!IInv' /\ clock' = clock
      /\ \A k \in DOMAIN entries' : k \in DOMAIN entries /\ entries'[k] = entries[k] /\ k[2] # a
  BY <1>1, <1>2, InvalidateStep
<1>4. quiet \in BOOLEAN
  OBVIOUS
<1>5. /\ invalidated'[a] = [ver |-> server[a].ver, quiet |-> quiet]
      /\ \A b \in Assets \ {a} : invalidated'[b] = invalidated[b]
  BY <1>1, <1>2 DEF ServerTyped
<1>6. ServerTyped'
  <2> HIDE DEF quiet
  <2>1. \A b \in Assets : /\ server[b].ver \in 0..MaxVersion
                          /\ invalidated[b].ver <= server[b].ver
    BY <1>2 DEF ServerTyped
  <2>2. invalidated' \in [Assets -> [ver: 0..MaxVersion, quiet: BOOLEAN]]
    BY <1>1, <1>2, <1>4, <2>1 DEF ServerTyped
  <2>3. \A b \in Assets : invalidated'[b].ver <= server[b].ver
    BY <1>5, <2>1
  <2> QED  BY <1>1, <1>2, <2>2, <2>3 DEF ServerTyped
<1>7. \A r : Sound(r) => Sound(r)'
  BY <1>1, <1>3 DEF Sound
<1>8. ASSUME NEW k \in DOMAIN entries' PROVE EntryGood(k, entries[k])'
  <2>1. k \in DOMAIN entries /\ entries'[k] = entries[k] /\ k[2] # a
    BY <1>3
  <2>2. EntryGood(k, entries[k])
    BY <2>1 DEF IInv
  <2>3. k[2] \in Assets
    BY <1>2, <2>1 DEF CP!IInv, CP!TypeOK, CP!Keys
  <2>4. invalidated'[k[2]] = invalidated[k[2]]
    BY <1>5, <2>1, <2>3
  <2> QED  BY <1>7, <2>1, <2>2, <2>4 DEF EntryGood
<1>9. ASSUME NEW c \in Callers PROVE CallGood(c, call[c])'
  <2>1. CallGood(c, call[c]) /\ call'[c] = call[c]
    BY <1>1 DEF IInv
  <2>2. ItemsGood(c, call[c]) => ItemsGood(c, call[c])'
    BY <1>1, <1>3 DEF ItemsGood, Holding, InHand, Waited
  <2>3. ASSUME call[c].pc \in {"waiting", "storing"}, Underway(c, call[c])
        PROVE  Underway(c, call[c])'
    <3>1. ~quiet
      BY <2>3 DEF InFlight
    <3>2. ~invalidated'[a].quiet
      BY <1>5, <3>1
    <3>3. \A r, since : Got(c, since, r) => Got(c, since, r)'
      <4> SUFFICES ASSUME NEW r, NEW since, Got(c, since, r) PROVE Got(c, since, r)'
        OBVIOUS
      <4>1. r.asset \in Assets /\ Sound(r)'
        BY <1>7 DEF Got, Sound, Results
      <4>2. CASE r.asset = a
        BY <3>2, <4>1, <4>2 DEF Got
      <4>3. CASE r.asset # a
        BY <1>5, <4>1, <4>3 DEF Got
      <4> QED  BY <4>2, <4>3
    <3> QED  BY <1>1, <1>3, <2>3, <3>3 DEF Underway, Complete, InHand, Waited
  <2> QED  BY <2>1, <2>2, <2>3 DEF CallGood, Shaped
<1> QED  BY <1>1, <1>3, <1>6, <1>8, <1>9 DEF IInv

LEMMA TickPreserves ==
    ASSUME IInv, Tick
    PROVE  IInv'
<1>1. /\ CP!IInv' /\ clock \in Nat /\ clock < MaxTime /\ clock' = clock + 1
      /\ entries' = entries
      /\ UNCHANGED <<server, call, invalidated>>
  BY TickStep DEF IInv, Tick
<1>2. MaxTime \in Nat
  BY ResolveConstants
<1>3. \A r : Sound(r) => Sound(r)'
  <2> SUFFICES ASSUME NEW r, Sound(r) PROVE Sound(r)'
    OBVIOUS
  <2>1. r.issued \in Nat /\ r.issued <= clock
    BY DEF Sound, Results
  <2>2. r.issued <= clock'
    BY <1>1, <2>1
  <2> QED  BY <1>1, <2>2 DEF Sound
<1>4. ASSUME NEW k \in DOMAIN entries' PROVE EntryGood(k, entries[k])'
  BY <1>1, <1>3 DEF IInv, EntryGood
<1>5. ASSUME NEW c \in Callers PROVE CallGood(c, call[c])'
  <2>1. CallGood(c, call[c]) /\ call[c].pc # "done" /\ call'[c] = call[c]
    BY <1>1 DEF IInv, Tick
  <2>2. ASSUME call[c].pc \in {"waiting", "storing"}, Underway(c, call[c])
        PROVE  Underway(c, call[c])'
    <3>1. call[c].since <= clock'
      BY <1>1, <2>2 DEF Underway
    <3>2. \A r, since : Got(c, since, r) => Got(c, since, r)'
      BY <1>1, <1>3 DEF Got
    <3> QED  BY <1>1, <2>2, <3>1, <3>2 DEF Underway, Complete, InHand, Waited
  <2> QED  BY <2>1, <2>2 DEF CallGood, Shaped
<1>6. clock' <= MaxTime
  BY <1>1, <1>2
<1> QED  BY <1>1, <1>4, <1>5, <1>6 DEF IInv, ServerTyped

LEMMA InitIInv == Init => IInv
<1> SUFFICES ASSUME Init PROVE IInv
  OBVIOUS
<1>1. CP!IInv
  BY SameInit, CacheConstantsHold, CP!InitIInv DEF Init
<1>2. clock = 0 /\ DOMAIN entries = {}
  BY DEF Init, Cache!Init
<1>3. call = [c \in Callers |-> Idle]
  BY DEF Init
<1>4. \A c \in Callers : CallGood(c, call[c])
  BY <1>3, IdleGood
<1>5. ServerTyped
  BY ResolveConstants DEF Init, ServerTyped
<1> QED  BY <1>1, <1>2, <1>3, <1>4, <1>5, ResolveConstants DEF IInv

LEMMA StutterPreserves ==
    ASSUME IInv, UNCHANGED vars
    PROVE  IInv'
<1>1. UNCHANGED cacheVars /\ UNCHANGED <<clock, server, call, invalidated>> /\ entries' = entries
  BY DEF vars, cacheVars
<1>2. CP!IInv'
  BY <1>1, CacheStays DEF IInv
<1>3. \A k \in DOMAIN entries' : EntryGood(k, entries[k])'
  BY <1>1, GoodEntriesStay DEF IInv
<1>4. \A c \in Callers : CallGood(c, call[c])'
  BY <1>1, GoodCallsStay DEF IInv
<1> QED  BY <1>1, <1>2, <1>3, <1>4 DEF IInv, ServerTyped

LEMMA NextPreservesIInv == IInv /\ [Next]_vars => IInv'
<1> SUFFICES ASSUME IInv, [Next]_vars PROVE IInv'
  OBVIOUS
<1>1. ASSUME NEW c \in Callers, NEW ids \in IdRequests, Resolve(c, ids) PROVE IInv'
  BY <1>1, ResolvePreserves
<1>2. ASSUME NEW c \in Callers, ServerAnswers(c) PROVE IInv'
  BY <1>2, ServerAnswersPreserves
<1>3. ASSUME NEW c \in Callers, Receive(c) PROVE IInv'
  BY <1>3, ReceivePreserves
<1>4. ASSUME NEW c \in Callers, Store(c) PROVE IInv'
  BY <1>4, StorePreserves
<1>5. ASSUME NEW c \in Callers, Fail(c) \/ HandOver(c) PROVE IInv'
  BY <1>5, EndsPreserve
<1>6. ASSUME NEW a \in Assets, ChangeAsset(a) PROVE IInv'
  BY <1>6, ChangeAssetPreserves
<1>7. ASSUME NEW a \in Assets, InvalidateAsset(a) PROVE IInv'
  BY <1>7, InvalidateAssetPreserves
<1>8. CASE Tick
  BY <1>8, TickPreserves
<1>9. CASE UNCHANGED vars
  BY <1>9, StutterPreserves
<1> QED
  BY <1>1, <1>2, <1>3, <1>4, <1>5, <1>6, <1>7, <1>8, <1>9 DEF Next

LEMMA IInvHolds == Spec => []IInv
<1>1. IInv /\ [Next]_vars => IInv'
  BY NextPreservesIInv
<1> QED  BY InitIInv, <1>1, PTL DEF Spec

-----------------------------------------------------------------------------
(* The theorems. *)

(* An entry's result is of the entry's tenant, an item is made of a result   *)
(* for that id and that client's tenant, all its links only for allowed ids, *)
(* and no allowed id loses what was answered for it, in however many batches. *)
THEOREM ItemsAlwaysForTheCaller == Spec => []ItemsAreForTheCaller
<1>1. IInv => ItemsAreForTheCaller
  <2> SUFFICES ASSUME IInv PROVE ItemsAreForTheCaller
    OBVIOUS
  <2>1. \A k \in DOMAIN entries : entries[k].result.tenant = k[1]
    BY DEF IInv, EntryGood
  <2>2. \A c \in Callers : call[c].pc = "done" => ItemsGood(c, call[c])
    BY DEF IInv, CallGood
  <2>3. ASSUME NEW c \in Callers, call[c].pc = "done", NEW a \in Range(call[c].ids)
        PROVE  LET item == call[c].items[a]
               IN  \/ item.from = Nothing /\ item.links = "none"
                   \/ item.from.asset = a /\ item.from.tenant = ClientTenant[c]
    BY <2>2, <2>3 DEF ItemsGood, InHand, Holding
  <2> QED  BY <2>1, <2>2, <2>3 DEF ItemsAreForTheCaller, ItemsGood
<1> QED  BY IInvHolds, <1>1, PTL

\* What an item with links says about each of them.
LEMMA ItemFacts ==
    ASSUME IInv, NEW c \in Callers, call[c].pc = "done", NEW a \in Range(call[c].ids),
           call[c].items[a].links # "none", NEW e \in call[c].items[a].from.expiries
    PROVE  LET item == call[c].items[a]
           IN  /\ item.from.issued \in Nat
               /\ item.elapsed \in Nat /\ item.latency \in Nat /\ clock \in Nat
               /\ e = Lifetime
               /\ clock <= item.from.issued + item.latency + TicksPerSecond * item.elapsed
               /\ \/ clock + SafetyMargin < item.from.issued + item.latency + LinkTicks
                  \/ clock <= item.from.issued + item.latency
<1> DEFINE item == call[c].items[a]
           h == Holding(item)
<1>1. InHand(c, clock, a, h)
  BY DEF IInv, CallGood, ItemsGood
<1>2. h.result = item.from /\ h.elapsed = item.elapsed /\ h.latency = item.latency
  BY DEF Holding
<1>3. e \in item.from.expiries
  OBVIOUS
<1> HIDE DEF h, item
<1>4. item.from.issued \in Nat /\ item.from.expiries \in {{}, {Lifetime}}
  BY <1>1, <1>2 DEF InHand, Results
<1>5. clock \in Nat
  BY DEF IInv, CP!IInv, CP!TypeOK
<1>6. Waited(h) = TicksPerSecond * item.elapsed
  BY <1>2 DEF Waited
<1>7. /\ item.from.issued \in Nat
      /\ item.elapsed \in Nat /\ item.latency \in Nat /\ clock \in Nat
      /\ e = Lifetime
      /\ clock <= item.from.issued + item.latency + TicksPerSecond * item.elapsed
      /\ \/ clock + SafetyMargin < item.from.issued + item.latency + LinkTicks
         \/ clock <= item.from.issued + item.latency
  BY <1>1, <1>2, <1>3, <1>4, <1>5, <1>6 DEF InHand
<1> QED  BY <1>7 DEF item

(* A link works when it is handed over if the calls on its way, the one that *)
(* stored it and the one that returned it, took no longer than the margin,   *)
(* for margins and calls of any length.                                      *)
THEOREM LinksAlwaysLiveOnReturn == Spec => []LinksLiveOnReturn
<1>1. IInv => LinksLiveOnReturn
  <2> SUFFICES ASSUME IInv, NEW c \in Callers, call[c].pc = "done",
                      NEW a \in Range(call[c].ids), call[c].items[a].links # "none",
                      call[c].items[a].latency <= SafetyMargin,
                      NEW e \in call[c].items[a].from.expiries,
                      call[c].items[a].latency < TicksPerSecond * e
               PROVE  clock < call[c].items[a].from.issued + TicksPerSecond * e
    BY DEF LinksLiveOnReturn
  <2> DEFINE issued == call[c].items[a].from.issued
             latency == call[c].items[a].latency
  <2>1. /\ issued \in Nat /\ latency \in Nat /\ clock \in Nat /\ e = Lifetime
        /\ \/ clock + SafetyMargin < issued + latency + LinkTicks
           \/ clock <= issued + latency
    BY ItemFacts
  <2>2. SafetyMargin \in Nat /\ LinkTicks \in Nat
    BY ResolveConstants, ProductTypes
  <2>3. latency <= SafetyMargin /\ latency < LinkTicks
    BY <2>1 DEF LinkTicks
  <2> HIDE DEF issued, latency
  <2>4. clock < issued + LinkTicks
    BY <2>1, <2>2, <2>3
  <2> QED  BY <2>1, <2>4 DEF issued, LinkTicks
<1> QED  BY IInvHolds, <1>1, PTL

(* What a user is told is left of a link is more than what is left by at     *)
(* most the time the two calls on its way through the cache took.            *)
THEOREM ReportedAlwaysWithinLatency == Spec => []ReportedLongerByLatency
<1>1. IInv => ReportedLongerByLatency
  <2> SUFFICES ASSUME IInv, NEW c \in Callers, call[c].pc = "done",
                      NEW a \in Range(call[c].ids), call[c].items[a].links # "none",
                      NEW e \in call[c].items[a].from.expiries
               PROVE  LET item == call[c].items[a]
                      IN  TicksPerSecond * (e - item.elapsed)
                            <= item.from.issued + TicksPerSecond * e - clock + item.latency
    BY DEF ReportedLongerByLatency
  <2> DEFINE issued == call[c].items[a].from.issued
             elapsed == call[c].items[a].elapsed
             latency == call[c].items[a].latency
  <2>1. /\ issued \in Nat /\ elapsed \in Nat /\ latency \in Nat /\ clock \in Nat
        /\ e = Lifetime
        /\ clock <= issued + latency + TicksPerSecond * elapsed
    BY ItemFacts
  <2> HIDE DEF issued, elapsed, latency
  <2>2. TicksPerSecond \in Nat /\ e \in Nat
    BY <2>1, ResolveConstants
  <2>3. TicksPerSecond * (e - elapsed) = TicksPerSecond * e - TicksPerSecond * elapsed
    BY <2>1, <2>2
  <2>4. TicksPerSecond * e \in Nat /\ TicksPerSecond * elapsed \in Nat
    BY <2>1, <2>2
  <2>5. TicksPerSecond * (e - elapsed) <= issued + TicksPerSecond * e - clock + latency
    BY <2>1, <2>3, <2>4
  <2> QED  BY <2>5 DEF issued, elapsed, latency
<1> QED  BY IInvHolds, <1>1, PTL

(* What was invalidated while no call was under way is not in the cache, and *)
(* no later call brings it back.                                             *)
THEOREM QuietInvalidationsHold == Spec => []NoStaleAfterQuietInvalidate
<1>1. IInv => NoStaleAfterQuietInvalidate
  BY DEF IInv, EntryGood, NoStaleAfterQuietInvalidate
<1> QED  BY IInvHolds, <1>1, PTL
=============================================================================
