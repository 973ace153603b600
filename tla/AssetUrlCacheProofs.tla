------------------------ MODULE AssetUrlCacheProofs -------------------------
(* Proofs about AssetUrlCache, for every value of its constants. *)
EXTENDS AssetUrlCache, TLAPS, FiniteSetTheorems, WellFoundedInduction

-----------------------------------------------------------------------------
(* Facts about numbers and about the helpers. *)

(* Every nonempty set of naturals has its minimum among its elements. *)
LEMMA MinOfNaturals ==
    ASSUME NEW S \in SUBSET Nat, S # {}
    PROVE  /\ Min(S) \in S
           /\ \A y \in S : Min(S) <= y
<1>1. \E x \in S : \A y \in S : ~ (<<y, x>> \in OpToRel(<, Nat))
  BY NatLessThanWellFounded, WFMin
<1>2. \A x, y \in Nat : y < x => <<y, x>> \in OpToRel(<, Nat)
  BY Zenon DEF OpToRel
<1>3. \E x \in S : \A y \in S : ~ (y < x)
  BY <1>1, <1>2
<1>4. \E x \in S : \A y \in S : x <= y
  BY <1>3
<1> QED
  BY <1>4, Zenon DEF Min

(* Every nonempty set of positions has its maximum among its elements. *)
LEMMA MaxOfPositions ==
    ASSUME NEW n \in Nat, NEW S \in SUBSET (1..n), S # {}
    PROVE  /\ Max(S) \in S
           /\ \A y \in S : Max(S) >= y
<1> DEFINE D == {n - x : x \in S}
<1>1. \A x \in S : x \in Nat /\ n - x \in Nat
  OBVIOUS
<1>2. D \in SUBSET Nat /\ D # {}
  BY <1>1
<1>3. \E d \in D : \A e \in D : d <= e
  <2> HIDE DEF D
  <2> QED  BY <1>2, MinOfNaturals
<1>4. PICK x \in S : \A y \in S : n - x <= n - y
  BY <1>3
<1>5. \A y \in S : x >= y
  BY <1>1, <1>4
<1> QED
  BY <1>5, Zenon DEF Max

(* Rounding up: the elapsed seconds cover the age, by less than a second. *)
LEMMA ElapsedRoundsUp ==
    ASSUME NEW age \in Nat
    PROVE  /\ Elapsed(age) \in Nat
           /\ TicksPerSecond * Elapsed(age) >= age
           /\ TicksPerSecond * Elapsed(age) < age + TicksPerSecond
BY CacheConstants DEF Elapsed

(* A time to live is a number of ticks, and within the margin of each link. *)
LEMMA TtlWithinMargin ==
    ASSUME NEW r \in Results, TtlFor(r) # 0
    PROVE  /\ TtlFor(r) \in Nat
           /\ Cacheable(r)
           /\ \A e \in r.expiries :
                  TtlFor(r) + SafetyMargin <= TicksPerSecond * e
<1>1. /\ r.expiries \in SUBSET Nat
      /\ TicksPerSecond \in Nat /\ SafetyMargin \in Nat /\ DefaultTtl \in Nat
  BY CacheConstants
<1>2. CASE r.expiries = {}
  BY <1>1, <1>2 DEF TtlFor
<1>3. CASE r.expiries # {}
  <2>1. /\ Min(r.expiries) \in Nat
        /\ \A e \in r.expiries : e \in Nat /\ Min(r.expiries) <= e
    BY <1>1, <1>3, MinOfNaturals
  <2>2. Shortest(r) \in Nat
    BY <1>1, <2>1 DEF Shortest
  <2>3. \A e \in r.expiries : Shortest(r) <= TicksPerSecond * e
    BY <1>1, <2>1 DEF Shortest
  <2>4. Cacheable(r) /\ Shortest(r) > SafetyMargin
           /\ TtlFor(r) = Shortest(r) - SafetyMargin
    BY <1>3 DEF TtlFor
  <2>5. \A e \in r.expiries : TicksPerSecond * e \in Nat
    BY <1>1, <2>1
  <2> QED
    BY <1>1, <2>2, <2>3, <2>4, <2>5
<1> QED
  BY <1>2, <1>3

(* The deciding result of a batch for an asset it offers is one of the batch *)
(* and is about that asset.                                                  *)
LEMMA LastForIsOffered ==
    ASSUME NEW rs \in Batches, NEW a \in Offered(rs)
    PROVE  /\ LastFor(rs, a) \in Results
           /\ LastFor(rs, a).asset = a
           /\ \E n \in DOMAIN rs : LastFor(rs, a) = rs[n]
<1> DEFINE P == {i \in DOMAIN rs : rs[i].asset = a}
<1>1. rs \in Seq(Results)
  BY CacheConstants
<1>2. Len(rs) \in Nat /\ DOMAIN rs = 1..Len(rs)
  BY <1>1
<1>3. P \in SUBSET (1..Len(rs)) /\ P # {}
  BY <1>2 DEF Offered
<1>4. Max(P) \in P
  <2> HIDE DEF P
  <2> QED  BY <1>2, <1>3, MaxOfPositions
<1>5. LastFor(rs, a) = rs[Max(P)]
  BY DEF LastFor
<1>6. Max(P) \in DOMAIN rs /\ rs[Max(P)].asset = a /\ rs[Max(P)] \in Results
  BY <1>1, <1>2, <1>4
<1> HIDE DEF P
<1> QED
  BY <1>5, <1>6

(* What a batch stores are assets it offers. *)
LEMMA StoredAreOffered ==
    ASSUME NEW rs \in Batches
    PROVE  /\ Stored(rs) \subseteq Offered(rs)
           /\ Offered(rs) \subseteq Assets
<1>1. rs \in Seq(Results)
  BY CacheConstants
<1>2. \A i \in DOMAIN rs : rs[i] \in Results
  BY <1>1
<1> QED
  BY <1>2, CacheConstants DEF Stored, Offered

-----------------------------------------------------------------------------
(* What every method does to the entries: it keeps some of them, and         *)
(* put_many adds those of one tenant that were just stored.                  *)

(* Only the entries in "kept" are left, unchanged, and the index follows. *)
Keeps(kept) ==
    /\ kept \subseteq DOMAIN entries
    /\ DOMAIN entries' = kept
    /\ \A k \in kept : entries'[k] = entries[k]
    /\ older' \subseteq kept \X kept
    /\ tenantsByAsset' = Reindexed({}, (DOMAIN entries) \ kept)
    /\ sweepAt' = sweepAt
    /\ clock' = clock

(* The entries in "kept" are left: those of t just stored, others unchanged. *)
KeepsAndStores(t, rs, kept) ==
    LET added == {t} \X Stored(rs)
    IN  /\ kept \subseteq ((DOMAIN entries) \ ({t} \X Offered(rs))) \cup added
        /\ DOMAIN entries' = kept
        /\ \A k \in kept : entries'[k] = IF k \in added THEN Fresh(LastFor(rs, k[2]))
                                                       ELSE entries[k]
        /\ older' \subseteq kept \X kept
        /\ tenantsByAsset' = Reindexed(added, ((DOMAIN entries) \cup added) \ kept)
        /\ sweepAt' \in {sweepAt} \cup
               {Max({2 * Cardinality(S), MinSweepSize}) :
                   S \in SUBSET (DOMAIN entries \cup added)}
        /\ clock' = clock

LEMMA GetManyKeeps ==
    ASSUME TypeOK, NEW t \in Tenants, NEW ids \in IdLists, GetMany(t, ids)
    PROVE  \E kept : Keeps(kept)
<1> DEFINE asked == ({t} \X Range(ids)) \cap DOMAIN entries
           hits == Hits(t, ids)
           gone == asked \ hits
           kept == (DOMAIN entries) \ gone
<1>1. entries' = Restrict(entries, kept) /\ tenantsByAsset' = Reindexed({}, gone)
  BY DEF GetMany
<1>2. hits \subseteq asked /\ hits \subseteq kept
  BY DEF Hits
<1>3. gone = (DOMAIN entries) \ kept
  OBVIOUS
<1>4. older' = MovedToEnd(kept, hits, [k \in hits |-> LastPos(ids, k[2])])
  BY DEF GetMany
<1>5. older' \subseteq kept \X kept
  <2> HIDE DEF kept, hits
  <2> QED  BY <1>2, <1>4 DEF MovedToEnd, TypeOK
<1>6. sweepAt' = sweepAt /\ clock' = clock
  BY DEF GetMany
<1> HIDE DEF kept
<1> QED
  BY <1>1, <1>3, <1>5, <1>6 DEF Keeps, Restrict, gone, kept

LEMMA DropKeeps ==
    ASSUME TypeOK, NEW K, Drop(K), UNCHANGED <<sweepAt, clock>>
    PROVE  /\ Keeps((DOMAIN entries) \ K)
<1> DEFINE gone == K \cap DOMAIN entries
           kept == (DOMAIN entries) \ K
<1>1. kept = (DOMAIN entries) \ gone /\ gone = (DOMAIN entries) \ kept
  OBVIOUS
<1>2. /\ entries' = Restrict(entries, kept)
      /\ older' = {p \in older : {p[1], p[2]} \subseteq kept}
      /\ tenantsByAsset' = Reindexed({}, gone)
  BY <1>1 DEF Drop
<1>3. older' \subseteq kept \X kept
  BY <1>2 DEF TypeOK
<1> HIDE DEF kept, gone
<1>4. Keeps(kept)
  BY <1>1, <1>2, <1>3 DEF Keeps, Restrict
<1> QED
  BY <1>4 DEF kept

LEMMA PutManyKeepsAndStores ==
    ASSUME TypeOK, NEW t \in Tenants, NEW rs \in Batches, PutMany(t, rs)
    PROVE  \E kept : KeepsAndStores(t, rs, kept)
<1> DEFINE added == {t} \X Stored(rs)
           kept == Kept(t, rs)
<1>1. /\ entries' = Restrict(Put(t, rs), kept)
      /\ older' = {p \in OrderAfterPut(t, rs) : {p[1], p[2]} \subseteq kept}
      /\ tenantsByAsset' = Reindexed(added, ((DOMAIN entries) \cup added) \ kept)
      /\ sweepAt' \in {sweepAt, Max({2 * Cardinality(Swept(t, rs)), MinSweepSize})}
      /\ clock' = clock
  BY DEF PutMany
<1>2. /\ Swept(t, rs) \subseteq Filled(t, rs)
      /\ Filled(t, rs) = ((DOMAIN entries) \ ({t} \X Offered(rs))) \cup added
  BY DEF Swept, Filled
<1>3. kept \subseteq Swept(t, rs)
  BY DEF Kept, Youngest
<1> HIDE DEF kept, added
<1>4. older' \subseteq kept \X kept
  <2>1. OrderAfterPut(t, rs) \subseteq Swept(t, rs) \X Swept(t, rs)
    BY DEF OrderAfterPut, MovedToEnd, TypeOK
  <2> QED  BY <1>1, <2>1
<1>5. sweepAt' \in {sweepAt} \cup
            {Max({2 * Cardinality(S), MinSweepSize}) :
                S \in SUBSET ((DOMAIN entries) \cup added)}
  <2>1. Swept(t, rs) \in SUBSET ((DOMAIN entries) \cup added)
    BY <1>2
  <2> QED  BY <1>1, <2>1
<1>6. \A k \in kept : entries'[k] = IF k \in added THEN Fresh(LastFor(rs, k[2]))
                                                  ELSE entries[k]
  <2>1. \A k \in kept : entries'[k] = Put(t, rs)[k]
    BY <1>1 DEF Restrict
  <2>2. \A k \in Filled(t, rs) :
            Put(t, rs)[k] = IF k \in added THEN Fresh(LastFor(rs, k[2])) ELSE entries[k]
    BY DEF Put, added
  <2> QED  BY <1>2, <1>3, <2>1, <2>2
<1>7. DOMAIN entries' = kept
  BY <1>1 DEF Restrict
<1>8. KeepsAndStores(t, rs, kept)
  <2>1. kept \subseteq ((DOMAIN entries) \ ({t} \X Offered(rs))) \cup added
    BY <1>2, <1>3
  <2> QED  BY <1>1, <1>4, <1>5, <1>6, <1>7, <2>1 DEF KeepsAndStores, added
<1> QED
  BY <1>8

(* The index after a step lists the tenants of the keys that are left. *)
LEMMA ReindexedIsExact ==
    ASSUME TypeOK, IndexMatchesEntries, NEW added \in SUBSET Keys, NEW dropped,
           NEW a \in Assets
    PROVE  Reindexed(added, dropped)[a] =
               {t \in Tenants : <<t, a>> \in ((DOMAIN entries) \cup added) \ dropped}
BY DEF Reindexed, IndexMatchesEntries, TypeOK

LEMMA ReindexedType ==
    ASSUME TypeOK, NEW added, NEW dropped
    PROVE  Reindexed(added, dropped) \in [Assets -> SUBSET Tenants]
BY DEF Reindexed, TypeOK

(* A batch stores finitely many keys. *)
LEMMA StoredKeysFinite ==
    ASSUME NEW t \in Tenants, NEW rs \in Batches
    PROVE  /\ {t} \X Stored(rs) \in SUBSET Keys
           /\ IsFiniteSet({t} \X Stored(rs))
<1> DEFINE f == [i \in DOMAIN rs |-> <<t, rs[i].asset>>]
<1>1. IsFiniteSet(DOMAIN rs)
  <2>1. rs \in Seq(Results)
    BY CacheConstants
  <2>2. Len(rs) \in Nat /\ DOMAIN rs = 1..Len(rs)
    BY <2>1
  <2> QED  BY <2>2, FS_Interval
<1>2. IsFiniteSet({f[i] : i \in DOMAIN rs})
  <2> DEFINE T == {f[i] : i \in DOMAIN rs}
  <2>1. f \in Surjection(DOMAIN rs, T)
    BY DEF Surjection
  <2>2. IsFiniteSet(T)
    <3> HIDE DEF f, T
    <3> QED  BY <1>1, <2>1, FS_Surjection
  <2> QED  BY <2>2
<1>3. {t} \X Stored(rs) \subseteq {f[i] : i \in DOMAIN rs}
  BY StoredAreOffered DEF Offered
<1> QED
  BY <1>2, <1>3, FS_Subset, StoredAreOffered DEF Keys

(* The size that triggers the next sweep stays a natural number. *)
LEMMA NextSweepType ==
    ASSUME NEW S, IsFiniteSet(S)
    PROVE  Max({2 * Cardinality(S), MinSweepSize}) \in Nat
<1> DEFINE m == 2 * Cardinality(S)
           P == {m, MinSweepSize}
<1>1. m \in Nat /\ MinSweepSize \in Nat
  BY FS_CardinalityType, CacheConstants
<1>2. \E x \in P : \A y \in P : x >= y
  <2> HIDE DEF m
  <2> QED  BY <1>1
<1>3. Max(P) \in P
  <2> HIDE DEF P
  <2> QED  BY <1>2, Zenon DEF Max
<1> QED
  BY <1>1, <1>3

(* The strengthening of the lease properties: every entry is filed under its *)
(* result's asset, was stored in the past, and ends SafetyMargin before each *)
(* of its links does.                                                        *)
LeasesHold ==
    \A k \in DOMAIN entries :
        /\ entries[k].result.asset = k[2]
        /\ entries[k].storedAt <= clock
        /\ \A e \in entries[k].result.expiries :
               entries[k].expiresAt + SafetyMargin
                   <= entries[k].storedAt + TicksPerSecond * e

IInv == TypeOK /\ IndexMatchesEntries /\ LeasesHold

LEMMA KeepsPreserves ==
    ASSUME IInv, NEW kept, Keeps(kept)
    PROVE  IInv'
<1>1. TypeOK'
  <2>1. IsFiniteSet(kept)
    BY FS_Subset DEF Keeps, IInv, TypeOK
  <2>2. tenantsByAsset' \in [Assets -> SUBSET Tenants]
    BY ReindexedType DEF Keeps, IInv
  <2> QED  BY <2>1, <2>2 DEF Keeps, IInv, TypeOK
<1>2. IndexMatchesEntries'
  <2> SUFFICES ASSUME NEW a \in Assets
               PROVE  tenantsByAsset'[a] = {t \in Tenants : <<t, a>> \in DOMAIN entries'}
    BY DEF IndexMatchesEntries, Tenants
  <2>1. tenantsByAsset'[a] =
            {t \in Tenants : <<t, a>> \in ((DOMAIN entries) \cup {}) \ ((DOMAIN entries) \ kept)}
    BY ReindexedIsExact DEF Keeps, IInv
  <2> QED  BY <2>1 DEF Keeps
<1>3. LeasesHold'
  BY DEF Keeps, IInv, LeasesHold
<1> QED
  BY <1>1, <1>2, <1>3 DEF IInv

(* An entry cut from the deciding result of a batch. *)
LEMMA FreshEntry ==
    ASSUME TypeOK, NEW t \in Tenants, NEW rs \in Batches,
           NEW k \in {t} \X Stored(rs)
    PROVE  LET e == Fresh(LastFor(rs, k[2]))
           IN  /\ e \in Entry
               /\ e.result = LastFor(rs, k[2])
               /\ e.result \in Results
               /\ Cacheable(e.result)
               /\ e.result.asset = k[2]
               /\ e.storedAt = clock
               /\ e.expiresAt > clock
               /\ \A x \in e.result.expiries :
                      e.expiresAt + SafetyMargin <= clock + TicksPerSecond * x
<1> DEFINE r == LastFor(rs, k[2])
<1>1. k[2] \in Stored(rs) /\ k[2] \in Offered(rs)
  BY StoredAreOffered
<1>2. r \in Results /\ r.asset = k[2]
  BY <1>1, LastForIsOffered
<1>3. TtlFor(r) # 0
  BY <1>1 DEF Stored
<1>4. /\ TtlFor(r) \in Nat
      /\ Cacheable(r)
      /\ \A x \in r.expiries : TtlFor(r) + SafetyMargin <= TicksPerSecond * x
  BY <1>2, <1>3, TtlWithinMargin
<1>5. \A x \in r.expiries : TicksPerSecond * x \in Nat
  BY <1>2, CacheConstants
<1>6. clock \in Nat /\ SafetyMargin \in Nat
  BY CacheConstants DEF TypeOK
<1> HIDE DEF r
<1>7. Fresh(r) \in Entry /\ Fresh(r).expiresAt = clock + TtlFor(r)
         /\ Fresh(r).result = r /\ Fresh(r).storedAt = clock
  BY <1>2, <1>4, <1>6 DEF Fresh, Entry
<1>8. \A x \in r.expiries :
          clock + TtlFor(r) + SafetyMargin <= clock + TicksPerSecond * x
  BY <1>4, <1>5, <1>6
<1> QED
  BY <1>2, <1>3, <1>4, <1>6, <1>7, <1>8 DEF r

LEMMA KeepsAndStoresPreserves ==
    ASSUME IInv, NEW t \in Tenants, NEW rs \in Batches, NEW kept,
           KeepsAndStores(t, rs, kept)
    PROVE  IInv'
<1> DEFINE added == {t} \X Stored(rs)
<1>0. TypeOK /\ IndexMatchesEntries /\ LeasesHold
  BY DEF IInv
<1>1. /\ added \in SUBSET Keys
      /\ IsFiniteSet(added)
  BY StoredKeysFinite
<1>2. IsFiniteSet((DOMAIN entries) \cup added)
  BY <1>0, <1>1, FS_Union DEF TypeOK
<1>3. kept \subseteq (DOMAIN entries) \cup added /\ DOMAIN entries' = kept
  BY DEF KeepsAndStores
<1>4. \A k \in kept : \/ k \in added /\ entries'[k] = Fresh(LastFor(rs, k[2]))
                      \/ k \in DOMAIN entries /\ entries'[k] = entries[k]
  BY <1>3 DEF KeepsAndStores
<1>5. clock' = clock
  BY DEF KeepsAndStores
<1>6. TypeOK'
  <2>1. DOMAIN entries' \subseteq Keys /\ IsFiniteSet(DOMAIN entries')
    BY <1>0, <1>1, <1>2, <1>3, FS_Subset DEF TypeOK
  <2>2. \A k \in DOMAIN entries' : entries'[k] \in Entry
    BY <1>0, <1>3, <1>4, FreshEntry DEF TypeOK
  <2>3. older' \subseteq (DOMAIN entries') \X (DOMAIN entries')
    BY DEF KeepsAndStores
  <2>4. tenantsByAsset' \in [Assets -> SUBSET Tenants]
    BY <1>0, ReindexedType DEF KeepsAndStores
  <2>5. sweepAt' \in Nat
    <3>1. \A S \in SUBSET ((DOMAIN entries) \cup added) :
              Max({2 * Cardinality(S), MinSweepSize}) \in Nat
      BY <1>2, FS_Subset, NextSweepType
    <3>2. sweepAt' \in {sweepAt} \cup
             {Max({2 * Cardinality(S), MinSweepSize}) :
                 S \in SUBSET ((DOMAIN entries) \cup added)}
      BY DEF KeepsAndStores
    <3> QED  BY <1>0, <3>1, <3>2 DEF TypeOK
  <2> QED  BY <1>0, <1>5, <2>1, <2>2, <2>3, <2>4, <2>5 DEF TypeOK
<1>7. IndexMatchesEntries'
  <2> SUFFICES ASSUME NEW a \in Assets
               PROVE  tenantsByAsset'[a] = {u \in Tenants : <<u, a>> \in DOMAIN entries'}
    BY DEF IndexMatchesEntries, Tenants
  <2>1. tenantsByAsset'[a] =
            {u \in Tenants :
                <<u, a>> \in ((DOMAIN entries) \cup added)
                                \ (((DOMAIN entries) \cup added) \ kept)}
    <3>1. tenantsByAsset' = Reindexed(added, ((DOMAIN entries) \cup added) \ kept)
      BY DEF KeepsAndStores
    <3> HIDE DEF added
    <3> QED  BY <1>0, <1>1, <3>1, ReindexedIsExact
  <2> HIDE DEF added
  <2> QED  BY <1>3, <2>1
<1>8. LeasesHold'
  <2> SUFFICES ASSUME NEW k \in DOMAIN entries'
               PROVE  /\ entries'[k].result.asset = k[2]
                      /\ entries'[k].storedAt <= clock
                      /\ \A e \in entries'[k].result.expiries :
                             entries'[k].expiresAt + SafetyMargin
                                 <= entries'[k].storedAt + TicksPerSecond * e
    BY <1>5 DEF LeasesHold
  <2>1. CASE k \in added /\ entries'[k] = Fresh(LastFor(rs, k[2]))
    <3>1. clock \in Nat
      BY <1>0 DEF TypeOK
    <3> QED  BY <1>0, <2>1, <3>1, FreshEntry
  <2>2. CASE k \in DOMAIN entries /\ entries'[k] = entries[k]
    BY <1>0, <2>2 DEF LeasesHold
  <2> QED  BY <1>3, <1>4, <2>1, <2>2
<1> QED
  BY <1>6, <1>7, <1>8 DEF IInv

-----------------------------------------------------------------------------
(* The inductive invariant. *)

LEMMA InitIInv == Init => IInv
<1> SUFFICES ASSUME Init PROVE IInv
  OBVIOUS
<1>1. DOMAIN entries = {} /\ older = {} /\ clock = 0 /\ sweepAt = MinSweepSize
         /\ tenantsByAsset = [a \in Assets |-> {}]
  BY DEF Init
<1>2. TypeOK
  BY <1>1, FS_EmptySet, CacheConstants DEF TypeOK
<1> QED
  BY <1>1, <1>2 DEF IInv, IndexMatchesEntries, LeasesHold

LEMMA ClearPreserves ==
    ASSUME IInv, Clear
    PROVE  IInv'
<1>1. DOMAIN entries' = {} /\ older' = {} /\ clock' = clock /\ sweepAt' = MinSweepSize
         /\ tenantsByAsset' = [a \in Assets |-> {}]
  BY DEF Clear
<1>2. TypeOK'
  BY <1>1, FS_EmptySet, CacheConstants DEF IInv, TypeOK
<1> QED
  BY <1>1, <1>2 DEF IInv, IndexMatchesEntries, LeasesHold

LEMMA TickPreserves ==
    ASSUME IInv, Tick
    PROVE  IInv'
<1>1. UNCHANGED <<entries, older, tenantsByAsset, sweepAt>> /\ clock' = clock + 1
  BY DEF Tick, cacheVars
<1>2. clock \in Nat
  BY DEF IInv, TypeOK
<1>3. TypeOK'
  BY <1>1, <1>2 DEF IInv, TypeOK
<1>4. IndexMatchesEntries'
  BY <1>1 DEF IInv, IndexMatchesEntries
<1>5. LeasesHold'
  BY <1>1, <1>2 DEF IInv, LeasesHold, TypeOK, Entry
<1> QED
  BY <1>3, <1>4, <1>5 DEF IInv

LEMMA NextPreservesIInv == IInv /\ [Next]_vars => IInv'
<1> SUFFICES ASSUME IInv, [Next]_vars PROVE IInv'
  OBVIOUS
<1>0. TypeOK
  BY DEF IInv
<1>1. ASSUME NEW t \in Tenants, NEW ids \in IdLists, GetMany(t, ids)
      PROVE  IInv'
  BY <1>0, <1>1, GetManyKeeps, KeepsPreserves
<1>2. ASSUME NEW t \in Tenants, NEW rs \in Batches, PutMany(t, rs)
      PROVE  IInv'
  BY <1>0, <1>2, PutManyKeepsAndStores, KeepsAndStoresPreserves
<1>3. ASSUME NEW a \in Assets, NEW t \in Tenants, Invalidate(a, t)
      PROVE  IInv'
  BY <1>0, <1>3, DropKeeps, KeepsPreserves DEF Invalidate
<1>4. CASE Clear
  BY <1>4, ClearPreserves
<1>5. CASE Len_
  BY <1>0, <1>5, DropKeeps, KeepsPreserves DEF Len_
<1>6. CASE Tick
  BY <1>6, TickPreserves
<1>7. CASE UNCHANGED vars
  BY <1>7 DEF vars, IInv, TypeOK, IndexMatchesEntries, LeasesHold
<1> QED
  BY <1>1, <1>2, <1>3, <1>4, <1>5, <1>6, <1>7 DEF Next

LEMMA IInvHolds == Spec => []IInv
<1>1. IInv /\ [Next]_vars => IInv'
  BY NextPreservesIInv
<1> QED
  BY InitIInv, <1>1, PTL DEF Spec

-----------------------------------------------------------------------------
(* The theorems. *)

(* The cache's dictionaries keep their types: every entry is a result with   *)
(* the times it was stored and expires at, under a key of a tenant and asset. *)
THEOREM TypeCorrect == Spec => []TypeOK
<1>1. IInv => TypeOK
  BY DEF IInv
<1> QED
  BY IInvHolds, <1>1, PTL

(* The tenant index names exactly the tenants with an entry, whatever mix of *)
(* put_many, expiry, sweep, eviction and invalidate led here.                *)
THEOREM IndexAlwaysMatches == Spec => []IndexMatchesEntries
<1>1. IInv => IndexMatchesEntries
  BY DEF IInv
<1> QED
  BY IInvHolds, <1>1, PTL

(* What is left of the links of a live entry, before and after rounding. *)
LEMMA LinksOfLiveEntries ==
    ASSUME IInv, NEW k \in DOMAIN entries, IsLive(entries[k], clock),
           NEW e \in entries[k].result.expiries
    PROVE  LET age == clock - entries[k].storedAt
               left == entries[k].storedAt + TicksPerSecond * e - clock
           IN  /\ age \in Nat
               /\ e \in Nat
               /\ left > SafetyMargin
               /\ TicksPerSecond * (e - Elapsed(age)) <= left
               /\ SafetyMargin >= TicksPerSecond => e - Elapsed(age) > 0
<1> DEFINE stored == entries[k].storedAt
           ends == entries[k].expiresAt
           age == clock - stored
<1>1. /\ stored \in Nat /\ ends \in Nat /\ clock \in Nat
      /\ entries[k].result \in Results
  BY DEF IInv, TypeOK, Entry
<1>2. e \in Nat /\ TicksPerSecond \in Nat \ {0} /\ SafetyMargin \in Nat
  BY <1>1, CacheConstants
<1>3. stored <= clock /\ ends + SafetyMargin <= stored + TicksPerSecond * e
  BY DEF IInv, LeasesHold
<1>4. ends > clock
  BY DEF IsLive
<1> HIDE DEF stored, ends
<1>5. age \in Nat
  BY <1>1, <1>3
<1>6. /\ Elapsed(age) \in Nat
      /\ TicksPerSecond * Elapsed(age) >= age
      /\ TicksPerSecond * Elapsed(age) < age + TicksPerSecond
  BY <1>5, ElapsedRoundsUp
<1>7. TicksPerSecond * e \in Nat /\ TicksPerSecond * Elapsed(age) \in Nat
  BY <1>2, <1>6
<1>8. TicksPerSecond * (e - Elapsed(age)) =
          TicksPerSecond * e - TicksPerSecond * Elapsed(age)
  BY <1>2, <1>6
<1>9. stored + TicksPerSecond * e - clock > SafetyMargin
  BY <1>1, <1>2, <1>3, <1>4, <1>7
<1>10. TicksPerSecond * (e - Elapsed(age)) <= stored + TicksPerSecond * e - clock
  BY <1>1, <1>5, <1>6, <1>7, <1>8
<1>11. SafetyMargin >= TicksPerSecond => e - Elapsed(age) > 0
  <2> SUFFICES ASSUME SafetyMargin >= TicksPerSecond
               PROVE  e - Elapsed(age) > 0
    OBVIOUS
  <2>1. TicksPerSecond * (e - Elapsed(age)) > 0
    BY <1>1, <1>2, <1>6, <1>7, <1>8, <1>9
  <2> QED  BY <1>2, <1>6, <2>1
<1> QED
  BY <1>2, <1>5, <1>9, <1>10, <1>11 DEF stored

(* A hit never reports more than what is left of a link since it was stored, *)
(* and each link it carries has more than the safety margin left.            *)
THEOREM HitsStayWithinLease == Spec => []ReportedWithinLease
<1>1. IInv => ReportedWithinLease
  BY LinksOfLiveEntries DEF ReportedWithinLease
<1> QED
  BY IInvHolds, <1>1, PTL

(* With a safety margin of a second or more, no hit reports an expiring link *)
(* as one that does not expire.                                              *)
THEOREM ExpiringStaysExpiring ==
    ASSUME SafetyMargin >= TicksPerSecond
    PROVE  Spec => []ExpiringNeverReportedAsPermanent
<1>1. IInv => ExpiringNeverReportedAsPermanent
  BY LinksOfLiveEntries DEF ExpiringNeverReportedAsPermanent, Remaining
<1> QED
  BY IInvHolds, <1>1, PTL

(* invalidate without a tenant drops the asset for every tenant, with one it *)
(* drops that tenant's entry, and neither touches any other entry.           *)
THEOREM InvalidateExact == Spec => InvalidateIsExact
<1>1. ASSUME IInv, NEW a \in Assets, NEW t \in Tenants, Invalidate(a, t)
      PROVE  DOMAIN entries' = {k \in DOMAIN entries :
                                   k[2] # a \/ (t # NoTenant /\ k[1] # t)}
  <2>1. DOMAIN entries \subseteq Keys /\ TypeOK
    BY <1>1 DEF IInv, TypeOK
  <2>2. CASE t # NoTenant
    <3>1. Keeps((DOMAIN entries) \ {<<t, a>>})
      BY <1>1, <2>1, <2>2, DropKeeps DEF Invalidate
    <3> QED  BY <2>1, <2>2, <3>1 DEF Keeps, Keys
  <2>3. CASE t = NoTenant
    <3>1. Keeps((DOMAIN entries) \ (tenantsByAsset[a] \X {a}))
      BY <1>1, <2>1, <2>3, DropKeeps DEF Invalidate
    <3>2. tenantsByAsset[a] = {u \in Tenants : <<u, a>> \in DOMAIN entries}
      BY <1>1 DEF IInv, IndexMatchesEntries
    <3> QED  BY <2>1, <2>3, <3>1, <3>2 DEF Keeps, Keys
  <2> QED  BY <2>2, <2>3
<1>2. IInv /\ [Next]_vars =>
        [\A a \in Assets, t \in Tenants :
            Invalidate(a, t) =>
                DOMAIN entries' = {k \in DOMAIN entries :
                                      k[2] # a \/ (t # NoTenant /\ k[1] # t)}]_vars
  BY <1>1
<1> QED
  BY IInvHolds, <1>2, PTL DEF Spec, InvalidateIsExact

-----------------------------------------------------------------------------
(* Refinement: the cache implements the leases of LinkLeases. *)

LEMMA KeepsGrants ==
    ASSUME IInv, NEW kept, Keeps(kept)
    PROVE  Leases!Next
<1>1. NoTenant \in Tenants /\ kept \subseteq Keys
  BY DEF Tenants, Keeps, IInv, TypeOK
<1>2. Leases!Grant(NoTenant)
  BY <1>1 DEF Keeps, Leases!Grant, Leases!Keys, Keys
<1> QED
  BY <1>1, <1>2 DEF Leases!Next

LEMMA KeepsAndStoresGrants ==
    ASSUME IInv, NEW t \in Tenants, NEW rs \in Batches, NEW kept,
           KeepsAndStores(t, rs, kept)
    PROVE  Leases!Next
<1> DEFINE added == {t} \X Stored(rs)
<1>1. TypeOK
  BY DEF IInv
<1>2. DOMAIN entries' = kept /\ clock' = clock
         /\ kept \subseteq (DOMAIN entries) \cup added
  BY DEF KeepsAndStores
<1>3. DOMAIN entries' \subseteq Keys
  BY <1>1, <1>2, StoredKeysFinite DEF TypeOK
<1>4. ASSUME NEW k \in kept
      PROVE  \/ k \in DOMAIN entries /\ entries'[k] = entries[k]
             \/ k[1] = t /\ Leases!IsFreshLease(entries'[k], k[2])
  <2>1. CASE k \in added
    <3>1. entries'[k] = Fresh(LastFor(rs, k[2]))
      BY <1>4, <2>1 DEF KeepsAndStores
    <3> QED  BY <1>1, <2>1, <3>1, FreshEntry DEF Leases!IsFreshLease
  <2>2. CASE k \notin added
    BY <1>2, <1>4, <2>2 DEF KeepsAndStores
  <2> QED  BY <2>1, <2>2
<1>5. Leases!Grant(t)
  BY <1>2, <1>3, <1>4 DEF Leases!Grant, Leases!Keys, Keys
<1> QED
  BY <1>5 DEF Leases!Next

(* Every step of the cache is a step of the abstract leases: leases are only *)
(* ever cut from a result stored now, kept as they are, or forgotten.        *)
THEOREM CacheImplementsLeases == Spec => ImplementsLeases
<1>1. Init => Leases!Init
  BY DEF Init, Leases!Init
<1>2. IInv /\ [Next]_vars => [Leases!Next]_(Leases!vars)
  <2> SUFFICES ASSUME IInv, [Next]_vars PROVE [Leases!Next]_(Leases!vars)
    OBVIOUS
  <2>0. TypeOK
    BY DEF IInv
  <2>1. ASSUME NEW t \in Tenants, NEW ids \in IdLists, GetMany(t, ids)
        PROVE  Leases!Next
    BY <2>0, <2>1, GetManyKeeps, KeepsGrants
  <2>2. ASSUME NEW t \in Tenants, NEW rs \in Batches, PutMany(t, rs)
        PROVE  Leases!Next
    BY <2>0, <2>2, PutManyKeepsAndStores, KeepsAndStoresGrants
  <2>3. ASSUME NEW a \in Assets, NEW t \in Tenants, Invalidate(a, t)
        PROVE  Leases!Next
    BY <2>0, <2>3, DropKeeps, KeepsGrants DEF Invalidate
  <2>4. CASE Clear
    <3>1. DOMAIN entries' = {} /\ clock' = clock /\ NoTenant \in Tenants
      BY <2>4 DEF Clear, Tenants
    <3>2. Leases!Grant(NoTenant)
      BY <3>1 DEF Leases!Grant
    <3> QED  BY <3>1, <3>2 DEF Leases!Next
  <2>5. CASE Len_
    BY <2>0, <2>5, DropKeeps, KeepsGrants DEF Len_
  <2>6. CASE Tick
    BY <2>6 DEF Tick, cacheVars, Leases!Next, Leases!Tick
  <2>7. CASE UNCHANGED vars
    BY <2>7 DEF vars, Leases!vars
  <2> QED
    BY <2>1, <2>2, <2>3, <2>4, <2>5, <2>6, <2>7 DEF Next
<1> QED
  BY IInvHolds, <1>1, <1>2, PTL DEF Spec, ImplementsLeases, Leases!Spec

-----------------------------------------------------------------------------
(* Ranks in a finite strict order.                                           *)

\* R orders the elements of S, each before or after every other one.
StrictlyOrders(R, S) ==
    /\ R \subseteq S \X S
    /\ \A x \in S : <<x, x>> \notin R
    /\ \A x, y, z \in S : <<x, y>> \in R /\ <<y, z>> \in R => <<x, z>> \in R
    /\ \A x, y \in S : x = y \/ <<x, y>> \in R \/ <<y, x>> \in R

After(S, R, x) == {y \in S : <<x, y>> \in R}

\* What comes earlier in the order has more after it.
LEMMA EarlierHasMoreAfter ==
    ASSUME NEW S, IsFiniteSet(S), NEW R, StrictlyOrders(R, S),
           NEW x \in S, NEW y \in S, <<x, y>> \in R
    PROVE  Cardinality(After(S, R, y)) < Cardinality(After(S, R, x))
<1>1. IsFiniteSet(After(S, R, x)) /\ IsFiniteSet(After(S, R, y))
  <2>1. After(S, R, x) \in SUBSET S /\ After(S, R, y) \in SUBSET S
    BY DEF After
  <2> QED  BY <2>1, FS_Subset
<1>2. After(S, R, y) \cup {y} \in SUBSET After(S, R, x)
  BY DEF After, StrictlyOrders
<1>3. y \notin After(S, R, y)
  BY DEF After, StrictlyOrders
<1>4. Cardinality(After(S, R, y) \cup {y}) = Cardinality(After(S, R, y)) + 1
  BY <1>1, <1>3, FS_AddElement
<1>5. Cardinality(After(S, R, y) \cup {y}) <= Cardinality(After(S, R, x))
  BY <1>1, <1>2, FS_Subset
<1>6. Cardinality(After(S, R, x)) \in Nat /\ Cardinality(After(S, R, y)) \in Nat
  BY <1>1, FS_CardinalityType
<1> QED  BY <1>4, <1>5, <1>6

\* Counting what comes after each element numbers the set from 0.
LEMMA AfterNumbersTheSet ==
    ASSUME NEW S, IsFiniteSet(S), NEW R, StrictlyOrders(R, S)
    PROVE  [x \in S |-> Cardinality(After(S, R, x))]
               \in Bijection(S, 0..(Cardinality(S) - 1))
<1> DEFINE T == 0..(Cardinality(S) - 1)
           rank == [x \in S |-> Cardinality(After(S, R, x))]
<1>1. Cardinality(S) \in Nat
  BY FS_CardinalityType
<1>2. IsFiniteSet(T) /\ Cardinality(T) = Cardinality(S)
  BY <1>1, FS_Interval
<1>3. ASSUME NEW x \in S PROVE Cardinality(After(S, R, x)) \in T
  <2>1. After(S, R, x) \in SUBSET (S \ {x})
    BY DEF After, StrictlyOrders
  <2>2. IsFiniteSet(S \ {x}) /\ Cardinality(S \ {x}) = Cardinality(S) - 1
    BY FS_RemoveElement
  <2>3. /\ IsFiniteSet(After(S, R, x))
        /\ Cardinality(After(S, R, x)) <= Cardinality(S \ {x})
    BY <2>1, <2>2, FS_Subset
  <2>4. Cardinality(After(S, R, x)) \in Nat
    BY <2>3, FS_CardinalityType
  <2> QED  BY <1>1, <2>2, <2>3, <2>4
<1>4. ASSUME NEW x \in S, NEW y \in S,
             Cardinality(After(S, R, x)) = Cardinality(After(S, R, y))
      PROVE  x = y
  <2>1. Cardinality(After(S, R, x)) \in Nat /\ Cardinality(After(S, R, y)) \in Nat
    BY <1>1, <1>3
  <2>2. <<x, y>> \notin R /\ <<y, x>> \notin R
    BY <1>4, <2>1, EarlierHasMoreAfter
  <2> QED  BY <2>2 DEF StrictlyOrders
<1>5. rank \in Injection(S, T)
  <2>1. rank \in [S -> T]
    BY <1>3
  <2>2. \A x, y \in S : rank[x] = rank[y] => x = y
    BY <1>4
  <2> QED  BY <2>1, <2>2 DEF Injection, IsInjective
<1>6. rank \in Surjection(S, T)
  BY <1>2, <1>5, FS_Injection
<1> QED  BY <1>5, <1>6 DEF Bijection

\* So some element has any given number of others after it.
LEMMA EveryNumberIsTaken ==
    ASSUME NEW S, IsFiniteSet(S), NEW R, StrictlyOrders(R, S)
    PROVE  \A n \in 1..Cardinality(S) : \E x \in S : Cardinality(After(S, R, x)) = n - 1
<1> DEFINE T == 0..(Cardinality(S) - 1)
           rank == [x \in S |-> Cardinality(After(S, R, x))]
<1>1. Cardinality(S) \in Nat
  BY FS_CardinalityType
<1>2. \A m \in T : \E x \in S : rank[x] = m
  <2>1. rank \in Bijection(S, T)
    BY AfterNumbersTheSet
  <2> HIDE DEF rank, T
  <2> QED  BY <2>1 DEF Bijection, Surjection
<1>3. \A n \in 1..Cardinality(S) : n - 1 \in T
  BY <1>1
<1> QED  BY <1>2, <1>3

\* Youngest keeps as many as it is told to, or all there are, and what it
\* keeps comes after all that it leaves out.
LEMMA YoungestAreTheLast ==
    ASSUME NEW S, IsFiniteSet(S), NEW R, StrictlyOrders(R, S), NEW n \in Nat
    PROVE  /\ Cardinality(Youngest(S, R, n)) <= n
           /\ Youngest(S, R, n) # S => Cardinality(Youngest(S, R, n)) = n
           /\ \A x \in S \ Youngest(S, R, n), y \in Youngest(S, R, n) : <<x, y>> \in R
<1> DEFINE Y == Youngest(S, R, n)
           T == 0..(Cardinality(S) - 1)
           rank == [x \in S |-> Cardinality(After(S, R, x))]
           low == {i \in T : i < n}
<1>1. Cardinality(S) \in Nat
  BY FS_CardinalityType
<1>2. rank \in Bijection(S, T)
  BY AfterNumbersTheSet
<1>3. Y = {x \in S : rank[x] < n}
  BY DEF Youngest, After
<1>4. [x \in Y |-> rank[x]] \in Bijection(Y, low)
  <2> HIDE DEF rank, T, Y
  <2>1. /\ \A x \in S : rank[x] \in T
        /\ \A x, y \in S : rank[x] = rank[y] => x = y
        /\ \A i \in T : \E x \in S : rank[x] = i
    BY <1>2 DEF Bijection, Injection, Surjection, IsInjective
  <2> DEFINE f == [x \in Y |-> rank[x]]
  <2>2. f \in [Y -> low]
    BY <1>3, <2>1
  <2>3. \A x, y \in Y : f[x] = f[y] => x = y
    BY <1>3, <2>1
  <2>4. \A i \in low : \E x \in Y : f[x] = i
    BY <1>3, <2>1
  <2> QED  BY <2>2, <2>3, <2>4 DEF Bijection, Injection, Surjection, IsInjective
<1>5. low = 0..((IF n < Cardinality(S) THEN n ELSE Cardinality(S)) - 1)
  BY <1>1
<1>6. /\ IsFiniteSet(low)
      /\ Cardinality(low) = IF n < Cardinality(S) THEN n ELSE Cardinality(S)
  <2> DEFINE m == IF n < Cardinality(S) THEN n ELSE Cardinality(S)
  <2>1. m \in Nat /\ low = 0..(m - 1)
    BY <1>1, <1>5
  <2> HIDE DEF low, m
  <2>2. IsFiniteSet(0..(m - 1)) /\ Cardinality(0..(m - 1)) = m
    BY <2>1, FS_Interval
  <2> QED  BY <2>1, <2>2 DEF m
<1>7. IsFiniteSet(Y)
  <2>1. Y \in SUBSET S
    BY DEF Youngest
  <2> QED  BY <2>1, FS_Subset
<1>8. Cardinality(Y) = Cardinality(low)
  <2> HIDE DEF Y, low
  <2>1. ExistsBijection(Y, low)
    BY <1>4 DEF ExistsBijection
  <2> QED  BY <1>7, <2>1, FS_Bijection
<1>9. Y # S => Cardinality(Y) = n
  <2> SUFFICES ASSUME Y # S PROVE n < Cardinality(S)
    BY <1>6, <1>8
  <2>1. Y \in SUBSET S
    BY DEF Youngest
  <2>2. Cardinality(Y) # Cardinality(S)
    <3> HIDE DEF Y
    <3> QED  BY <2>1, FS_Subset
  <2> QED  BY <1>1, <1>6, <1>8, <2>2
<1>10. ASSUME NEW x \in S \ Y, NEW y \in Y PROVE <<x, y>> \in R
  <2>1. x \in S /\ y \in S /\ x # y
    BY <1>3
  <2>2. rank[y] < n /\ ~(rank[x] < n) /\ rank[x] \in T /\ rank[y] \in T
    <3>1. \A z \in S : rank[z] \in T
      <4> HIDE DEF rank, T
      <4> QED  BY <1>2 DEF Bijection, Injection
    <3> HIDE DEF rank, T, Y
    <3> QED  BY <1>3, <1>10, <2>1, <3>1
  <2>3. <<y, x>> \in R => rank[x] < rank[y]
    BY <2>1, EarlierHasMoreAfter
  <2> HIDE DEF rank
  <2> QED  BY <1>1, <2>1, <2>2, <2>3 DEF StrictlyOrders
<1> QED  BY <1>1, <1>6, <1>8, <1>9, <1>10

-----------------------------------------------------------------------------
(* The order of the dictionary. *)

\* The OrderedDict orders exactly the keys it holds.
OrderHolds == StrictlyOrders(older, DOMAIN entries)

\* Leaving keys out keeps the order of the others.
LEMMA RestrictedOrder ==
    ASSUME NEW S, NEW R, StrictlyOrders(R, S), NEW kept \in SUBSET S
    PROVE  StrictlyOrders({p \in R : {p[1], p[2]} \subseteq kept}, kept)
<1> DEFINE Q == {p \in R : {p[1], p[2]} \subseteq kept}
<1>1. \A x, y \in kept : <<x, y>> \in Q <=> <<x, y>> \in R
  OBVIOUS
<1>2. Q \subseteq kept \X kept
  BY DEF StrictlyOrders
<1> HIDE DEF Q
<1> QED  BY <1>1, <1>2 DEF StrictlyOrders

\* Which of two keys comes first after "moved" went to the end.
LEMMA MovedToEndPairs ==
    ASSUME OrderHolds, NEW kept, NEW moved \in SUBSET kept,
           kept \ moved \subseteq DOMAIN entries, NEW rank
    PROVE  /\ \A x, y \in kept \ moved :
                  <<x, y>> \in MovedToEnd(kept, moved, rank) <=> <<x, y>> \in older
           /\ \A x \in kept \ moved, y \in moved :
                  /\ <<x, y>> \in MovedToEnd(kept, moved, rank)
                  /\ <<y, x>> \notin MovedToEnd(kept, moved, rank)
           /\ \A x, y \in moved :
                  <<x, y>> \in MovedToEnd(kept, moved, rank) <=> rank[x] < rank[y]
           /\ MovedToEnd(kept, moved, rank) \subseteq kept \X kept
<1>1. older \subseteq (DOMAIN entries) \X (DOMAIN entries)
  BY DEF OrderHolds, StrictlyOrders
<1> QED  BY <1>1 DEF MovedToEnd

\* Moving keys to the end, each at its own rank, leaves an order.
LEMMA MovedToEndOrders ==
    ASSUME OrderHolds, NEW kept, NEW moved \in SUBSET kept,
           kept \ moved \subseteq DOMAIN entries,
           NEW rank, \A x \in moved : rank[x] \in Nat,
           \A x, y \in moved : rank[x] = rank[y] => x = y
    PROVE  StrictlyOrders(MovedToEnd(kept, moved, rank), kept)
<1> DEFINE M == MovedToEnd(kept, moved, rank)
<1>1. /\ \A x, y \in kept \ moved : <<x, y>> \in M <=> <<x, y>> \in older
      /\ \A x \in kept \ moved, y \in moved : <<x, y>> \in M /\ <<y, x>> \notin M
      /\ \A x, y \in moved : <<x, y>> \in M <=> rank[x] < rank[y]
      /\ M \subseteq kept \X kept
  BY MovedToEndPairs
<1>2. /\ \A x \in kept \ moved : <<x, x>> \notin older
      /\ \A x, y, z \in kept \ moved :
             <<x, y>> \in older /\ <<y, z>> \in older => <<x, z>> \in older
      /\ \A x, y \in kept \ moved : x = y \/ <<x, y>> \in older \/ <<y, x>> \in older
  BY DEF OrderHolds, StrictlyOrders
<1> HIDE DEF M
<1>2a. \A x, y \in moved : /\ ~(rank[x] < rank[x])
                           /\ x = y \/ rank[x] < rank[y] \/ rank[y] < rank[x]
  OBVIOUS
<1>3. ASSUME NEW x \in kept PROVE <<x, x>> \notin M
  <2>1. CASE x \in moved
    BY <1>1, <1>2a, <2>1
  <2>2. CASE x \notin moved
    BY <1>1, <1>2, <2>2
  <2> QED  BY <2>1, <2>2
<1>4. ASSUME NEW x \in kept, NEW y \in kept
      PROVE  x = y \/ <<x, y>> \in M \/ <<y, x>> \in M
  <2>1. CASE x \in moved /\ y \in moved
    BY <1>1, <1>2a, <2>1
  <2>2. CASE x \notin moved /\ y \notin moved
    BY <1>1, <1>2, <2>2
  <2>3. CASE x \in moved /\ y \notin moved
    BY <1>1, <2>3
  <2>4. CASE x \notin moved /\ y \in moved
    BY <1>1, <2>4
  <2> QED  BY <2>1, <2>2, <2>3, <2>4
<1>5. ASSUME NEW x \in kept, NEW y \in kept, NEW z \in kept,
             <<x, y>> \in M, <<y, z>> \in M
      PROVE  <<x, z>> \in M
  <2>1. CASE z \in kept \ moved
    BY <1>1, <1>2, <1>5, <2>1
  <2>2. CASE z \in moved /\ x \in kept \ moved
    BY <1>1, <2>2
  <2>3. CASE z \in moved /\ x \in moved
    <3>1. y \in moved
      BY <1>1, <1>5, <2>3
    <3>2. rank[x] \in Nat /\ rank[y] \in Nat /\ rank[z] \in Nat
      BY <2>3, <3>1
    <3>3. rank[x] < rank[y] /\ rank[y] < rank[z]
      BY <1>1, <1>5, <2>3, <3>1
    <3>4. rank[x] < rank[z]
      BY <3>2, <3>3
    <3> QED  BY <1>1, <2>3, <3>4
  <2> QED  BY <2>1, <2>2, <2>3
<1>6. StrictlyOrders(M, kept)
  BY <1>1, <1>3, <1>4, <1>5 DEF StrictlyOrders
<1> QED  BY <1>6 DEF M

\* The position that decides for an id, or for a result's asset, is its own.
LEMMA LastPosIsOwn ==
    ASSUME NEW ids \in Seq(Assets), NEW a \in Range(ids)
    PROVE  /\ LastPos(ids, a) \in DOMAIN ids
           /\ LastPos(ids, a) \in Nat
           /\ ids[LastPos(ids, a)] = a
<1> DEFINE P == {i \in DOMAIN ids : ids[i] = a}
<1>1. Len(ids) \in Nat /\ DOMAIN ids = 1..Len(ids)
  OBVIOUS
<1>2. P \in SUBSET (1..Len(ids)) /\ P # {}
  BY <1>1 DEF Range
<1>3. Max(P) \in P
  <2> HIDE DEF P
  <2> QED  BY <1>1, <1>2, MaxOfPositions
<1> QED  BY <1>1, <1>3 DEF LastPos

LEMMA LastOfferIsOwn ==
    ASSUME NEW rs \in Batches, NEW a \in Offered(rs)
    PROVE  LET n == Max({i \in DOMAIN rs : rs[i].asset = a})
           IN  /\ n \in DOMAIN rs /\ n \in Nat /\ rs[n].asset = a
               /\ LastFor(rs, a) = rs[n]
               /\ \A j \in DOMAIN rs : rs[j].asset = a => j <= n
<1> DEFINE P == {i \in DOMAIN rs : rs[i].asset = a}
<1>1. rs \in Seq(Results)
  BY CacheConstants
<1>2. Len(rs) \in Nat /\ DOMAIN rs = 1..Len(rs)
  BY <1>1
<1>3. P \in SUBSET (1..Len(rs)) /\ P # {}
  BY <1>2 DEF Offered
<1>4. Max(P) \in P /\ \A j \in P : Max(P) >= j
  <2> HIDE DEF P
  <2> QED  BY <1>2, <1>3, MaxOfPositions
<1>5. Max(P) \in DOMAIN rs /\ Max(P) \in Nat /\ rs[Max(P)].asset = a
  BY <1>2, <1>4
<1>6. \A j \in DOMAIN rs : rs[j].asset = a => j <= Max(P)
  BY <1>2, <1>4, <1>5
<1> QED  BY <1>5, <1>6 DEF LastFor

-----------------------------------------------------------------------------
(* put_many step by step, and the order after each method. *)

LEMMA PutManyByParts ==
    ASSUME NEW t, NEW rs, PutMany(t, rs)
    PROVE  /\ DOMAIN entries' = Kept(t, rs)
           /\ \A k \in Kept(t, rs) : entries'[k] = Put(t, rs)[k]
           /\ older' = {p \in OrderAfterPut(t, rs) : {p[1], p[2]} \subseteq Kept(t, rs)}
           /\ Kept(t, rs) \subseteq Swept(t, rs)
<1>1. /\ entries' = Restrict(Put(t, rs), Kept(t, rs))
      /\ older' = {p \in OrderAfterPut(t, rs) : {p[1], p[2]} \subseteq Kept(t, rs)}
  BY DEF PutMany
<1>2. Kept(t, rs) \subseteq Swept(t, rs)
  BY DEF Kept, Youngest
<1> QED  BY <1>1, <1>2 DEF Restrict

\* The order put_many evicts by.
LEMMA OrderAfterPutOrders ==
    ASSUME IInv, OrderHolds, NEW t \in Tenants, NEW rs \in Batches
    PROVE  /\ StrictlyOrders(OrderAfterPut(t, rs), Swept(t, rs))
           /\ IsFiniteSet(Swept(t, rs))
           /\ Swept(t, rs) \subseteq Filled(t, rs)
<1> DEFINE added == {t} \X Stored(rs)
           moved == Swept(t, rs) \cap added
           rank == [k \in added |-> Max({i \in DOMAIN rs : rs[i].asset = k[2]})]
<1>1. Swept(t, rs) \subseteq Filled(t, rs)
  BY DEF Swept
<1>2. Swept(t, rs) \ moved \subseteq DOMAIN entries
  BY <1>1 DEF Filled
<1>3. ASSUME NEW k \in added
      PROVE  /\ rank[k] \in Nat
             /\ k = <<t, rs[rank[k]].asset>>
  <2>1. k[2] \in Offered(rs) /\ k = <<t, k[2]>>
    BY StoredAreOffered
  <2> QED  BY <2>1, LastOfferIsOwn
<1>4. \A x, y \in moved : rank[x] = rank[y] => x = y
  <2> HIDE DEF rank, added
  <2> QED  BY <1>3
<1>5. \A x \in moved : rank[x] \in Nat
  <2> HIDE DEF rank, added
  <2> QED  BY <1>3
<1>6. StrictlyOrders(MovedToEnd(Swept(t, rs), moved, rank), Swept(t, rs))
  <2> HIDE DEF rank
  <2>1. moved \in SUBSET Swept(t, rs)
    OBVIOUS
  <2> HIDE DEF moved
  <2> QED  BY <1>2, <1>4, <1>5, <2>1, MovedToEndOrders
<1>7. IsFiniteSet(Swept(t, rs))
  <2>1. IsFiniteSet(DOMAIN entries) /\ IsFiniteSet(added)
    BY StoredKeysFinite DEF IInv, TypeOK
  <2>2. IsFiniteSet((DOMAIN entries) \cup added)
    <3> HIDE DEF added
    <3> QED  BY <2>1, FS_Union
  <2>3. Swept(t, rs) \in SUBSET ((DOMAIN entries) \cup added)
    BY <1>1 DEF Filled
  <2> QED  BY <2>2, <2>3, FS_Subset
<1> QED  BY <1>1, <1>6, <1>7 DEF OrderAfterPut

LEMMA NextKeepsTheOrder ==
    ASSUME IInv, OrderHolds, [Next]_vars
    PROVE  OrderHolds'
<1>1. ASSUME NEW t \in Tenants, NEW ids \in IdLists, GetMany(t, ids)
      PROVE  OrderHolds'
  <2> DEFINE asked == ({t} \X Range(ids)) \cap DOMAIN entries
             hits == Hits(t, ids)
             kept == (DOMAIN entries) \ (asked \ hits)
             rank == [k \in hits |-> LastPos(ids, k[2])]
  <2>1. /\ entries' = Restrict(entries, kept)
        /\ older' = MovedToEnd(kept, hits, rank)
    BY <1>1 DEF GetMany
  <2>2. hits \in SUBSET kept /\ kept \ hits \subseteq DOMAIN entries
           /\ \A k \in hits : k = <<t, k[2]>> /\ k[2] \in Range(ids)
    BY DEF Hits
  <2>3. ids \in Seq(Assets)
    BY CacheConstants
  <2>4. \A k \in hits : rank[k] \in Nat /\ ids[rank[k]] = k[2]
    BY <2>2, <2>3, LastPosIsOwn
  <2> HIDE DEF rank, hits
  <2>5. \A x, y \in hits : rank[x] = rank[y] => x = y
    BY <2>2, <2>4
  <2> HIDE DEF kept
  <2>6. StrictlyOrders(MovedToEnd(kept, hits, rank), kept)
    BY <2>2, <2>4, <2>5, MovedToEndOrders
  <2>7. DOMAIN entries' = kept
    BY <2>1 DEF Restrict
  <2> QED  BY <2>1, <2>6, <2>7 DEF OrderHolds
<1>2. ASSUME NEW t \in Tenants, NEW rs \in Batches, PutMany(t, rs)
      PROVE  OrderHolds'
  <2>1. /\ DOMAIN entries' = Kept(t, rs)
        /\ older' = {p \in OrderAfterPut(t, rs) : {p[1], p[2]} \subseteq Kept(t, rs)}
        /\ Kept(t, rs) \in SUBSET Swept(t, rs)
    BY <1>2, PutManyByParts
  <2>2. StrictlyOrders(OrderAfterPut(t, rs), Swept(t, rs))
    BY OrderAfterPutOrders
  <2>3. StrictlyOrders({p \in OrderAfterPut(t, rs) : {p[1], p[2]} \subseteq Kept(t, rs)},
                       Kept(t, rs))
    BY <2>1, <2>2, RestrictedOrder
  <2> QED  BY <2>1, <2>3 DEF OrderHolds
<1>3. ASSUME NEW K, Drop(K)
      PROVE  OrderHolds'
  <2> DEFINE kept == (DOMAIN entries) \ (K \cap DOMAIN entries)
  <2>1. /\ entries' = Restrict(entries, kept)
        /\ older' = {p \in older : {p[1], p[2]} \subseteq kept}
    BY <1>3 DEF Drop
  <2>2. kept \in SUBSET DOMAIN entries
    OBVIOUS
  <2> HIDE DEF kept
  <2>3. DOMAIN entries' = kept
    BY <2>1 DEF Restrict
  <2> QED  BY <2>1, <2>2, <2>3, RestrictedOrder DEF OrderHolds
<1>4. CASE Clear
  BY <1>4 DEF Clear, OrderHolds, StrictlyOrders
<1>5. CASE Tick \/ UNCHANGED vars
  BY <1>5 DEF Tick, cacheVars, vars, OrderHolds
<1> QED
  BY <1>1, <1>2, <1>3, <1>4, <1>5 DEF Next, Invalidate, Len_

LEMMA OrderAlwaysHolds == Spec => [](IInv /\ OrderHolds)
<1>1. Init => OrderHolds
  BY DEF Init, OrderHolds, StrictlyOrders
<1>2. IInv /\ OrderHolds /\ [Next]_vars => IInv' /\ OrderHolds'
  BY NextPreservesIInv, NextKeepsTheOrder
<1> QED  BY InitIInv, <1>1, <1>2, PTL DEF Spec

\* What put_many leaves out of the swept entries, it leaves out because the
\* cache is full, and everything it keeps comes after it.
LEMMA EvictedComeFirst ==
    ASSUME IInv, OrderHolds, NEW t \in Tenants, NEW rs \in Batches
    PROVE  /\ MaxEntries # Unbounded => Cardinality(Kept(t, rs)) <= MaxEntries
           /\ Kept(t, rs) # Swept(t, rs) => Cardinality(Kept(t, rs)) = MaxEntries
           /\ \A x \in Swept(t, rs) \ Kept(t, rs), y \in Kept(t, rs) :
                  <<x, y>> \in OrderAfterPut(t, rs)
<1>1. CASE MaxEntries = Unbounded
  BY <1>1 DEF Kept
<1>2. CASE MaxEntries # Unbounded
  <2>1. MaxEntries \in Nat
    BY <1>2, CacheConstants
  <2>2. Kept(t, rs) = Youngest(Swept(t, rs), OrderAfterPut(t, rs), MaxEntries)
    BY <1>2 DEF Kept
  <2> QED  BY <2>1, <2>2, OrderAfterPutOrders, YoungestAreTheLast
<1> QED  BY <1>1, <1>2

\* No entry of this very call is swept.
LEMMA StoredAreSwept ==
    ASSUME IInv, NEW t \in Tenants, NEW rs \in Batches
    PROVE  {t} \X Stored(rs) \subseteq Swept(t, rs)
<1> SUFFICES ASSUME NEW k \in {t} \X Stored(rs) PROVE k \in Swept(t, rs)
  OBVIOUS
<1>1. k \in Filled(t, rs)
  BY DEF Filled
<1>2. Put(t, rs)[k] = Fresh(LastFor(rs, k[2]))
  BY <1>1 DEF Put
<1>3. Fresh(LastFor(rs, k[2])).expiresAt > clock
  BY FreshEntry DEF IInv
<1> QED  BY <1>1, <1>2, <1>3 DEF Swept, Expired, IsLive

(* put_many supersedes: under each key it was offered it leaves what the     *)
(* last result for the asset says, stored now, or nothing: and a result that *)
(* may be cached is only missing from a full cache.                          *)
THEOREM PutAlwaysSupersedes == Spec => PutSupersedes
<1>1. ASSUME IInv, OrderHolds, NEW t \in Tenants, NEW rs \in Batches, PutMany(t, rs),
             NEW i \in DOMAIN rs, \A j \in DOMAIN rs : rs[j].asset = rs[i].asset => j <= i
      PROVE  LET k == <<t, rs[i].asset>>
             IN  IF k \in DOMAIN entries'
                   THEN /\ entries'[k].result = rs[i]
                        /\ entries'[k].storedAt = clock
                        /\ Cacheable(rs[i]) /\ IsLive(entries'[k], clock)
                   ELSE TtlFor(rs[i]) # 0 => Cardinality(DOMAIN entries') = MaxEntries
  <2> DEFINE k == <<t, rs[i].asset>>
  <2>1. rs[i].asset \in Offered(rs)
    BY DEF Offered
  <2>2. LastFor(rs, rs[i].asset) = rs[i]
    <3>1. rs \in Seq(Results)
      BY CacheConstants
    <3>2. DOMAIN rs \subseteq Nat
      BY <3>1
    <3> DEFINE n == Max({j \in DOMAIN rs : rs[j].asset = rs[i].asset})
    <3>3. /\ n \in DOMAIN rs /\ n \in Nat /\ rs[n].asset = rs[i].asset
          /\ LastFor(rs, rs[i].asset) = rs[n]
          /\ i <= n
      BY <2>1, LastOfferIsOwn
    <3> HIDE DEF n
    <3>4. n <= i
      BY <1>1, <3>3
    <3> QED  BY <3>2, <3>3, <3>4
  <2>3. /\ DOMAIN entries' = Kept(t, rs)
        /\ \A x \in Kept(t, rs) : entries'[x] = Put(t, rs)[x]
        /\ Kept(t, rs) \subseteq Swept(t, rs)
    BY <1>1, PutManyByParts
  <2>4. CASE k \in DOMAIN entries'
    <3>1. k \in Filled(t, rs)
      BY <1>1, <2>3, <2>4, OrderAfterPutOrders
    <3>2. k \in {t} \X Stored(rs)
      BY <2>1, <3>1 DEF Filled
    <3>3. entries'[k] = Fresh(rs[i])
      BY <2>2, <2>3, <2>4, <3>1, <3>2 DEF Put
    <3>4. /\ Fresh(rs[i]).result = rs[i]
          /\ Cacheable(Fresh(rs[i]).result)
          /\ Fresh(rs[i]).storedAt = clock
          /\ Fresh(rs[i]).expiresAt > clock
      BY <1>1, <2>2, <3>2, FreshEntry DEF IInv
    <3> QED  BY <2>4, <3>3, <3>4 DEF IsLive
  <2>5. CASE k \notin DOMAIN entries' /\ TtlFor(rs[i]) # 0
    <3>1. k \in {t} \X Stored(rs)
      BY <2>1, <2>2, <2>5 DEF Stored
    <3>2. k \in Swept(t, rs) \ Kept(t, rs)
      BY <1>1, <2>3, <2>5, <3>1, StoredAreSwept
    <3> QED  BY <1>1, <2>3, <2>5, <3>2, EvictedComeFirst
  <2> QED  BY <2>4, <2>5
<1>2. IInv /\ OrderHolds /\ [Next]_vars =>
        [\A t \in Tenants, rs \in Batches : PutMany(t, rs) => Supersedes(t, rs)]_vars
  BY <1>1 DEF Supersedes
<1> QED
  BY OrderAlwaysHolds, <1>2, PTL DEF Spec, PutSupersedes

(* put_many evicts the least recently used: what it drops has expired or was *)
(* superseded, or the cache is full and nothing used before it is kept.      *)
THEOREM PutEvictsLeastRecent == Spec => EvictsLeastRecent
<1>1. ASSUME IInv, OrderHolds, NEW t \in Tenants, NEW rs \in Batches, PutMany(t, rs)
      PROVE  LeastRecentGo(t, rs)
  <2> DEFINE others == (DOMAIN entries) \ ({t} \X Offered(rs))
             left == others \cap DOMAIN entries'
             added == {t} \X Stored(rs)
             moved == Swept(t, rs) \cap added
             rank == [k \in added |-> Max({i \in DOMAIN rs : rs[i].asset = k[2]})]
  <2>1. /\ DOMAIN entries' = Kept(t, rs)
        /\ Kept(t, rs) \subseteq Swept(t, rs)
        /\ Swept(t, rs) \subseteq Filled(t, rs)
    BY <1>1, PutManyByParts, OrderAfterPutOrders
  <2>2. added \cap others = {} /\ others \subseteq Filled(t, rs)
    BY StoredAreOffered DEF Filled
  <2>3. /\ \A x, y \in Swept(t, rs) \ moved :
               <<x, y>> \in OrderAfterPut(t, rs) => <<x, y>> \in older
        /\ \A x \in Swept(t, rs) \ moved, y \in moved :
               <<y, x>> \notin OrderAfterPut(t, rs)
    <3>1. moved \in SUBSET Swept(t, rs) /\ Swept(t, rs) \ moved \subseteq DOMAIN entries
      BY <2>1 DEF Filled
    <3> DEFINE M == MovedToEnd(Swept(t, rs), moved, rank)
    <3>2. OrderAfterPut(t, rs) = M
      BY DEF OrderAfterPut
    <3>3. /\ \A x, y \in Swept(t, rs) \ moved : <<x, y>> \in M <=> <<x, y>> \in older
          /\ \A x \in Swept(t, rs) \ moved, y \in moved : <<y, x>> \notin M
      <4> HIDE DEF moved, rank
      <4> QED  BY <1>1, <3>1, MovedToEndPairs
    <3> HIDE DEF moved, rank, M
    <3> QED  BY <3>2, <3>3
  <2>4. /\ MaxEntries # Unbounded => Cardinality(Kept(t, rs)) <= MaxEntries
        /\ Kept(t, rs) # Swept(t, rs) => Cardinality(Kept(t, rs)) = MaxEntries
        /\ \A x \in Swept(t, rs) \ Kept(t, rs), y \in Kept(t, rs) :
               <<x, y>> \in OrderAfterPut(t, rs)
    BY <1>1, EvictedComeFirst
  <2> HIDE DEF rank
  <2>5. ASSUME NEW k \in others \ left
        PROVE  \/ ~IsLive(entries[k], clock)
               \/ /\ Cardinality(DOMAIN entries') = MaxEntries
                  /\ \A j \in left : <<k, j>> \in older
    <3>1. CASE k \in Swept(t, rs)
      <4>1. k \in Swept(t, rs) \ Kept(t, rs) /\ k \notin moved
        BY <2>1, <2>2, <2>5, <3>1
      <4>2. \A j \in left : j \in Kept(t, rs) /\ j \in Swept(t, rs) \ moved
        BY <2>1, <2>2
      <4> HIDE DEF moved, left, others
      <4> QED  BY <2>1, <2>3, <2>4, <4>1, <4>2
    <3>2. CASE k \notin Swept(t, rs)
      <4>1. k \in Filled(t, rs) /\ k \notin added
        BY <2>2, <2>5
      <4>2. k \in Expired(Put(t, rs), clock)
        BY <3>2, <4>1 DEF Swept
      <4>3. Put(t, rs)[k] = entries[k]
        BY <4>1 DEF Put
      <4> QED  BY <4>2, <4>3 DEF Expired
    <3> QED  BY <3>1, <3>2
  <2>6. added \subseteq DOMAIN entries' \/ left = {}
    <3> SUFFICES ASSUME NEW m \in added, m \notin DOMAIN entries', NEW j \in left
                 PROVE  FALSE
      OBVIOUS
    <3>1. m \in Swept(t, rs) \ Kept(t, rs) /\ m \in moved
      BY <1>1, <2>1, StoredAreSwept
    <3>2. j \in Kept(t, rs) /\ j \in Swept(t, rs) \ moved
      BY <2>1, <2>2
    <3> HIDE DEF moved, left, others, added
    <3> QED  BY <2>3, <2>4, <3>1, <3>2
  <2> QED  BY <2>1, <2>4, <2>5, <2>6 DEF LeastRecentGo
<1>2. IInv /\ OrderHolds /\ [Next]_vars =>
        [\A t \in Tenants, rs \in Batches : PutMany(t, rs) => LeastRecentGo(t, rs)]_vars
  BY <1>1
<1> QED
  BY OrderAlwaysHolds, <1>2, PTL DEF Spec, EvictsLeastRecent
=============================================================================
