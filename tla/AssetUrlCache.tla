--------------------------- MODULE AssetUrlCache ---------------------------
(***************************************************************************)
(* pkg_media.cache.AssetUrlCache: the thread-safe cache of "ok" delivery   *)
(* resolve results, keyed by tenant and asset id.                          *)
(*                                                                         *)
(* Every method runs under one lock, so each method is one action.  The    *)
(* OrderedDict is the partial function "entries" together with the strict  *)
(* order "older" on its keys; "tenantsByAsset" is the secondary index that *)
(* invalidate walks, maintained separately as in the code.                 *)
(*                                                                         *)
(* The clock is a float in the code and the links' lifetimes are whole     *)
(* seconds.  Here time is counted in ticks, TicksPerSecond of them to a    *)
(* second, so that ages are not whole seconds and rounding matters.        *)
(***************************************************************************)
EXTENDS Integers, FiniteSets, Sequences, FiniteSetsExt, Functions

CONSTANTS
    Assets,          \* asset ids
    TenantIds,       \* tenant ids
    NoTenant,        \* the Python None passed as tenant_id
    Results,         \* the DeliveryBatchResolveResults the server may give
    TicksPerSecond,
    SafetyMargin,    \* safety_margin, in ticks
    DefaultTtl,      \* default_ttl, in ticks
    MaxEntries,      \* max_entries, or Unbounded
    Unbounded,
    MinSweepSize,    \* _MIN_SWEEP_SIZE
    IdLists,         \* the lists of ids callers look up
    Batches,         \* the lists of results callers store
    MaxTime          \* bound on the clock

Statuses == {"ok", "not_found", "forbidden", "error"}

\* "expiries" is the set of positive *_expires_in of the result's links (the
\* links that report 0 or None, i.e. tokenless ones, contribute nothing).
ASSUME CacheConstants ==
    /\ NoTenant \notin TenantIds
    /\ TicksPerSecond \in Nat \ {0}
    /\ SafetyMargin \in Nat
    /\ DefaultTtl \in Nat
    /\ MaxEntries = Unbounded \/ MaxEntries \in Nat \ {0}
    /\ MinSweepSize \in Nat \ {0}
    /\ IdLists \subseteq Seq(Assets)
    /\ Batches \subseteq Seq(Results)
    /\ MaxTime \in Nat
    /\ \A r \in Results :
           /\ r.asset \in Assets
           /\ r.status \in Statuses
           /\ r.ready \in BOOLEAN
           /\ r.expiries \subseteq Nat \ {0}
           /\ IsFiniteSet(r.expiries)

VARIABLES
    entries,         \* _entries: key -> [result, storedAt, expiresAt]
    older,           \* <<j, k>>: j comes before k in the OrderedDict
    tenantsByAsset,  \* _tenants_by_asset; {} where the dict has no key
    sweepAt,         \* _sweep_at
    clock            \* what self._clock() answers

cacheVars == <<entries, older, tenantsByAsset, sweepAt>>
vars == <<entries, older, tenantsByAsset, sweepAt, clock>>

\* A missing tenant_id is a namespace of its own.
Tenants == TenantIds \cup {NoTenant}
Keys == Tenants \X Assets
Entry == [result: Results, storedAt: Nat, expiresAt: Nat]

TypeOK ==
    /\ DOMAIN entries \subseteq Keys
    /\ IsFiniteSet(DOMAIN entries)
    /\ \A k \in DOMAIN entries : entries[k] \in Entry
    /\ older \subseteq (DOMAIN entries) \X (DOMAIN entries)
    /\ tenantsByAsset \in [Assets -> SUBSET Tenants]
    /\ sweepAt \in Nat
    /\ clock \in Nat

Init ==
    /\ entries = [k \in {} |-> {}]
    /\ older = {}
    /\ tenantsByAsset = [a \in Assets |-> {}]
    /\ sweepAt = MinSweepSize
    /\ clock = 0

-----------------------------------------------------------------------------
(* Time to live and what a hit reports. *)

Shortest(r) == TicksPerSecond * Min(r.expiries)

\* Only an ok result of a ready asset may be cached (_ServedFrom).
Cacheable(r) == r.status = "ok" /\ r.ready

\* Faulty variants of TtlFor, for the mutation runs.
TtlForUnchecked(r) ==
    IF ~Cacheable(r) THEN 0
    ELSE IF r.expiries = {} THEN DefaultTtl ELSE Shortest(r) - SafetyMargin

TtlForIgnoringMargin(r) ==
    IF ~Cacheable(r) THEN 0
    ELSE IF r.expiries = {} THEN DefaultTtl ELSE Shortest(r)

\* Ticks r may be cached; 0 stands for the code's None (do not cache).
TtlFor(r) ==
    IF ~Cacheable(r) THEN 0
    ELSE IF r.expiries = {} THEN DefaultTtl
    ELSE IF Shortest(r) > SafetyMargin THEN Shortest(r) - SafetyMargin
    ELSE 0

IsLive(e, now) == e.expiresAt > now

\* Faulty variants: not subtracted, rounded down.
ElapsedNone(age) == 0

ElapsedFloor(age) == age \div TicksPerSecond

\* math.ceil(age): whole seconds, rounded up.
Elapsed(age) == (age + TicksPerSecond - 1) \div TicksPerSecond

\* The lifetimes a hit at "now" reports for the expiring links of entry e.
Remaining(e, now) ==
    {x - Elapsed(now - e.storedAt) : x \in e.result.expiries}

-----------------------------------------------------------------------------
(* Steps on the two dictionaries (lock held). *)

\* Position of the last occurrence of x in s: the one that decides.
LastPos(s, x) == Max({i \in DOMAIN s : s[i] = x})

\* The order after the keys "moved" went to the end, in the order of "rank",
\* and only the keys in "kept" are left.
MovedToEnd(kept, moved, rank) ==
    {p \in older : {p[1], p[2]} \subseteq kept \ moved}
        \cup ((kept \ moved) \X moved)
        \cup {p \in moved \X moved : rank[p[1]] < rank[p[2]]}

\* Faulty variants: an index that only grows; one where the first tenant to go
\* takes the whole asset with it.
ReindexedGrowing(added, dropped) ==
    [a \in Assets |->
        tenantsByAsset[a] \cup {u \in Tenants : <<u, a>> \in added}]

ReindexedWholeAsset(added, dropped) ==
    [a \in Assets |->
        IF \E t \in Tenants : <<t, a>> \in dropped THEN {}
        ELSE tenantsByAsset[a] \cup {u \in Tenants : <<u, a>> \in added}]

\* The index after "added" gained an entry and "dropped" lost theirs: one
\* _drop per key, which leaves the index alone when the key had no entry.
Reindexed(added, dropped) ==
    [a \in Assets |->
        {t \in tenantsByAsset[a] \cup {u \in Tenants : <<u, a>> \in added} :
            <<t, a>> \notin dropped}]

\* _drop for each key of K.
Drop(K) ==
    LET gone == K \cap DOMAIN entries
        kept == DOMAIN entries \ gone
    IN  /\ entries' = Restrict(entries, kept)
        /\ older' = {p \in older : {p[1], p[2]} \subseteq kept}
        /\ tenantsByAsset' = Reindexed({}, gone)

Expired(f, now) == {k \in DOMAIN f : ~IsLive(f[k], now)}

\* Faulty variants: one entry too many; the most recently used go first.
YoungestAndOneMore(K, ord, n) ==
    {k \in K : Cardinality({j \in K : <<k, j>> \in ord}) < n + 1}

Eldest(K, ord, n) ==
    {k \in K : Cardinality({j \in K : <<j, k>> \in ord}) < n}

\* The n keys of K at the end of the order: what is left after popping
\* next(iter(entries)) while there are more than n.
Youngest(K, ord, n) ==
    {k \in K : Cardinality({j \in K : <<k, j>> \in ord}) < n}

-----------------------------------------------------------------------------
(* The methods. *)

\* The keys that get_many answers for tenant t: the live entries among ids.
Hits(t, ids) ==
    {k \in DOMAIN entries : k \in {t} \X Range(ids) /\ IsLive(entries[k], clock)}

\* Faulty variant: a hit starts a new lifetime.
GetManyRenewing(t, ids) ==
    LET hits == Hits(t, ids)
    IN  /\ entries' = [k \in DOMAIN entries |->
                          IF k \in hits
                            THEN [entries[k] EXCEPT !.expiresAt = @ + clock - entries[k].storedAt]
                            ELSE entries[k]]
        /\ UNCHANGED <<older, tenantsByAsset, sweepAt, clock>>

\* get_many (and get): expired entries among ids are dropped, the hits become
\* the most recently used.
GetMany(t, ids) ==
    LET asked == ({t} \X Range(ids)) \cap DOMAIN entries
        hits == Hits(t, ids)
        gone == asked \ hits
        kept == DOMAIN entries \ gone
    IN  /\ entries' = Restrict(entries, kept)
        /\ older' = MovedToEnd(kept, hits, [k \in hits |-> LastPos(ids, k[2])])
        /\ tenantsByAsset' = Reindexed({}, gone)
        /\ UNCHANGED <<sweepAt, clock>>

\* Faulty variant: the first result for an asset decides.
FirstFor(rs, a) == rs[Min({i \in DOMAIN rs : rs[i].asset = a})]

\* The results of the batch rs that are stored: the last one for their asset,
\* if it may be cached.
LastFor(rs, a) == rs[Max({i \in DOMAIN rs : rs[i].asset = a})]
Offered(rs) == {rs[i].asset : i \in DOMAIN rs}
Stored(rs) == {a \in Offered(rs) : TtlFor(LastFor(rs, a)) # 0}

\* The steps of put_many for tenant t and the batch rs: the keys that have an
\* entry once each result is stored or dropped, and their entries; the keys left
\* by the sweep, which runs when the cache has doubled; their order; and the
\* keys left when the least recently used ones beyond max_entries are evicted.
Fresh(r) == [result |-> r, storedAt |-> clock, expiresAt |-> clock + TtlFor(r)]

Filled(t, rs) == ((DOMAIN entries) \ ({t} \X Offered(rs))) \cup ({t} \X Stored(rs))

Put(t, rs) ==
    LET added == {t} \X Stored(rs)
    IN  [k \in Filled(t, rs) |-> IF k \in added THEN Fresh(LastFor(rs, k[2]))
                                                ELSE entries[k]]

Sweeps(t, rs) == Cardinality(Filled(t, rs)) >= sweepAt

Swept(t, rs) ==
    IF Sweeps(t, rs) THEN Filled(t, rs) \ Expired(Put(t, rs), clock)
                     ELSE Filled(t, rs)

OrderAfterPut(t, rs) ==
    LET swept == Swept(t, rs)
        added == {t} \X Stored(rs)
    IN  MovedToEnd(swept, swept \cap added,
                   [k \in added |-> Max({i \in DOMAIN rs : rs[i].asset = k[2]})])

Kept(t, rs) ==
    IF MaxEntries = Unbounded THEN Swept(t, rs)
                              ELSE Youngest(Swept(t, rs), OrderAfterPut(t, rs), MaxEntries)

\* _put_all (put and put_many).
PutMany(t, rs) ==
    LET ord == OrderAfterPut(t, rs)
        kept == Kept(t, rs)
        added == {t} \X Stored(rs)
    IN  /\ UNCHANGED clock
        /\ entries' = Restrict(Put(t, rs), kept)
        /\ older' = {p \in ord : {p[1], p[2]} \subseteq kept}
        /\ tenantsByAsset' =
               Reindexed(added, ((DOMAIN entries) \cup added) \ kept)
        /\ sweepAt' = IF Sweeps(t, rs)
                         THEN Max({2 * Cardinality(Swept(t, rs)), MinSweepSize})
                         ELSE sweepAt

\* Faulty variant: without a tenant, only the namespace of that name is dropped.
InvalidateOwnNamespace(a, t) ==
    /\ Drop({<<t, a>>})
    /\ UNCHANGED <<sweepAt, clock>>

\* invalidate: one tenant's entry, or with NoTenant every tenant's by the index.
Invalidate(a, t) ==
    /\ Drop(IF t # NoTenant THEN {<<t, a>>} ELSE tenantsByAsset[a] \X {a})
    /\ UNCHANGED <<sweepAt, clock>>

Clear ==
    /\ entries' = [k \in {} |-> {}]
    /\ older' = {}
    /\ tenantsByAsset' = [a \in Assets |-> {}]
    /\ sweepAt' = MinSweepSize
    /\ UNCHANGED clock

\* __len__ counts the live entries after dropping the expired ones.
Len_ ==
    /\ Drop(Expired(entries, clock))
    /\ UNCHANGED <<sweepAt, clock>>

Tick ==
    /\ clock < MaxTime
    /\ clock' = clock + 1
    /\ UNCHANGED cacheVars

Next ==
    \/ \E t \in Tenants, ids \in IdLists : GetMany(t, ids)
    \/ \E t \in Tenants, rs \in Batches : PutMany(t, rs)
    \/ \E a \in Assets, t \in Tenants : Invalidate(a, t)
    \/ Clear
    \/ Len_
    \/ Tick

Spec == Init /\ [][Next]_vars

-----------------------------------------------------------------------------
(* Correctness. *)

(* The index lists exactly the tenants holding an entry for the asset, after *)
(* any mix of stores, replacements, expiries, sweeps and evictions: what     *)
(* invalidate relies on to reach every tenant, and what keeps the index from *)
(* growing beyond the entries.                                               *)
IndexMatchesEntries ==
    \A a \in Assets :
        tenantsByAsset[a] = {t \in Tenants : <<t, a>> \in DOMAIN entries}

(* Whatever get would answer now, each expiring link is reported with a      *)
(* positive lifetime (0 would read as "never expires").                      *)
ExpiringNeverReportedAsPermanent ==
    \A k \in DOMAIN entries :
        IsLive(entries[k], clock) =>
            \A x \in Remaining(entries[k], clock) : x > 0

(* No link of a hit is reported to live longer than what is left of it,      *)
(* counted from the moment its result was stored, and none has less than the *)
(* safety margin left.                                                       *)
ReportedWithinLease ==
    \A k \in DOMAIN entries :
        IsLive(entries[k], clock) =>
            \A e \in entries[k].result.expiries :
                LET left == entries[k].storedAt + TicksPerSecond * e - clock
                IN  /\ TicksPerSecond * (e - Elapsed(clock - entries[k].storedAt)) <= left
                    /\ left > SafetyMargin

(* invalidate without a tenant leaves no tenant's entry for the asset, and   *)
(* with one leaves every other entry alone.                                  *)
InvalidateIsExact ==
    [][\A a \in Assets, t \in Tenants :
          Invalidate(a, t) =>
              DOMAIN entries' = {k \in DOMAIN entries :
                                    k[2] # a \/ (t # NoTenant /\ k[1] # t)}]_vars

\* Under each key put_many was offered: the last result for the asset, stored
\* now, or nothing.
Supersedes(t, rs) ==
    \A i \in DOMAIN rs :
        (\A j \in DOMAIN rs : rs[j].asset = rs[i].asset => j <= i) =>
            LET k == <<t, rs[i].asset>>
            IN  IF k \in DOMAIN entries'
                  THEN /\ entries'[k].result = rs[i]
                       /\ entries'[k].storedAt = clock
                       /\ Cacheable(rs[i]) /\ IsLive(entries'[k], clock)
                  ELSE TtlFor(rs[i]) # 0 => Cardinality(DOMAIN entries') = MaxEntries

(* What put_many leaves under the keys it was offered is from this very call *)
(* and decided by the last result for the asset: a result that cannot be     *)
(* cached drops the older entry, no older link survives, and a stored result *)
(* is only ever missing because the cache is full.                           *)
PutSupersedes ==
    [][\A t \in Tenants, rs \in Batches : PutMany(t, rs) => Supersedes(t, rs)]_vars

\* What put_many drops of the keys it was not offered.
LeastRecentGo(t, rs) ==
    LET others == DOMAIN entries \ ({t} \X Offered(rs))
        left == others \cap DOMAIN entries'
    IN  /\ MaxEntries # Unbounded => Cardinality(DOMAIN entries') <= MaxEntries
        /\ \A k \in others \ left :
              \/ ~IsLive(entries[k], clock)
              \/ /\ Cardinality(DOMAIN entries') = MaxEntries
                 /\ \A j \in left : <<k, j>> \in older
        /\ ({t} \X Stored(rs)) \subseteq DOMAIN entries' \/ left = {}

(* put_many leaves no more than max_entries.  What it drops has expired, was *)
(* superseded, or is evicted: then the cache is full, and nothing that was   *)
(* used less recently is kept, so an entry of this call only goes when all   *)
(* the others have gone.                                                     *)
EvictsLeastRecent ==
    [][\A t \in Tenants, rs \in Batches : PutMany(t, rs) => LeastRecentGo(t, rs)]_vars

(* The cache implements leases on resolve results: no step renews a lease,   *)
(* moves it to another tenant or asset, brings back a superseded or dropped  *)
(* one, or grants one that outlives a link minus the margin.                 *)
Leases == INSTANCE LinkLeases WITH lease <- entries
ImplementsLeases == Leases!Spec
=============================================================================
