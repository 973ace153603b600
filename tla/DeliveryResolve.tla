--------------------------- MODULE DeliveryResolve --------------------------
(***************************************************************************)
(* pkg_media.gate.AccessGate.resolve over pkg_media.delivery.DeliveryAPI   *)
(* .resolve(ids, cache=...): callers on several threads share one          *)
(* AssetUrlCache while the app changes assets on the server and            *)
(* invalidates them.                                                       *)
(*                                                                         *)
(* A call asks can_access, looks its ids up in the cache, requests the     *)
(* missing ones in batches, one after the other, stores what came back and *)
(* returns one item per id.  Other threads, the server and the clock step  *)
(* in between; the cache's own methods are atomic (AssetUrlCache).         *)
(***************************************************************************)
EXTENDS Integers, FiniteSets, Sequences, Functions

CONSTANTS
    Callers,          \* the threads, each with the user it serves
    ClientTenant,     \* Callers -> tenant of the client the caller uses
    Assets, TenantIds, NoTenant,
    IdRequests,       \* the lists of ids users ask for
    Nothing,          \* no result
    BatchSize,        \* RESOLVE_BATCH_SIZE
    HideMissing,      \* hide_missing
    ResolveDenied,    \* resolve_denied
    Lifetime,         \* seconds a link lives from when the server issues it
    MaxDuration,      \* bound on the ticks from a call's lookup to its return
    MaxVersion,       \* bound on the changes to an asset
    TicksPerSecond, SafetyMargin, DefaultTtl, MaxEntries, Unbounded,
    MinSweepSize, MaxTime

ASSUME ResolveConstants ==
    /\ ClientTenant \in [Callers -> TenantIds \cup {NoTenant}]
    /\ IdRequests \subseteq Seq(Assets) \ {<<>>}
    /\ BatchSize \in Nat \ {0}
    /\ HideMissing \in BOOLEAN
    /\ ResolveDenied \in BOOLEAN
    /\ Lifetime \in Nat \ {0}
    /\ MaxDuration \in Nat
    /\ MaxVersion \in Nat
    /\ NoTenant \notin TenantIds
    /\ TicksPerSecond \in Nat \ {0}
    /\ SafetyMargin \in Nat
    /\ DefaultTtl \in Nat
    /\ MaxEntries = Unbounded \/ MaxEntries \in Nat \ {0}
    /\ MinSweepSize \in Nat \ {0}
    /\ MaxTime \in Nat

VARIABLES
    entries, older, tenantsByAsset, sweepAt, clock,   \* of AssetUrlCache
    server,      \* external: the media library's assets
    call,        \* Callers -> the call in progress, or the last one
    invalidated  \* ghost: for each asset, what its last invalidation found

vars == <<entries, older, tenantsByAsset, sweepAt, clock,
          server, call, invalidated>>
cacheVars == <<entries, older, tenantsByAsset, sweepAt>>

Tenants == TenantIds \cup {NoTenant}

\* What the server answers: the asset's version and the time the links were
\* issued are not on the wire; they say which state the result is of.
Results ==
    [asset: Assets, tenant: Tenants, ver: 0..MaxVersion, issued: 0..MaxTime,
     status: {"ok", "not_found", "forbidden", "error"}, ready: BOOLEAN,
     expiries: {{}, {Lifetime}}]

Cache == INSTANCE AssetUrlCache WITH
             IdLists <- Seq(Assets),
             Batches <- Seq(Results)

Pcs == {"idle", "waiting", "storing", "done"}

\* A result in the caller's hands: the entry's age when it was looked up.
\* latency is a ghost: how long after the server issued the links, and the
\* caller looked the id up, they were stored or returned, time that counts
\* towards no age.
Held == [result: Results, elapsed: Nat, latency: Nat]

\* What a user gets for one id: all the links of "from", those of its thumbnail
\* rendition, its public thumbnail_url (which has no lifetime), or none.
Items == [status: {"ok", "not_found", "forbidden", "error"},
          links: {"all", "thumbnail", "public", "none"},
          from: Results \cup {Nothing}, elapsed: Nat, latency: Nat]

None == [a \in {} |-> Nothing]

\* silent is a ghost: the ids the server returned nothing for in this call.
Idle == [pc |-> "idle", ids |-> <<>>, allowed |-> {}, found |-> None,
         todo |-> <<>>, reply |-> Nothing, fresh |-> <<>>, since |-> 0,
         silent |-> {}, items |-> None]

TypeOK ==
    /\ Cache!TypeOK
    /\ server \in [Assets -> [ver: 0..MaxVersion, status: {"ok", "not_found"}]]
    /\ invalidated \in [Assets -> [ver: 0..MaxVersion, quiet: BOOLEAN]]
    /\ \A c \in Callers :
           /\ call[c].pc \in Pcs
           /\ call[c].allowed \cup call[c].silent \subseteq Assets
           /\ call[c].since \in 0..MaxTime
           /\ Range(call[c].ids) \cup Range(call[c].todo) \subseteq Assets
           /\ \A a \in DOMAIN call[c].found : call[c].found[a] \in Held
           /\ Range(call[c].fresh) \subseteq Results
           /\ call[c].reply # Nothing => Range(call[c].reply) \subseteq Results
           /\ call[c].pc = "done" => DOMAIN call[c].items = Range(call[c].ids)
           /\ \A a \in DOMAIN call[c].items : call[c].items[a] \in Items

Init ==
    /\ Cache!Init
    /\ server = [a \in Assets |-> [ver |-> 0, status |-> "ok"]]
    /\ call = [c \in Callers |-> Idle]
    /\ invalidated = [a \in Assets |-> [ver |-> 0, quiet |-> TRUE]]

-----------------------------------------------------------------------------
(* What a call computes from what it has. *)

\* The elements of s at the positions P, in the order of s.
InOrder(s, P) ==
    [n \in 1..Cardinality(P) |->
        s[CHOOSE i \in P : Cardinality({j \in P : j < i}) = n - 1]]

\* list(dict.fromkeys(ids))
Unique(ids) == InOrder(ids, {i \in DOMAIN ids : \A j \in 1..(i - 1) : ids[j] # ids[i]})

Only(s, S) == InOrder(s, {i \in DOMAIN s : s[i] \in S})

NextBatch(todo) == SubSeq(todo, 1, IF Len(todo) < BatchSize THEN Len(todo) ELSE BatchSize)
Without(todo) == SubSeq(todo, Len(NextBatch(todo)) + 1, Len(todo))

\* found, updated with the fresh results: the last one for an asset counts.
WithFresh(found, fresh) ==
    [a \in DOMAIN found \cup {fresh[i].asset : i \in DOMAIN fresh} |->
        IF \E i \in DOMAIN fresh : fresh[i].asset = a
          THEN [result |-> Cache!LastFor(fresh, a), elapsed |-> 0, latency |-> 0]
          ELSE found[a]]

\* An item made of what the call holds for an id after "lasted" ticks.
Item(s, l, h, lasted) ==
    [status |-> s, links |-> l, from |-> h.result, elapsed |-> h.elapsed,
     latency |-> h.latency + lasted]
NoItem(s) ==
    [status |-> s, links |-> "none", from |-> Nothing, elapsed |-> 0, latency |-> 0]

\* Without the asset a result has at most its thumbnail_url.
WithoutAsset(status) == IF status = "not_found" THEN "none" ELSE "public"

\* The item of a denied id: nothing of the result but the thumbnail.
DeniedItem(a, resolved, lasted) ==
    IF a \notin DOMAIN resolved THEN NoItem("forbidden")
    ELSE LET h == resolved[a]
             status == h.result.status
         IN  Item(IF status = "not_found" /\ ~HideMissing THEN status ELSE "forbidden",
                  IF status = "ok" THEN "thumbnail" ELSE WithoutAsset(status), h, lasted)

\* The item of an allowed id: the result as it came (a refused one is built
\* anew, without its asset), or the error that stands for an id the server
\* returned nothing for.
AllowedItem(a, resolved, lasted) ==
    IF a \notin DOMAIN resolved THEN NoItem("error")
    ELSE LET h == resolved[a]
             status == h.result.status
         IN  Item(status, IF status = "ok" THEN "all" ELSE WithoutAsset(status), h, lasted)

ItemFor(a, allowed, resolved, lasted) ==
    IF a \in allowed THEN AllowedItem(a, resolved, lasted)
                     ELSE DeniedItem(a, resolved, lasted)

\* Faulty variant: ids without a result are left out.
ReturnedFoundOnly(r, resolved) ==
    [r EXCEPT
        !.pc = "done", !.found = None, !.fresh = <<>>, !.since = 0,
        !.items = [a \in Range(r.ids) \cap DOMAIN resolved |->
                      ItemFor(a, r.allowed, resolved, clock - r.since)]]

\* The gate's answer to call r, one item for each id.
Returned(r, resolved) ==
    [r EXCEPT
        !.pc = "done", !.found = None, !.fresh = <<>>, !.since = 0,
        !.items = [a \in Range(r.ids) |->
                      ItemFor(a, r.allowed, resolved, clock - r.since)]]

InFlight(c) == call[c].pc \in {"waiting", "storing"}

-----------------------------------------------------------------------------
(* The steps of a call. *)

\* The ids the gate resolves as the service.
ToResolve(ids, allowed) == IF ResolveDenied THEN Unique(ids) ELSE Only(Unique(ids), allowed)

\* What a lookup makes of the live entry e.
Looked(e) == [result |-> e.result, elapsed |-> Cache!Elapsed(clock - e.storedAt),
              latency |-> e.storedAt - e.result.issued]

\* resolve(user, ids): can_access decides for the whole call, cache.get_many
\* answers what it can, and the first batch of the missing ids is requested.
Resolve(c, ids) ==
    /\ call[c] = Idle
    /\ \E allowed \in SUBSET Range(ids) :
         LET asked == ToResolve(ids, allowed)
             t == ClientTenant[c]
             found == [a \in {k[2] : k \in Cache!Hits(t, asked)} |-> Looked(entries[<<t, a>>])]
             todo == Only(asked, Assets \ DOMAIN found)
             begun == [Idle EXCEPT !.pc = "waiting", !.ids = ids, !.allowed = allowed,
                                   !.found = found, !.todo = todo, !.since = clock]
         IN  /\ Cache!GetMany(t, asked)
             /\ call' = [call EXCEPT ![c] = IF todo = <<>> THEN Returned(begun, found)
                                                           ELSE begun]
    /\ UNCHANGED <<server, invalidated>>

\* External: the server's result for asset a, asked by a client of tenant t:
\* what it is, or that the client may not have it, or an error.
Answered(a, t, refused, failed) ==
    LET status == IF failed THEN "error"
                  ELSE IF refused /\ server[a].status = "ok" THEN "forbidden"
                  ELSE server[a].status
    IN  [asset |-> a, tenant |-> t, ver |-> server[a].ver, issued |-> clock,
         status |-> status, ready |-> status = "ok",
         expiries |-> IF status = "ok" THEN {Lifetime} ELSE {}]

\* External: the server answers the outstanding batch; for some of its ids it
\* may return nothing, a refusal or an error.
ServerAnswers(c) ==
    /\ call[c].pc = "waiting" /\ call[c].reply = Nothing
    /\ LET batch == NextBatch(call[c].todo)
       IN  \E silent, refused, failed \in SUBSET Range(batch) :
              LET given == Only(batch, Assets \ silent)
              IN  call' = [call EXCEPT
                     ![c].silent = @ \cup silent,
                     ![c].reply = [i \in DOMAIN given |->
                                      Answered(given[i], ClientTenant[c],
                                               given[i] \in refused, given[i] \in failed)]]
    /\ UNCHANGED <<cacheVars, clock, server, invalidated>>

\* Faulty variant: only the last batch is kept.
ReceiveLast(c) ==
    /\ call[c].pc = "waiting" /\ call[c].reply # Nothing
    /\ LET rest == Without(call[c].todo)
       IN  call' = [call EXCEPT ![c].fresh = call[c].reply,
                                ![c].reply = Nothing,
                                ![c].todo = rest,
                                ![c].pc = IF rest = <<>> THEN "storing" ELSE "waiting"]
    /\ UNCHANGED <<cacheVars, clock, server, invalidated>>

\* The answer arrives: the next batch is requested, or all is there.
Receive(c) ==
    /\ call[c].pc = "waiting" /\ call[c].reply # Nothing
    /\ LET rest == Without(call[c].todo)
       IN  call' = [call EXCEPT ![c].fresh = @ \o call[c].reply,
                                ![c].reply = Nothing,
                                ![c].todo = rest,
                                ![c].pc = IF rest = <<>> THEN "storing" ELSE "waiting"]
    /\ UNCHANGED <<cacheVars, clock, server, invalidated>>

\* Faulty variant: tenant_id is not passed on.
StoreWithoutTenant(c) ==
    /\ call[c].pc = "storing"
    /\ Cache!PutMany(NoTenant, call[c].fresh)
    /\ call' = [call EXCEPT ![c] = Returned(@, WithFresh(@.found, @.fresh))]
    /\ UNCHANGED <<server, invalidated>>

\* cache.put_many, and the return.
Store(c) ==
    /\ call[c].pc = "storing"
    /\ Cache!PutMany(ClientTenant[c], call[c].fresh)
    /\ call' = [call EXCEPT ![c] = Returned(@, WithFresh(@.found, @.fresh))]
    /\ UNCHANGED <<server, invalidated>>

\* A transport error or a deadline: the call raises; earlier batches are lost.
Fail(c) ==
    /\ call[c].pc = "waiting"
    /\ call' = [call EXCEPT ![c] = Idle]
    /\ UNCHANGED <<cacheVars, clock, server, invalidated>>

\* The user has the items.
HandOver(c) ==
    /\ call[c].pc = "done"
    /\ call' = [call EXCEPT ![c] = Idle]
    /\ UNCHANGED <<cacheVars, clock, server, invalidated>>

-----------------------------------------------------------------------------
(* The app and the clock. *)

\* External: the app changes or removes the asset on the server.
ChangeAsset(a) ==
    /\ server[a].ver < MaxVersion
    /\ \E s \in {"ok", "not_found"} :
           server' = [server EXCEPT ![a] = [ver |-> @.ver + 1, status |-> s]]
    /\ UNCHANGED <<cacheVars, clock, call, invalidated>>

\* External: the app calls cache.invalidate(asset_id) after the change.
InvalidateAsset(a) ==
    /\ invalidated[a].ver < server[a].ver
    /\ Cache!Invalidate(a, NoTenant)
    /\ invalidated' = [invalidated EXCEPT ![a] =
                          [ver |-> server[a].ver, quiet |-> \A c \in Callers : ~InFlight(c)]]
    /\ UNCHANGED <<server, call>>

\* Calls take at most MaxDuration from lookup to return; what they return is
\* judged at that moment.
Tick ==
    /\ \A c \in Callers :
          /\ InFlight(c) => clock - call[c].since < MaxDuration
          /\ call[c].pc # "done"
    /\ Cache!Tick
    /\ UNCHANGED <<server, call, invalidated>>

Next ==
    \/ \E c \in Callers :
         \/ \E ids \in IdRequests : Resolve(c, ids)
         \/ ServerAnswers(c)
         \/ Receive(c)
         \/ Store(c)
         \/ Fail(c)
         \/ HandOver(c)
    \/ \E a \in Assets : ChangeAsset(a) \/ InvalidateAsset(a)
    \/ Tick

Spec == Init /\ [][Next]_vars

-----------------------------------------------------------------------------
(* Correctness. *)

(* Nothing crosses tenants: an entry holds what the server answered its own  *)
(* tenant, and an item is made of a result for that id and the tenant of the *)
(* client that asked, with all its links only for ids can_access allowed.    *)
(* And nothing is lost: every id of the request gets its item, and the item  *)
(* of an allowed id is made of what the cache or the server answered for it, *)
(* whatever batch it was in, unless the server answered nothing.             *)
ItemsAreForTheCaller ==
    /\ \A k \in DOMAIN entries : entries[k].result.tenant = k[1]
    /\ \A c \in Callers :
         call[c].pc = "done" =>
           /\ DOMAIN call[c].items = Range(call[c].ids)
           /\ \A a \in Range(call[c].ids) :
                LET item == call[c].items[a]
                IN  /\ \/ item.from = Nothing /\ item.links = "none"
                       \/ item.from.asset = a /\ item.from.tenant = ClientTenant[c]
                    /\ item.links = "all" => a \in call[c].allowed
                    /\ a \in call[c].allowed \ call[c].silent =>
                          /\ item.from \in Results
                          /\ item.status = item.from.status

(* A link handed to a user still works then, a cached one as well as a fresh *)
(* one, even when it was looked up before the rest of the page was fetched,  *)
(* if the two calls on its way (from the server's answer to the store, from  *)
(* the lookup to the return) lasted no longer than the safety margin, and    *)
(* less than the link lives.  The code puts no bound on either.              *)
LinksLiveOnReturn ==
    \A c \in Callers :
        call[c].pc = "done" =>
            \A a \in Range(call[c].ids) :
                LET item == call[c].items[a]
                IN  item.links # "none" /\ item.latency <= SafetyMargin =>
                      \A e \in item.from.expiries :
                         item.latency < TicksPerSecond * e =>
                            clock < item.from.issued + TicksPerSecond * e

(* A result of a version that was invalidated is only ever cached by a call  *)
(* that was in flight at the invalidation.                                   *)
NoStaleAfterQuietInvalidate ==
    \A k \in DOMAIN entries :
        invalidated[k[2]].quiet => entries[k].result.ver >= invalidated[k[2]].ver

(* The reported time left of a link exceeds the real one by no more than the *)
(* two calls on its way lasted, however long that was.                       *)
ReportedLongerByLatency ==
    \A c \in Callers :
        call[c].pc = "done" =>
            \A a \in Range(call[c].ids) :
                LET item == call[c].items[a]
                IN  item.links # "none" =>
                      \A e \in item.from.expiries :
                         TicksPerSecond * (e - item.elapsed)
                             <= item.from.issued + TicksPerSecond * e - clock + item.latency
=============================================================================
