# A TLA+ model of pkg_media

`pkg_media` (`src/src/pkg_media/`) is the Python client of a media library: it
uploads files, resolves delivery links, issues grants and helps a web backend to
do these things for its own users. This directory holds TLA+ modules for the
parts of it that keep state across calls, threads or requests, the TLC
configurations that check them on small instances, and TLAPS proofs about them
for every value of the constants. A path without a directory, such as `cache.py`, is
under `src/src/pkg_media/`; `README.md:512` is the repository's own README.

- [1. Inventory](#1-inventory)
- [2. The modules and the code](#2-the-modules-and-the-code)
- [3. The runs](#3-the-runs)
- [4. Fairness](#4-fairness)
- [5. The proofs](#5-the-proofs)
- [6. What disagrees with the documentation](#6-what-disagrees-with-the-documentation)
- [7. Not modelled](#7-not-modelled)
- [8. The plan](#8-the-plan)

Run a model with `tlc -workers 2 -config MCX.cfg MCX.tla`, a proof with
`tlapm XProofs.tla`.

## 1. Inventory

| Part | Source | State it keeps | Operations |
|---|---|---|---|
| Link cache | `cache.py` | entries in least-recently-used order, an index of tenants by asset, the sweep threshold | get, get_many, put, put_many, invalidate, clear, len |
| Delivery API, access gate | `delivery.py`, `gate.py` | none of their own; a call in progress | resolve with a cache, in batches; can_access for a whole list |
| Embedder | `embed.py` | none; the page outlives the call | embed, aembed |
| Token source | `credentials.py` | the token, when to refresh it, an asyncio lock, a lazy httpx client for Keycloak | token, invalidate, aclose |
| Client | `client.py` | a transport and its credentials, and which of their connections the caller passed | aclose |
| gRPC transport | `_transport/grpc_transport.py` | a lazy channel and its stub; per call the attempt, the renewal, the idempotency key | `_call` under every operation, aclose |
| HTTP transport | `_transport/http_transport.py`, `_http.py` | an httpx client, made with the transport and never made again; the upload session on the server | create, part, finalize, abort, open_session |
| Uploads | `uploads.py` | the upload in progress | upload_file, verify_upload, the single requests |
| Upload profiles | `profiles.py` | none (immutable) | validate_file, verify_asset, check_permissions |
| Service uploads | `service_uploads.py`, `integrations/fastapi.py` | the store of upload records | start, refresh_grant, attach; claim_upload |
| Sync client | `_sync.py`, `client.py` | an event loop on its own thread | run, stop, close |
| Grants | `grants.py`, both transports' issue_grant | none | issue, read |
| Media and grant routers | `integrations/fastapi.py` | none of their own; a request in progress | GET an asset, POST resolve, POST grants |
| GraphQL fields | `integrations/strawberry.py` | per request a data loader's queue, and whether its response carries tokens | media fields, Cache-Control |
| Errors and refusals | `exceptions.py`, `_http.py`, `reasons.py`, `contract.py` | none | statuses to exceptions and back |
| Schema check | `src/tools/check_compat.py`, `generate.py` | the baseline schema | incompatibilities, moving the baseline |
| Permalinks, assets, processing | `permalinks.py`, `assets.py`, `processing.py` | none | one request and one answer each |

**How they interact.** A page of the app goes `MediaEmbedder` / `AccessGate` →
`DeliveryAPI.resolve` → `AssetUrlCache` and, for what is missing, a transport →
the media server. A transport asks `ClientCredentials` for a token, drops it when
the server refuses it, and retries. An upload goes `UploadsAPI.upload_file` → HTTP
transport → the session on the server; or the browser uploads by itself and the
app's upload router starts it, refreshes its grant and claims the result, or the
grant router lets the browser talk to the library directly. The sync
`MediaClient` runs all of this on one event loop that any number of threads share.

**What is hard.** The cache and the sync client are shared by threads; the token
source by coroutines that give way at every await; the store by requests on a
threadpool. Requests to the server may be lost before or after they took effect,
or take effect after the client gave up. Links and tokens die while they are
held. Upload clean-up is best effort. A coroutine may be cancelled at any await. A
client may be closed, or closed twice at once, while its calls are on their way.
The service may restart with requests in progress and, with the in-memory store,
without its records. Browsers learn what went wrong only from a status.
`PROJECT.json` lists each such hazard at its line, with the properties about it.

**What makes each part correct.**

- *Cache*: it never hands out a link within the margin of its end, nor reports it
  as permanent; invalidation reaches exactly the entries it names; a newer result
  replaces an older one; it stays within its size, and evicts the least recently
  used.
- *Resolve*: one item for each id, for the tenant that asked and for what
  can_access allowed; links are alive when they are handed over, as far as the margin
  covers the calls on their way; nothing
  invalidated comes back except through a call that was in flight.
- *Embedder*: what it says of a page's lifetime is true of every link on it; a user
  without access gets the thumbnail only.
- *Token source*: one fetch for all who wait; a token with life left in it; no one
  waits for ever.
- *Client*: what it opened is closed in the end, what the caller passed is left
  alone; no request goes out over a channel it closed.
- *gRPC calls*: a mutating call is carried out at most once however it is retried
  or cancelled; a refused token is not sent again.
- *Uploads*: what is finalized is the whole file; a failed upload does not leave its
  session open, a finalized one does not lose its blob.
- *Service uploads*: an upload is attached once, by its owner, as what it really
  is; no session is left open without a record; grants go to who started it.
- *Routers and grants*: a browser is told the library's reason, and not more than
  what it may see; a grant says what the app decided, over either transport, and an
  upload made with it fits its profile.
- *GraphQL fields*: a response that carries tokens is not cached for others.
- *Sync client*: calls return; the loop is closed only when it is at rest.
- *Schema check*: green releases in sequence never reuse or break what any earlier
  one promised, not only the one before.

## 2. The modules and the code

`PROJECT.json` maps every definition to its lines. Parts outside `src/` (the media
server, Keycloak, browsers, asyncio's loop) are modelled from how the code uses
them and marked *External* in the modules. Definitions introduced as a *faulty
variant* are what a plausible mistake would make of the definition that follows
them; no specification uses them, and each breaks the property it was written for.

| Module | Code | State and actions |
|---|---|---|
| `LinkLeases` | none: an abstract specification | What a cache of links promises: at most one lease per tenant and asset, granted from a fresh result, never moved or prolonged, over before the links are |
| `AssetUrlCache` | `cache.py` | One action per method, since each holds the lock throughout. `entries` and `older` are the OrderedDict, `tenantsByAsset` the separate index, `sweepAt` the threshold. `get` is `get_many` of one id, `put` `put_many` of one result |
| `DeliveryResolve` | `gate.py`, `delivery.py`, over `AssetUrlCache` | `Resolve` (can_access, the lookup, the first request), `ServerAnswers`, `Receive` (next batch), `Store` (put_many and the return), `Fail`; the server may answer an id with its result, `forbidden`, an error or not at all; `ChangeAsset` and `InvalidateAsset` by the app |
| `EmbeddedLinks` | `embed.py`, the delivery mapping it uses, and `integrations/strawberry.py` | A page from any delivery answers and any decision of can_access, `Embed`ded at once or, in GraphQL, batch by batch: `LoadBatch` opens one, `Loaded` or `BatchFails` ends it, `Send` sets Cache-Control; then the page ages |
| `ClientCredentials` | `credentials.py` | Steps between awaits: `Token`, `Enter` (the lock), `Issue` (Keycloak), `Fetched`, `FetchFails`, `Cancelled`, `Invalidate`, `Renew` |
| `GrpcCalls` | `grpc_transport.py` `_call`, `methods.py`, over `ClientCredentials` | `AskToken`, `Send`, then one action for each way the loop goes on: `Succeed`, `RenewOnce`, `Retry`, `Raise`, and `Abandon` when it is cancelled; the server may process a request at any later time, `Break` loses an answer |
| `ClientResources` | `client.py`, the connections and aclose of both transports and of the credentials, over `ClientCredentials`: the gRPC channel and Keycloak's client are opened lazily and again after a close, the HTTP transport's client is there from the start and stays closed | `Call`, `Turn`, `Answered`, `TokenEnds`, `Attempt`, `BacksOff`, `Rejected`, `Ends`: where a call opens or uses a connection; `Aclose`, `MediaClosed`, `KeycloakClosed`, `CloseCancelled`: the awaits of aclose() |
| `UploadFile` | `uploads.py` upload_file, `_abort_quietly` | One action per stretch between awaits: `Upload`, `Created`, `PartDone`, `Finalized`, `Failed`, `Checked`, `Aborted`, `Cancel`; `Serve`, `Break`, `Expire` are the network and the session |
| `UploadProfile` | `profiles.py` | Operators only: `ValidFile`, `ValidAsset`, `MayUse` and the checks they share |
| `MediaGrants` | `grants.py`, issue_grant of both transports | Operators only: the payload of a profile, what each transport sends of it, what the library admits with it |
| `RemoteErrors` | `exceptions.py`, `_http.py`, `reasons.py`, `contract.py`, the status table of `grpc_transport.py` | Operators only: the classes, statuses to exceptions, the declared refusals and their statuses |
| `ServiceRouters` | `integrations/fastapi.py` media and grant routers, over `MediaGrants` and `RemoteErrors` | One request at a time: `AskGrant`, `RefuseBody`, `Refuse`, `Authorize`, `Issue`, `IssueLost`, `GrantFails`; `AskAssets`, `Resolve`, `ResolveFails`, `AccessRaises`; `Upload` with a grant by the browser |
| `ServiceUploads` | `integrations/fastapi.py` upload router, `service_uploads.py`, verify_upload, open_session | Requests on several threads: start (`Start`, `Created`, `Granted`, `Save` and their failures), refresh (`Refresh`, `Refreshed`), attach (`Attach`, `SessionRead`, `AssetRead`, `MarkAttached`, `OnAttach`); browsers finalize or give up in between; `Restart` drops every request and keeps or loses the store |
| `LoopThread` | `_sync.py`, `client.py` | Threads step from check to submission to result, or through close(); the loop runs iterations of callbacks as asyncio does |
| `CompatChain` | `src/tools/check_compat.py` | The findings as sets, `Compatible` (green), and `Release`, which moves the baseline |

The modules called `…Proofs` hold the theorems about the module they are named
after; `ClientProofs` is about `ClientCredentials`, `GrpcCalls` and
`ClientResources`, and `ServiceWebProofs` about `EmbeddedLinks` and
`ServiceRouters`. The modules called `MC…` give the constants values for TLC.
`MCServiceWeb` composes `EmbeddedLinks` and `ServiceRouters` as the two parts of one
web process.
`ClientResources` and `GrpcCalls` both extend the credentials: the first keeps what
is open and leaves a call's answers open, the second the reverse.

**Abstractions.** Times are whole ticks, several to a second where rounding matters
(the cache). Strings, urls, names and bytes are model values or small records with
the attributes the code compares: a result has its status and the set of positive
lifetimes of its links; a file content has a mime type and a size. A lifetime of 0
and one of `None` are one value where the code treats both as falsy
(`_expiry_fields`, `_delivery_ttl`). In `ServiceUploads` a request refused before any
effect (404, 409, 422) is not a step, and a session makes at most one asset, which
has the session's name. Idempotency records live as long as the retries of a call,
as the server has to keep them for the keys to mean anything.

## 3. The runs

Every passing run finishes its whole state space. Each of its properties has at
least one mutant in `PROJECT.json`: a definition replaced by a faulty variant of
it, under which TLC finds the property violated.

| Run | Expected | Properties | What it shows |
|---|---|---|---|
| `cache` | pass | `TypeOK`, `IndexMatchesEntries`, `ExpiringNeverReportedAsPermanent`, `ReportedWithinLease`, `ImplementsLeases`, `InvalidateIsExact`, `PutSupersedes`, `EvictsLeastRecent` | Two tenants' namespaces, two assets, links shorter and longer than the margin, a full cache and sweeps: the index is exact, hits report what is left, invalidate, put_many and eviction touch only what they should, and the cache implements LinkLeases. |
| `resolve` | pass | `ItemsAreForTheCaller`, `LinksLiveOnReturn`, `ReportedLongerByLatency`, `NoStaleAfterQuietInvalidate` | A caller alone whose pages take two batches, and two callers of two namespaces sharing a cache, with changes, invalidations, refusals, silence and failures in between: every id gets its own item, a link works on return unless its two calls took longer than the margin, the time left is overreported by their length only, and a quiet invalidation holds. |
| `client_resources` | pass | `FetchOnlyWhenDue`, `TokenLasts`, `HandlesReleased`, `AttemptsOverOpenChannel`, `AskersEnd` | Two coroutines call a client built in four ways, with failing, cancelled and rejected token requests and retries, while others close it: fetches are shared and tokens last, no handle is lost, passed ones stay open, and calls after aclose() run over an open channel. |
| `grpc` | pass | `CarriedOutOnce`, `RejectedTokenNotReused` | A mutating and a read-only call share the credentials while tokens are revoked, answers are lost and abandoned attempts are processed late. |
| `upload_file` | pass | `FinalizedIsWhole`, `PartsExpectedKept`, `ClosedWhenRaised`, `BlobKept`, `UploadEnds` | Files of 0 to 5 bytes in parts of 1 to 3, sources that end early, and every request failing before, after or long before the server carries it out. |
| `upload_file_cancelled` | violation | `ClosedOnAnyFailure` | A cancelled upload (asyncio.wait_for, a task group) leaves its session open: CancelledError passes the except clause. |
| `service_uploads` | pass | `AttachedOnce`, `AttachedIsVerified`, `RecordedOrClosed`, `GrantsForTheStarter` | Two threads serve start, refresh and attach requests of two users and two profiles for two sessions while browsers upload other files than they described, finalize or give up, and a restart keeps or loses the store: attached once, what was verified, no session without a record. |
| `loop_thread` | pass | `ClosedAtRest`, `CallsReturnUnlessClosing` | Two calls (one calls the client from its own loop) and two close() at once: the loop is closed at rest, and a call that no close() overlaps returns. |
| `loop_thread_shared` | violation | `CallsReturn` | When close() overlaps a call of another thread, that thread waits forever: nothing ends its coroutine once the loop has stopped. |
| `compat_chain` | pass | `NumbersKeepTheirShape`, `RetiredStayUnused`, `SignaturesKept` | Every chain of releases of a message, an enum and a service: what neighbouring comparisons accept keeps the promises of all earlier releases. |
| `service_web` | pass | `LinksOutliveThePage`, `TeaserOnly`, `SourcesFit`, `DeniedAreForbidden`, `AnswersTellTheirCause`, `GrantsAsDecided`, `UploadsFitTheProfile` | What a service's routers and GraphQL fields give its users: pages of two items in every split into batches, looked at until their links have expired; asset, page and grant requests with every answer and failure of the library over both transports, and uploads with the grants. |
| `grant_router_unreachable` | violation | `UnreachableIs502` | Over HTTP a grant whose library is not reached is answered 500: httpx's exceptions pass _media_library_errors, which catches the client's own. |

**Why the bounds are enough.** The cache: two assets and two namespaces fill a cache
of two, three entries start a sweep, lifetimes lie below, at and above the margin,
two ticks to a second make ages that are not whole, and one batch names an asset
twice. Resolve: two instances in one run (`alone`), a caller whose page names two
assets, one of them twice, in batches of one, with a server change, a tick, a refusal,
silence or a failure between; and two threads of two tenants that ask for one asset
over one cache. One version change is the fewest that makes a stale result, and
staleness is about one change and one call. A call lasts up to two ticks, the margin
is one: calls within the margin and beyond it both occur, and `LinksLiveOnReturn`
cannot be had for a latency one tick above the margin. Client resources: two
coroutines, one fetching a token and one waiting for it, two closers with two closes
in all (one after the other, or overlapping), and four ways to build a client: over
either transport, with nothing, the media connection or both passed
in; three tokens let one be replaced twice. Time passes only in
a client that is never closed (`Closable`, `TimePasses`): what closing does reads no
clock, and `Invalidate` ends tokens in the others. gRPC: one mutating and one other call sharing a
token, a retry and a renewal each, in every mix of failures and cancellations.
Upload: sizes and part sizes on both sides of each other, with a last part that is
short, none at all, and a source that ends early. Service uploads: two of everything
that competes (threads, users, profiles, sessions), contents at a limit, above it
and of another type, and one restart, which is all that a lost record takes. Loop: a
call, a reentrant call and two closers. Compatibility: two field numbers and the
ranges around them; three releases are what reserve-then-reuse takes, and runs of
any length are explored. Web: one page of two ids over every pair of answers,
decisions and splits into batches, ages on both sides of every lifetime; profiles
with limits of every sort (some types, a whole type, any, none, no bytes), two users
with and without the permission, requests that name an unknown profile or a scope
browsers may not have, and one grant, since grants do not affect each other; the
media router with and without thumbnails, the grant router with and without
`get_subject`. `grant_router_unreachable` is the same instance.

## 4. Fairness

Only liveness properties use it.

- `UploadFile!FairSpec`: weak fairness of the client's steps, because the event
  loop runs a coroutine that is ready, and of `Break`, because the HTTP client has a
  timeout, so no request is awaited for ever. Nothing is assumed of the server: it may
  never answer. Hence `UploadEnds` says that timeouts alone end an upload.
- `ClientResources!FairResources`: weak fairness of each coroutine's own steps in
  the credentials. A request in progress is answered or fails (`TokenEnds` covers
  the timeout, and the client closed under it). No fairness of `Issue`: Keycloak may
  be down. asyncio's lock is first come, first served, which is the sequence `lock`.
  Closers need not ever go on, so `AskersEnd` does not rest on them.
- `LoopThread!FairSpec`: weak fairness of every thread (the scheduler), of the loop's
  thread, and of `IoDone`, since what a coroutine awaits has a timeout. A thread
  need not ever make its call.

## 5. The proofs

Checked by TLAPS with no step left out and nothing assumed beyond the named
`ASSUME`s on the constants. Each module states an inductive invariant as named
conjuncts, shows that every action preserves it, one step per action, and reads the
properties off it. Every safety property of a passing run is a theorem.

**`AssetUrlCacheProofs`**, from `CacheConstants` (types of the constants).
`IInv` is `TypeOK` with `IndexMatchesEntries` and `LeasesHold`: every entry is on a
cacheable result for its own asset, was stored in the past, and ends at least a
margin before each of its links. What a hit reports depends on entries that were
stored long ago, so neither reporting property is inductive without `LeasesHold`,
and `invalidate` without a tenant is exact only because the index matches. The
argument is one lemma per method that says how the entries and the index changed
("keeps some, adds fresh ones"), and three short steps on top. Eviction adds
`OrderHolds`: `older` strictly orders the keys that are there. `popitem` counts
positions in that order, so only in a strict total order are the keys it keeps
(`Youngest`) exactly the most recent ones, and as many as `max_entries`. `put_many` is
read through the operators it is built from, `Put` of the batch, `Swept`,
`OrderAfterPut` and `Kept`, with a lemma each, since the batch is of any length.

| Theorem | Property | Establishes |
|---|---|---|
| `TypeCorrect` | `TypeOK` | Every reachable state of the cache is well-typed, for all ids, tenants, results, margins and sizes. |
| `IndexAlwaysMatches` | `IndexMatchesEntries` | The invalidation index lists exactly the tenants with an entry, whatever is stored, dropped, swept or evicted. |
| `HitsStayWithinLease` | `ReportedWithinLease` | No hit reports more time than is left since the store, and every link of a hit has more than the safety margin left. |
| `ExpiringStaysExpiring` | `ExpiringNeverReportedAsPermanent` | With a margin of at least one second no expiring link is ever reported with a lifetime of 0, that is as never expiring. |
| `InvalidateExact` | `InvalidateIsExact` | invalidate drops every tenant's entry of the asset, or exactly the given tenant's. |
| `CacheImplementsLeases` | `ImplementsLeases` | The cache, with its index, sweeps and LRU order, implements the leases of LinkLeases. |
| `PutAlwaysSupersedes` | `PutSupersedes` | What put_many leaves under a key it was offered is the last result for the asset, stored now; it is missing only when it may not be cached or the cache is full. |
| `PutEvictsLeastRecent` | `EvictsLeastRecent` | put_many leaves at most max_entries, and what it evicts was used before everything it keeps, for caches and batches of any size. |

`ExpiringStaysExpiring` needs `SafetyMargin >= TicksPerSecond` (a margin of at least
one second): with `safety_margin=0`, which the constructor accepts, a hit in the last
second of a link is rounded to 0, and 0 reads as "never expires". The default margin
is 30 (`cache.py:77`).

**`DeliveryResolveProofs`**, from `ResolveConstants`. The calls share one cache, so
the module takes the cache's proofs as an instance (`CP`) and first shows that both
mean the same by every operation (`SamePutMany` and the lemmas before it); each
lookup, store and invalidation then keeps the cache's invariant by its own lemmas.
`IInv` adds what holds of every entry (`EntryGood`: its namespace and asset are those
of its result, and it is at least as recent as the last quiet invalidation) and of
every call (`CallGood`). `InHand` says of a result that a call holds, found or fetched,
that the time since the server issued it is covered by the reported age and the
latency, and that the link has the margin left beyond the latency, or was issued
within it. `Complete` says that no id gets lost: each allowed one was found, is among
the fresh results, is still to be asked for, or the server returned nothing for it;
when a batch has been answered this is so for each of its ids. `ItemsGood` is what a
call returns. None of the four properties is inductive alone: what a call hands over
was put into the cache by another call, long before, and may have been invalidated
since. Nothing is assumed of the margin, of how long a call takes or of how long a
link lives: `latency`, a ghost, measures the two calls on each item's way, and
`LinksLiveOnReturn` says what follows when it is within the margin.

| Theorem | Property | Establishes |
|---|---|---|
| `ItemsAlwaysForTheCaller` | `ItemsAreForTheCaller` | No entry and no link crosses tenants, a user without access gets no link but a thumbnail, and every id gets its item: of an allowed id with the status the cache or the server answered for it, forbidden included, in whatever batch, unless the server returned nothing. |
| `LinksAlwaysLiveOnReturn` | `LinksLiveOnReturn` | A link handed to a user still works then if the call that stored it and the call that hands it over took together no longer than the margin, and less than the link lives; nothing is assumed of the margin or of how long calls take. |
| `ReportedAlwaysWithinLatency` | `ReportedLongerByLatency` | The time that a user is told is left of a link exceeds the real one by at most the two calls its way through the cache took. |
| `QuietInvalidationsHold` | `NoStaleAfterQuietInvalidate` | A result that was invalidated while no call was on its way is not in the cache, and no later call brings it back. |

**`ServiceWebProofs`**, about pages from `AnswersAreDelivery` and about the routers
from `RouterConstants`. `PageInv` says that every item is what `EmbedOne` made of an
answer at an earlier age (`ItemsInv`), that an id waits in one batch only
(`BatchesInv`) and that the response knows whether it holds links that end
(`TokenedInv`, which is what makes `Send` right after any sequence of batches). The
rest is about one item: the shortest lifetime among its links, and the sorting by
width, which keeps one source per width and leaves out none. `RouterIInv` says what
an open request has established so far (`OpenInv`) and what was sent for each grant
the library signed (`IssuedInv`); the statuses follow from the exception
classes and the declared refusals, case by case. The assumptions say what the sets
of inputs stand for: delivery gives a url one lifetime; the link beside an asset, if it
is one of the asset's, is of a thumbnail rendition; a profile is filed under its name;
no user, asset or cause is the absent value.

| Theorem | Property | Establishes |
|---|---|---|
| `EmbedLinksOutliveThePage` | `LinksOutliveThePage` | The lifetime an embedded item states covers each of its links, and a page that holds links that end is marked private, for any answers in any batches. |
| `EmbedTeaserOnly` | `TeaserOnly` | An item embedded for a user without access carries links of the asset's thumbnail rendition only. |
| `EmbedSourcesFit` | `SourcesFit` | The sources listed for a poster are in order of width, one per width, and for a video in its shape, for any set of renditions. |
| `RouterAnswersTellTheirCause` | `AnswersTellTheirCause` | A refusal of the library is never answered as the user's own 403, nor as a 422 but for an invalid argument; what keeps a call from being made, reaching the library or making sense ends as a 5xx, which is the gate's 502 for assets and may be 500 for grants. |
| `RouterDeniedAreForbidden` | `DeniedAreForbidden` | Every asset the app denies is answered forbidden, there or not, and with a thumbnail only if the router shows them and the library sent one. |
| `RouterGrantsAsDecided` | `GrantsAsDecided` | The library signs no grant but what the app said yes to, for the user who asked. |
| `RouterUploadsFitTheProfile` | `UploadsFitTheProfile` | Whatever is uploaded with a grant is a file that the profile it names accepts, over both transports. |

**`CompatChainProofs`**, from `ProtocAccepts` (protoc rejects a descriptor whose
fields or values use their own reservations). `NumbersKeepTheirShape` is not
inductive: a number that is absent now must also be reserved now, or the next
release could bring it back. `FieldsAccountedFor` adds this, `RetiredStillReserved`
does so for enums; `SignaturesKept` is inductive as it stands. The theorems hold for
all schemas and chains of any length.

| Theorem | Property | Establishes |
|---|---|---|
| `NumbersStable` | `NumbersKeepTheirShape` | Along every chain of compatible releases, of any length and any schemas protoc accepts, a field number never changes its type, label or message type, not even after it was retired. |
| `RetiredUnused` | `RetiredStayUnused` | Along every such chain no enum number that a release has reserved is given to a value again. |
| `SignaturesStable` | `SignaturesKept` | Along every such chain every method of an earlier release is there with its request and response type. |

**`ClientProofs`, the credentials**, from `CredentialsConstants`. `LockInv`: those who
wait for the lock are in its queue once, and only the head of the queue is past it.
`DueInv`: whoever fetches found no usable token, and no other was cached since.
`TokenInv`: a token on its way from Keycloak is the newest, and nobody has seen it.
`TokensLast` needs
`2 * MaxLatency <= Lifetime`: a token whose request and answer took longer than half
its life has little left however it is cached.

| Theorem | Property | Establishes |
|---|---|---|
| `FetchesShared` | `FetchOnlyWhenDue` | For any number of coroutines asking at once, only the holder of the lock fetches, and only when no usable token was cached when it began. |
| `TokensLast` | `TokenLasts` | When a fetch takes at most half of a token's lifetime, every token that token() returns has the margin left, whoever fetched it. |

**`ClientProofs`, the gRPC calls**, from `CallConstants` and the credentials' invariant, which
every step of a call keeps. `EffectInv` ties what the server did to its records: an
effect has a record under the call's key, a call that returned has an effect.
`SeenInv`: no token a call has sent is still on its way to the cache. `RefusedInv`: a
token a call was refused is neither cached nor returned to it, so that a call that
renewed holds another one. Both take a lemma on how tokens flow from Keycloak through
the cache to the coroutines (`Flows`).

| Theorem | Property | Establishes |
|---|---|---|
| `CallsCarriedOutOnce` | `CarriedOutOnce` | For any number of coroutines and retries, with answers lost, requests processed late, tokens refused and calls cancelled, the server carries a mutating call out at most once, and exactly once when it has returned. |
| `RejectedNotReused` | `RejectedTokenNotReused` | A call is never sent again with a token the server refused it, and fails as unauthenticated only after two different tokens were refused. |
| `CallsShareFetches` | `FetchOnlyWhenDue` | The credentials share their fetches under the calls of the gRPC transport, which drop the cached token when it is refused. |

**`ClientProofs`, the connections**, from `ResourceConstants`. `OwnsInv`: the transport
owns what it opened and nothing it was passed. `Released`: while no two acloses
overlap, everything open that the client opened is still referred to, and an aclose()
leaves open only what was opened after it began. `ChannelInv`: the cached stub is the
current channel's, which is open unless it is being closed or its close was cancelled.
`KeepsCredentials` shows that each step of the
client is a step of `ClientCredentials` or leaves it alone, so what is proved of the
credentials carries over (`ResourcesShareFetches`).

| Theorem | Property | Establishes |
|---|---|---|
| `KeepsCredentials` | refinement | The client's resources implement the credentials: every step of the client is a step of ClientCredentials or leaves them alone. |
| `ResourcesShareFetches` | `FetchOnlyWhenDue` | The credentials share their fetches in a client that is used, closed and used again. |
| `Releases` | `HandlesReleased` | aclose() never closes a channel or httpx client to media that was passed in; unless two acloses overlap nothing the client opened is lost, and all of it is closed when an aclose() has ended undisturbed. |
| `AttemptsOpen` | `AttemptsOverOpenChannel` | After an aclose() that was not cancelled, no request goes out over a closed channel. |

**`LoopThreadProofs`**. `StartInv`: a submitted coroutine waits for its start once, and finishes
after it. `StopInv`: the loop is stopped only by a thread whose aclose() is over.
`RestInv`: nothing is left of an iteration once the loop has stopped. The callbacks of
the current iteration and the ready ones are read as one queue, `Pending`.

| Theorem | Property | Establishes |
|---|---|---|
| `AtRestWhenClosed` | `ClosedAtRest` | For any number of threads and calls, the loop is closed only after its thread has left its iterations and an aclose() has run to its end. |

**`UploadFileProofs`**, from `UploadConstants`. `PlaceInv` relates where the call is to
what the session can be; `AnswerInv` what its last answer says to the session, which
may have moved on when a request is carried out late; `SeenInv` what the clean-up
knows when it looked; `ExpectedInv` the next part to the parts the session accepts.
`ChunksInv` is what `FinalizedIsWhole` needs: before part k the call has read (k − 1) parts of
`partSize`
bytes, the session has the first k − 1 of them or, once the request was carried out,
k, and no other part is under way; when finalize is asked for it has all
`total_parts`. `TotalPartsRoundsUp` says that these are just enough parts to hold the
file, which takes the non-linear bounds of `(size + part_size - 1) // part_size`.

| Theorem | Property | Establishes |
|---|---|---|
| `SendsExpectedParts` | `PartsExpectedKept` | For files, part sizes and sessions of any size, upload_file never sends a part whose number is above what the session accepts. |
| `KeepsBlobs` | `BlobKept` | A blob that is there when upload_file looks at the session after a failed finalize is never deleted, and upload_file returns only while the blob is there, for requests that fail, are carried out late or get no answer. |
| `RaisesClosed` | `ClosedWhenRaised` | When upload_file raises after its session was created, the session is closed, unless the clean-up itself failed. |
| `FinalizesTheWholeFile` | `FinalizedIsWhole` | A session that is finalized holds the whole file, each byte once, in parts numbered from 1 in order, for files and part sizes of any size and whatever request fails or is carried out late. |

**`ServiceUploadsProofs`**, from the module's `UploadConstants`. `WorkerInv` says what
each request knows at each of its steps (its session is open and its own, its record
exists, what it read of an asset is still so); `AloneInv` that no two requests start
the same session; `EachInv` how a session, its record, its attaches and the orphans
belong together; `GrantsInv` that grants name who opened the session.

| Theorem | Property | Establishes |
|---|---|---|
| `ClaimedOnce` | `AttachedOnce` | For any number of threads, users, profiles and sessions, with failures, cancelled sessions and restarts, on_attach is called at most once for a session, for its owner and with the asset on the record. |
| `ClaimedIsVerified` | `AttachedIsVerified` | What any record says attached was made by its session, or on servers that do not say has its bytes, and is of the kind, visibility, type and size its profile asks for. |
| `StartedIsRecorded` | `RecordedOrClosed` | Every open session has a record or a request that still starts it, unless a call to the media library got no answer or the service was restarted. |
| `StarterGetsGrants` | `GrantsForTheStarter` | Every grant issued for a session names the user who started it. |

**Only model-checked.** The liveness properties `AskersEnd`, `UploadEnds` and
`CallsReturnUnlessClosing`: fairness, and `ENABLED` in it, are out of the prover's
reach. So are recursively defined operators and induction over data with an operator
parameter; `FinalizedIsWhole` speaks of bytes and part numbers rather than of a sum
over the parts for this reason, and sizes are ordered and counted with finite-set
lemmas. The three properties that are violated, `ClosedOnAnyFailure`, `CallsReturn`
and `UnreachableIs502`, have a counterexample each.

## 6. What disagrees with the documentation

Three runs are expected to end in a violation; the properties say what a document
says.

- `upload_file_cancelled`: `README.md:512` promises that any failure after the session was
  created aborts it. `except Exception` (`uploads.py:417`) does not see a
  cancellation, so a cancelled upload leaves its session open until it expires.
- `loop_thread_shared`: `client.py:183` calls the sync client safe to share between threads.
  A call in progress, or just submitted, while another thread closes the client
  waits for a coroutine the stopped loop never finishes (`_sync.py:40`).
  `CallsReturnUnlessClosing` is what does hold.
- `grant_router_unreachable`: `fastapi.py:175` and `README.md:1585` promise a 502 when
  the media library cannot be reached. Over HTTP that is an exception of httpx, which
  `_media_library_errors` (`fastapi.py:497-505`) does not catch, so the browser gets a
  500; the upload router's `_upload_errors` (`fastapi.py:478`) does catch it.

Smaller observations from modelling, each stated in the module concerned:

- The time left that a hit reports is too long by the latency of the two calls on its
  way, at most (`ReportedLongerByLatency`). A link works when it is handed over if
  those calls took no longer than the margin (`LinksLiveOnReturn`). Nothing in the code
  relates the two: `cache.py:44-46` says the margin covers the request latency, and it
  is 30 s by default, while a gRPC resolve may take three attempts of 30 s each and the
  backoff between them (`client.py:80-81`), for every batch. A page that slow may be
  handed a link that has just ended.
- `gate.py:74-75` says that with `hide_missing` a user cannot tell which ids exist. All
  denied ids are `forbidden` then, but one that exists keeps its public thumbnail
  (`gate.py:151-152`), which a missing one cannot have; the media router shows it
  (`fastapi.py:130`, with `thumbnails=True`). Only without thumbnails do they look the
  same (`DeniedAreForbidden`).
- `_abort_quietly` looks at the session, then aborts it. A finalize that the client
  gave up on and the server carries out between the two loses its blob; `BlobKept`
  excepts exactly this case (`session.late`).
- `refresh_grant` may issue a grant for a session that was attached a moment before.
- `check_compat.py` compares methods by their request and response types only, not
  by whether they stream, so a green check is less than its docstring promises
  (`check_compat.py:6-8`, a pinned peer can still talk). `SignaturesKept` speaks of the
  types only.
- A call or a retry after aclose() opens the gRPC channel and Keycloak's httpx client
  again (client.py does not remember that it was closed); the next aclose() closes
  them. The HTTP transport's client is not opened again: a call over it fails. Two
  acloses that overlap, or one and a call that opens in between, forget a handle that
  nobody closes; `HandlesReleased` excepts this.
- A cancelled aclose() leaves the closed channel in place, and the next call fails
  over it; `AttemptsOverOpenChannel` excepts this.
- `credentials.aclose()` closes an httpx client for Keycloak even when it was passed
  in.
- A 401 over HTTP does not drop the cached token; over gRPC it does, once per call.
- Over gRPC, too, a grant answer that does not parse (`pydantic.ValidationError`,
  `grpc_transport.py:346-377`) is a 500 from the grant router; the gate wraps the same
  error for assets (`gate.py:31-33`), which is a 502.
- A restart of the service between the create request and the save leaves a session
  without a record; so does losing the in-memory store. `RecordedOrClosed` counts
  both as orphans.
- The embedder treats a link without a reported lifetime as permanent for an
  allowed user. For a denied one only the thumbnail that is among the links with a
  known lifetime is embedded.

## 7. Not modelled

- Permalinks, assets and processing APIs, `delivery.get` and `list`, and the single
  requests of `uploads.py`: each builds one request and parses one answer, and keeps
  nothing between calls. A property of one would restate its assignments.
- `models.py`: data types. The modules keep the fields they tell apart.
- Resolve with grants: no cache and no state.
- Checksums and the temporary copy of a source that cannot seek.
- Argument checks and the wording of errors. The mapping of statuses to exceptions
  is in `RemoteErrors`; bodies and the packing of ErrorInfo are not.
- Field-by-field message mappings of the gRPC transport other than delivery's and
  issue_grant's.
- Processing options, ttl and collection names (passed on unread); `set_token`, which
  replaces a string.
- Upload stores other than the in-memory one.
- Releases signed off against a red check, and reading descriptor files. The streaming
  flags of methods are in the descriptors, and `Compatible` ignores them as the code
  does.
- The generated protobuf code.

## 8. The plan

Order of work: the cache first (most state, and all links go through it), then what
reads it, then uploads, then the clients, then what a service offers its users, then
the tools. All modules of the plan are there. What would come next:

1. Models: that an honest upload, left alone, is attached (a liveness property of
   `ServiceUploads` under fairness of its requests); an abstract specification of an
   upload (created, whole, finalized or closed) that `UploadFile` implements, and one
   of an at-most-once call for `GrpcCalls`.
2. Proofs: every safety property of the runs is proved. Left are the refinements of
   those abstract specifications, and type invariants of the modules that do without
   a named one.
