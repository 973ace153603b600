---------------------------- MODULE MCServiceWeb ----------------------------
(***************************************************************************)
(* The web process of a service, for TLC: responses that embed media, and  *)
(* the two routers, over one gate.  They share nothing else, so a behaviour *)
(* serves either; pages are embedded over gRPC, delivery's only transport.  *)
(***************************************************************************)
EXTENDS EmbeddedLinks, ServiceRouters

\* Thumbnails are the media router's option, the subject the grant router's, so
\* one stands for the other.
WebInit == Init /\ RouterInit /\ router.thumbnails = teasers /\ router.subject = teasers

Embedding == request = NoRequest /\ router.transport = "grpc"
Routing == page = <<>> /\ batches = {} /\ failed = {} /\ response = "building" /\ age = 0

WebNext ==
    \/ Embedding /\ Next /\ UNCHANGED routerVars
    \/ Routing /\ RouterNext /\ UNCHANGED vars

WebSpec == WebInit /\ [][WebNext]_<<vars, routerVars>>

-----------------------------------------------------------------------------
(* Delivery's answers. *)

Link(url, expires) == {[url |-> url, expires |-> expires]}
Variant(link, width, height) == [link |-> link, width |-> width, height |-> height]
Rendition(type, preview, variants) == [type |-> type, preview |-> preview, variants |-> variants]

\* Stills out of order, two of one width, one squashed, one without a link and
\* one without a size.
Stills(expires) ==
    Rendition("thumbnail", Link("still", 0),
              <<Variant(Link("s128", expires), 128, 72), Variant(Link("s32", 0), 32, 18),
                Variant(Link("s32b", 1), 32, 18), Variant(Link("s64", 1), 64, 48),
                Variant({}, 256, 144), Variant(Link("s0", 1), 0, 0)>>)
Bare(link) == Rendition("thumbnail", link, <<>>)
Film == Rendition("cmaf", Link("film", 3), <<Variant({}, 640, 360), Variant({}, 1280, 720)>>)

Asset(kind, ready, download, streams, renditions) ==
    [kind |-> kind, ready |-> ready, download |-> download, streams |-> streams,
     renditions |-> renditions]

SomeAssets ==
    \* a video with stills that expire earlier or later than its streams, or never
    {Asset("video", TRUE, Link("file", 3), Link("hls", 2), <<Film, Stills(e)>>) : e \in 0..3}
      \cup {Asset("video", r, Link("file", 2), {}, <<Bare({}), Stills(0)>>) : r \in BOOLEAN}
      \cup {Asset("video", FALSE, {}, {}, <<Film, Stills(1)>>)}
      \* images whose links never expire, or all, or the thumbnails only
      \cup {Asset("image", TRUE, Link("file", d), {}, <<Stills(e)>>) : d \in {0, 2}, e \in {0, 1}}
      \cup {Asset("image", FALSE, Link("file", 1), {}, <<Bare(Link("p", 0))>>)}
      \* other kinds: a preview outside the thumbnails, or with sizes
      \cup {Asset("audio", TRUE, {}, Link("hls", 2) \cup Link("dash", 2), <<>>),
            Asset("document", TRUE, Link("file", 2), {}, <<Rendition("pdf", Link("pdf", 2), <<>>)>>),
            Asset("document", TRUE, Link("file", 0), {}, <<Stills(3)>>)}

\* An asset whose thumbnail has sizes only.
Sizes == Asset("audio", TRUE, Link("file", 1), {},
               <<Rendition("thumbnail", {}, <<Variant(Link("s64", 2), 64, 48)>>)>>)

Answer(status, asset, thumbnail) ==
    [status |-> status, asset |-> asset, thumbnail |-> thumbnail]

SomeAnswers ==
    {Answer("ok", {a}, {}) : a \in SomeAssets}
      \cup {Answer("ok", {a}, {"public"}) : a \in {b \in SomeAssets : b.kind = "audio"}}
      \cup {Answer("ok", {Sizes}, {"s64"})}
      \cup {Answer(s, {}, {"public"}) : s \in {"forbidden", "error"}}
      \cup {Answer(s, {}, {}) : s \in {"not_found", "ok"}}

-----------------------------------------------------------------------------
(* The app behind the routers. *)

Profile(name, types, minSize, maxSize, required) ==
    [name |-> name, kind |-> "image", visibility |-> "public", allowed |-> types,
     minSize |-> minSize, maxSize |-> maxSize, required |-> required, anonymous |-> FALSE]

\* Limits of every sort: some types, a whole type, any type, none, no bytes.
SomeProfiles ==
    [cover |-> Profile("cover", {{"png"}}, {1}, {2}, {"write"}),
     film |-> Profile("film", {{"video/*", "png"}}, {}, {}, {}),
     any |-> Profile("any", {{"*/*", "png"}}, {}, {1}, {}),
     free |-> Profile("free", {}, {}, {}, {"write"}),
     none |-> Profile("none", {{}}, {}, {}, {}),
     empty |-> Profile("empty", {{"png"}}, {}, {0}, {})]

SomePermissions == [u1 |-> {"write"}, u2 |-> {}]
SomeWildcards == [png |-> "image/*", mp4 |-> "video/*"]
SomeFiles == {"png", "mp4"} \X {{}, {1}, {3}}

Body(scopes, profile, assets, sessions) ==
    [scopes |-> scopes, profile |-> profile, assets |-> assets, sessions |-> sessions]

SomeRequests ==
    {Body({"upload"}, {n}, {}, {}) : n \in DOMAIN SomeProfiles \cup {"other"}}
      \cup {Body({"upload"}, {}, {}, {"s1"}), Body({"read"}, {}, {"a1"}, {}),
            Body({"read", "upload"}, {"cover"}, {"a1", "a2"}, {"s1"}),
            Body({"manage:*", "read"}, {}, {"a1"}, {}),
            Body({"manage:*"}, {"other"}, {}, {})}

SomePages == {{"a1"}, {"a1", "a2"}}
=============================================================================
