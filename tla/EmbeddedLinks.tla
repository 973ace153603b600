---------------------------- MODULE EmbeddedLinks ---------------------------
(***************************************************************************)
(* pkg_media.embed.MediaEmbedder: a service embeds the links of the media  *)
(* its response refers to, after its own access check, all at once or, in  *)
(* a GraphQL response (integrations.strawberry), in the batches of the     *)
(* request's data loader.  The page then lives on, in browsers and perhaps *)
(* in shared caches, while its links expire; all it knows of them is each  *)
(* item's expiresIn and whether it is public.                              *)
(*                                                                         *)
(* A link is its url and the seconds it lives from now; 0 stands for both  *)
(* 0 and None, which mean it never expires (_expiry_fields tells them not  *)
(* apart).  An optional value is a set of at most one.                     *)
(***************************************************************************)
EXTENDS Integers, Sequences, SequencesExt

CONSTANTS
    Ids,         \* the ids of one page
    Answers,     \* what delivery may answer the service for one id
    MaxAge       \* bound on the time a page is looked at

VARIABLES
    teasers,     \* whether the embedder resolves denied ids (its thumbnails)
    answers,     \* external: id -> what delivery answered for it
    allowed,     \* the ids can_access let the user see
    page,        \* id -> the item embedded
    loadedAt,    \* id -> the age at which it was embedded
    batches,     \* GraphQL: the batches the data loader waits for
    failed,      \* GraphQL: the ids of the batches that raised
    tokened,     \* GraphQL: _RequestState.tokened
    response,    \* "building", or its Cache-Control once it is sent
    age          \* seconds since the request came in

vars == <<teasers, answers, allowed, page, loadedAt, batches, failed, tokened,
          response, age>>

-----------------------------------------------------------------------------
(* Delivery assets. *)

\* A rendition's links.
RenditionLinks(r) == r.preview \cup UNION {v.link : v \in Range(r.variants)}

\* Every link media gave out for the asset.  A url has one lifetime.
LinksOf(asset) ==
    asset.download \cup asset.streams \cup UNION {RenditionLinks(r) : r \in Range(asset.renditions)}

Thumbnails(asset) == {r \in Range(asset.renditions) : r.type = "thumbnail"}
ThumbnailLinks(asset) == UNION {RenditionLinks(r) : r \in Thumbnails(asset)}

\* The link an answer comes with beside the asset, if it is one of the asset's,
\* is of a thumbnail.
ASSUME AnswersAreDelivery ==
    /\ \A a \in Answers :
          /\ a.status \in {"ok", "not_found", "forbidden", "error"}
          /\ a.asset # {} => a.status = "ok"
          /\ \A asset, other \in a.asset : asset = other
          /\ \A asset \in a.asset :
                /\ \A k, l \in LinksOf(asset) :
                      /\ k.expires \in Nat
                      /\ k.url = l.url => k = l
                /\ \A l \in LinksOf(asset) : l.url \in a.thumbnail => l \in ThumbnailLinks(asset)
                /\ DOMAIN asset.renditions \subseteq Nat
                /\ \A r \in Range(asset.renditions) :
                      /\ IsFiniteSet(DOMAIN r.variants) /\ DOMAIN r.variants \subseteq Nat
                      /\ \A v \in Range(r.variants) : v.width \in Nat
    /\ MaxAge \in Nat

\* The first of the thumbnail renditions with a preview.
ThumbnailRendition(asset) ==
    LET rs == asset.renditions
        Shown == {i \in DOMAIN rs : rs[i].type = "thumbnail" /\ rs[i].preview # {}}
    IN  {rs[i] : i \in {k \in Shown : \A j \in Shown : k <= j}}

Sized(renditions) ==
    SelectSeq(FlattenSeq([i \in DOMAIN renditions |-> renditions[i].variants]),
              LAMBDA v : v.width > 0 /\ v.height > 0)

\* _dimensions: the widest variant outside the thumbnails (the first of them),
\* else an image's widest thumbnail; {} when the size is unknown.
Dimensions(asset) ==
    LET Others == Sized(SelectSeq(asset.renditions, LAMBDA r : r.type # "thumbnail"))
        Thumbs == Sized(SelectSeq(asset.renditions, LAMBDA r : r.type = "thumbnail"))
        sized == IF Others = <<>> /\ asset.kind = "image" THEN Thumbs ELSE Others
        best == SelectInSeq(sized, LAMBDA v : \A w \in Range(sized) : w.width <= v.width)
    IN  IF sized = <<>> THEN {} ELSE {<<sized[best].width, sized[best].height>>}

\* Two ratios of width to height within _SHAPE_TOLERANCE, 2 in a hundred.
SameShape(v, d) ==
    LET off == v.width * d[2] - v.height * d[1]
    IN  /\ v.width > 0 /\ v.height > 0
        /\ 50 * off <= v.height * d[1]
        /\ -50 * off <= v.height * d[1]

\* Faulty variant: stills squashed into another shape are listed.
FitsAny(v, asset) == TRUE

\* A video's stills count in its own shape only: of a video of unknown size none.
Fits(v, asset) == asset.kind = "video" => \E d \in Dimensions(asset) : SameShape(v, d)

\* The variants in the order of their widths, which differ.
ByWidth(variants) ==
    LET Below(v) == {w \in variants : w.width < v.width}
    IN  [n \in 1..Cardinality(variants) |->
            CHOOSE v \in variants : Cardinality(Below(v)) = n - 1]

\* _poster_sources: the rendition's variants with a link and a width, one per
\* width (the first listed), the smallest first.
Listed(thumb, asset) ==
    LET vs == thumb.variants
    IN  {i \in DOMAIN vs : vs[i].link # {} /\ vs[i].width > 0 /\ Fits(vs[i], asset)}

FirstOfWidth(thumb, asset) ==
    LET vs == thumb.variants
        First(i) == \A j \in Listed(thumb, asset) : vs[j].width = vs[i].width => i <= j
    IN  {vs[i] : i \in {k \in Listed(thumb, asset) : First(k)}}

PosterSources(asset) ==
    ByWidth(UNION {FirstOfWidth(thumb, asset) : thumb \in ThumbnailRendition(asset)})

LinksIn(sources) == UNION {v.link : v \in Range(sources)}
Preview(asset) == UNION {thumb.preview : thumb \in ThumbnailRendition(asset)}

-----------------------------------------------------------------------------
(* Items. *)

Positive(links) == {l.expires : l \in links} \ {0}

\* Faulty variant: the last link to expire decides.
ExpiresInLast(links) ==
    IF Positive(links) = {} THEN 0
    ELSE CHOOSE e \in Positive(links) : \A f \in Positive(links) : f <= e

\* _expiry_fields: 0 is None.
ExpiresIn(links) ==
    IF Positive(links) = {} THEN 0
    ELSE CHOOSE e \in Positive(links) : \A f \in Positive(links) : e <= f

\* "links" are the ones the mapping has collected, beside the item's own.
ItemWith(kind, url, poster, streams, sources, size, links) ==
    [kind |-> kind, url |-> url, poster |-> poster, streams |-> streams,
     sources |-> sources, size |-> size, expiresIn |-> ExpiresIn(links),
     public |-> links # {} /\ ExpiresIn(links) = 0]

\* Faulty variant: the links of the sources are not collected.
FromAssetUncollected(asset) ==
    LET url == IF asset.ready THEN asset.download ELSE {}
        sources == IF asset.kind \in {"image", "video"} THEN PosterSources(asset) ELSE <<>>
    IN  ItemWith(asset.kind, url, Preview(asset), asset.streams, sources, Dimensions(asset),
                 url \cup Preview(asset) \cup asset.streams)

FromAsset(asset) ==
    LET url == IF asset.ready THEN asset.download ELSE {}
        sources == IF asset.kind \in {"image", "video"} THEN PosterSources(asset) ELSE <<>>
    IN  ItemWith(asset.kind, url, Preview(asset), asset.streams, sources, Dimensions(asset),
                 url \cup Preview(asset) \cup asset.streams \cup LinksIn(sources))

\* Without the asset, or for a user who may not see it: at most the thumbnail,
\* when it is among the links whose lifetime the service knows.
Teaser(thumbnail, known) ==
    LET Found(asset) == {l \in LinksOf(asset) : l.url \in thumbnail}
        Item(asset) ==
            LET sources == IF Found(asset) = {} THEN <<>> ELSE PosterSources(asset)
            IN  ItemWith(asset.kind, {}, Found(asset), {}, sources, {},
                         Found(asset) \cup LinksIn(sources))
    IN  IF known = {} THEN ItemWith("other", {}, {}, {}, <<>>, {}, {})
        ELSE Item(CHOOSE asset \in known : TRUE)

\* thumbnail_url: the rendition's, else the one the answer came with.
ThumbnailUrl(answer) ==
    LET own == UNION {Preview(asset) : asset \in answer.asset}
    IN  IF own # {} THEN {l.url : l \in own} ELSE answer.thumbnail

\* Faulty variant: the service's own view of a denied asset is mapped.
EmbedAsService(answer, may, thumbnails) ==
    IF answer.asset # {} THEN FromAsset(CHOOSE asset \in answer.asset : TRUE)
    ELSE Teaser(answer.thumbnail, answer.asset)

\* EmbeddedMedia.from_result of what the gate returns: of an asset the user may
\* not see, when denied ids are resolved, the thumbnail; else the answer.
EmbedOne(answer, may, thumbnails) ==
    IF may /\ answer.status = "ok" /\ answer.asset # {}
      THEN FromAsset(CHOOSE asset \in answer.asset : TRUE)
    ELSE IF may THEN Teaser(answer.thumbnail, answer.asset)
    ELSE IF thumbnails THEN Teaser(ThumbnailUrl(answer), answer.asset)
    ELSE Teaser({}, {})

-----------------------------------------------------------------------------
(* Pages. *)

Carried(item) == item.url \cup item.poster \cup item.streams \cup LinksIn(item.sources)

Tokened(p) == \E id \in DOMAIN p : p[id].expiresIn # 0

\* Cache-Control: private, or the service's own choice.
CacheControl(p) == IF Tokened(p) THEN "private" ELSE "any"

Links == UNION {LinksOf(asset) : asset \in UNION {a.asset : a \in Answers}}

TypeOK ==
    /\ DOMAIN answers = DOMAIN page /\ DOMAIN loadedAt = DOMAIN page
    /\ \A id \in DOMAIN page :
          /\ answers[id] \in Answers
          /\ loadedAt[id] \in 0..age
          /\ Carried(page[id]) \subseteq Links
          /\ page[id].expiresIn \in Nat
    /\ allowed \subseteq DOMAIN page
    /\ (UNION batches) \cup failed \cup DOMAIN page \subseteq Ids
    /\ (UNION batches) \cap (DOMAIN page \cup failed) = {}
    /\ tokened \in BOOLEAN /\ teasers \in BOOLEAN
    /\ response \in {"building", "private", "any"}
    /\ age \in 0..MaxAge

Init ==
    /\ teasers \in BOOLEAN
    /\ answers = <<>>
    /\ allowed = {}
    /\ page = <<>>
    /\ loadedAt = <<>>
    /\ batches = {}
    /\ failed = {}
    /\ tokened = FALSE
    /\ response = "building"
    /\ age = 0

\* embed(user, ids): can_access allows some of them, delivery answers.
Embedded(given, may) == [id \in DOMAIN given |-> EmbedOne(given[id], id \in may, teasers)]

\* What is there stays; a loader asks for an id once.
With(old, new) ==
    [id \in DOMAIN old \cup DOMAIN new |-> IF id \in DOMAIN old THEN old[id] ELSE new[id]]

Arrive(given, may) ==
    /\ answers' = With(answers, given)
    /\ allowed' = allowed \cup may
    /\ page' = With(page, Embedded(given, may))
    /\ loadedAt' = With(loadedAt, [id \in DOMAIN given |-> age])

\* A response whose page is embedded in one call.
Embed(given, may) ==
    /\ response = "building" /\ page = <<>> /\ batches = {} /\ failed = {}
    /\ Arrive(given, may)
    /\ response' = CacheControl(Embedded(given, may))
    /\ UNCHANGED <<teasers, batches, failed, tokened, age>>

-----------------------------------------------------------------------------
(* StrawberryMedia: the resolvers of one request share its data loader. *)

\* External: the loader asks for the ids of the resolvers that wait, each id
\* once: what it has loaded, or failed to load, it keeps.
LoadBatch(ids) ==
    /\ response = "building" /\ ids # {}
    /\ ids \cap ((UNION batches) \cup DOMAIN page \cup failed) = {}
    /\ batches' = batches \cup {ids}
    /\ UNCHANGED <<teasers, answers, allowed, page, loadedAt, failed, tokened, response, age>>

\* Faulty variant: the last batch decides.
LoadedLast(given, may) ==
    /\ DOMAIN given \in batches
    /\ Arrive(given, may)
    /\ tokened' = Tokened(Embedded(given, may))
    /\ batches' = batches \ {DOMAIN given}
    /\ UNCHANGED <<teasers, failed, response, age>>

\* _load: aembed has returned from its worker thread.
Loaded(given, may) ==
    /\ DOMAIN given \in batches
    /\ Arrive(given, may)
    /\ tokened' = (tokened \/ Tokened(Embedded(given, may)))
    /\ batches' = batches \ {DOMAIN given}
    /\ UNCHANGED <<teasers, failed, response, age>>

\* aembed raises: the fields of the batch are errors.
BatchFails(ids) ==
    /\ ids \in batches
    /\ batches' = batches \ {ids}
    /\ failed' = failed \cup ids
    /\ UNCHANGED <<teasers, answers, allowed, page, loadedAt, tokened, response, age>>

\* Every resolver has returned; tokened(info) says how to send the response.
Send ==
    /\ response = "building" /\ batches = {} /\ DOMAIN page \cup failed # {}
    /\ response' = IF tokened THEN "private" ELSE "any"
    /\ UNCHANGED <<teasers, answers, allowed, page, loadedAt, batches, failed, tokened, age>>

-----------------------------------------------------------------------------

\* A second passes.
Tick ==
    /\ age < MaxAge
    /\ age' = age + 1
    /\ UNCHANGED <<teasers, answers, allowed, page, loadedAt, batches, failed, tokened, response>>

Next ==
    \/ Tick
    \/ \E given \in [Ids -> Answers], may \in SUBSET Ids : Embed(given, may)
    \/ \E ids \in SUBSET Ids : LoadBatch(ids) \/ BatchFails(ids)
    \/ \E ids \in batches : \E given \in [ids -> Answers], may \in SUBSET ids : Loaded(given, may)
    \/ Send

Spec == Init /\ [][Next]_vars

-----------------------------------------------------------------------------
(* Correctness. *)

IsLive(link, since) == link.expires = 0 \/ age - since < link.expires

(* A page keeps what it says of its links: all those of an item work until   *)
(* its expiresIn, counted from the call that embedded it, has passed, those  *)
(* of a public item always, and a response not marked private (which a       *)
(* shared cache may keep) never holds a dead link, in whatever batches its   *)
(* items were loaded.                                                        *)
LinksOutliveThePage ==
    response # "building" =>
        \A id \in DOMAIN page :
            \/ /\ age - loadedAt[id] >= page[id].expiresIn
               /\ ~page[id].public
               /\ response = "private"
            \/ \A link \in Carried(page[id]) : IsLive(link, loadedAt[id])

(* What a user without access is sent comes from the asset's thumbnail       *)
(* rendition: no file, no stream, and no other preview.                      *)
TeaserOnly ==
    \A id \in DOMAIN page \ allowed :
        /\ page[id].url = {} /\ page[id].streams = {}
        /\ \A asset \in answers[id].asset : Carried(page[id]) \subseteq ThumbnailLinks(asset)

(* The sizes listed for a poster can stand in for each other: one per width, *)
(* in order, and for a video in the shape the item itself reports.           *)
SourcesFit ==
    \A id \in DOMAIN page :
        LET item == page[id] IN
        /\ \A i, j \in DOMAIN item.sources :
              i < j => item.sources[i].width < item.sources[j].width
        /\ item.kind = "video" /\ id \in allowed =>
              \A v \in Range(item.sources) : \E d \in item.size : SameShape(v, d)
        /\ item.sources # <<>> => item.poster # {}
=============================================================================
