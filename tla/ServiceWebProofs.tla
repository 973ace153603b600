--------------------------- MODULE ServiceWebProofs --------------------------
(***************************************************************************)
(* Proofs about what a service sends to browsers: EmbeddedLinks, the pages *)
(* that embed links, and ServiceRouters, the routers that answer for the   *)
(* media library, each under its own specification.  A page's items are    *)
(* functions of delivery's answers, so most is proved of one item; the     *)
(* routers' statuses come from the classes of what their calls raise.      *)
(***************************************************************************)
EXTENDS EmbeddedLinks, ServiceRouters, FiniteSetTheorems, TLAPS

-----------------------------------------------------------------------------
(* Sorting by width. *)

\* Every set of naturals that is not empty has a least element.
LEMMA LeastNatural ==
    ASSUME NEW S, S \subseteq Nat, S # {}
    PROVE  \E m \in S : \A n \in S : m <= n
<1>1. IsWellFoundedOn(OpToRel(<, Nat), Nat)
  BY NatLessThanWellFounded
<1>2. PICK m \in S : \A n \in S : ~(<<n, m>> \in OpToRel(<, Nat))
  BY <1>1, WFMin
<1>3. \A n \in S : n \in Nat /\ m \in Nat /\ ~(n < m)
  BY <1>2 DEF OpToRel
<1> QED  BY <1>3

\* The variants below one in width, and how many they are.
Below(S, v) == {w \in S : w.width < v.width}
Rank(S, v) == Cardinality(Below(S, v))

LEMMA RankGrows ==
    ASSUME NEW S, IsFiniteSet(S), \A v \in S : v.width \in Nat,
           NEW v \in S, NEW w \in S, v.width < w.width
    PROVE  Rank(S, v) < Rank(S, w)
<1>1. IsFiniteSet(Below(S, v)) /\ IsFiniteSet(Below(S, w))
  <2>1. Below(S, v) \in SUBSET S /\ Below(S, w) \in SUBSET S
    BY DEF Below
  <2> QED  BY <2>1, FS_Subset
<1>2. Below(S, v) \cup {v} \in SUBSET Below(S, w)
  BY DEF Below
<1>3. v \notin Below(S, v)
  BY DEF Below
<1>4. Cardinality(Below(S, v) \cup {v}) = Cardinality(Below(S, v)) + 1
  BY <1>1, <1>3, FS_AddElement
<1>5. Cardinality(Below(S, v) \cup {v}) <= Cardinality(Below(S, w))
  BY <1>1, <1>2, FS_Subset
<1>6. Cardinality(Below(S, v)) \in Nat /\ Cardinality(Below(S, w)) \in Nat
  BY <1>1, FS_CardinalityType
<1> QED  BY <1>4, <1>5, <1>6 DEF Rank

\* One variant of every rank, when the widths differ.
LEMMA RanksAreTaken ==
    ASSUME NEW S, IsFiniteSet(S), \A v \in S : v.width \in Nat,
           \A v, w \in S : v.width = w.width => v = w
    PROVE  \A n \in 1..Cardinality(S) : \E v \in S : Rank(S, v) = n - 1
<1> DEFINE T == 0..(Cardinality(S) - 1)
           rank == [v \in S |-> Rank(S, v)]
<1>1. Cardinality(S) \in Nat
  BY FS_CardinalityType
<1>2. IsFiniteSet(T) /\ Cardinality(T) = Cardinality(S)
  BY <1>1, FS_Interval
<1>3. ASSUME NEW v \in S PROVE Rank(S, v) \in T
  <2>1. Below(S, v) \in SUBSET (S \ {v})
    BY DEF Below
  <2>2. IsFiniteSet(S \ {v}) /\ Cardinality(S \ {v}) = Cardinality(S) - 1
    BY FS_RemoveElement
  <2>3. IsFiniteSet(Below(S, v)) /\ Cardinality(Below(S, v)) <= Cardinality(S \ {v})
    BY <2>1, <2>2, FS_Subset
  <2>4. Cardinality(Below(S, v)) \in Nat
    BY <2>3, FS_CardinalityType
  <2> QED  BY <1>1, <2>2, <2>3, <2>4 DEF Rank
<1>4. ASSUME NEW v \in S, NEW w \in S, Rank(S, v) = Rank(S, w) PROVE v = w
  <2>1. Rank(S, v) \in Nat /\ Rank(S, w) \in Nat
    BY <1>1, <1>3
  <2>2. ~(v.width < w.width) /\ ~(w.width < v.width)
    BY <1>4, <2>1, RankGrows
  <2>3. v.width \in Nat /\ w.width \in Nat
    OBVIOUS
  <2>4. v.width = w.width
    BY <2>2, <2>3
  <2> QED  BY <2>4
<1>5. rank \in Injection(S, T)
  <2>1. rank \in [S -> T]
    BY <1>3
  <2>2. \A v, w \in S : rank[v] = rank[w] => v = w
    BY <1>4
  <2> QED  BY <2>1, <2>2 DEF Injection, IsInjective
<1>6. rank \in Surjection(S, T)
  BY <1>2, <1>5, FS_Injection
<1>7. ASSUME NEW n \in 1..Cardinality(S) PROVE \E v \in S : Rank(S, v) = n - 1
  <2>1. n - 1 \in T
    BY <1>1
  <2>2. \E v \in S : rank[v] = n - 1
    BY <1>6, <2>1 DEF Surjection
  <2> QED  BY <2>2
<1> QED  BY <1>7

\* ByWidth lists the variants it is given, the smallest first.
LEMMA ByWidthSorts ==
    ASSUME NEW S, IsFiniteSet(S), \A v \in S : v.width \in Nat,
           \A v, w \in S : v.width = w.width => v = w
    PROVE  /\ DOMAIN ByWidth(S) = 1..Cardinality(S)
           /\ \A n \in DOMAIN ByWidth(S) : ByWidth(S)[n] \in S
           /\ \A m, n \in DOMAIN ByWidth(S) :
                 m < n => ByWidth(S)[m].width < ByWidth(S)[n].width
<1>1. ByWidth(S) = [n \in 1..Cardinality(S) |-> CHOOSE v \in S : Rank(S, v) = n - 1]
  BY DEF ByWidth, Rank, Below
<1>2. ASSUME NEW n \in 1..Cardinality(S)
      PROVE  ByWidth(S)[n] \in S /\ Rank(S, ByWidth(S)[n]) = n - 1
  BY <1>1, RanksAreTaken
<1>3. ASSUME NEW m \in 1..Cardinality(S), NEW n \in 1..Cardinality(S), m < n
      PROVE  ByWidth(S)[m].width < ByWidth(S)[n].width
  <2> DEFINE v == ByWidth(S)[m]
             w == ByWidth(S)[n]
  <2>1. v \in S /\ w \in S /\ Rank(S, v) = m - 1 /\ Rank(S, w) = n - 1
    BY <1>2
  <2>2. v.width \in Nat /\ w.width \in Nat
    BY <2>1
  <2> HIDE DEF v, w
  <2>3. v # w
    BY <1>3, <2>1
  <2>4. ~(w.width < v.width)
    <3>1. w.width < v.width => Rank(S, w) < Rank(S, v)
      BY <2>1, RankGrows
    <3>2. Cardinality(S) \in Nat
      BY FS_CardinalityType
    <3> QED  BY <1>3, <2>1, <3>1, <3>2
  <2>5. v.width # w.width
    BY <2>1, <2>3
  <2> QED  BY <2>2, <2>4, <2>5 DEF v, w
<1> QED  BY <1>1, <1>2, <1>3

-----------------------------------------------------------------------------
(* One item. *)

LEMMA RangeIs ==
    ASSUME NEW f, NEW x
    PROVE  x \in Range(f) <=> \E i \in DOMAIN f : x = f[i]
BY DEF Range

\* A thumbnail rendition is one of the asset's, and there is at most one.
LEMMA ThumbnailIs ==
    ASSUME NEW asset, DOMAIN asset.renditions \subseteq Nat
    PROVE  /\ ThumbnailRendition(asset) \subseteq Thumbnails(asset)
           /\ \A thumb \in ThumbnailRendition(asset) : thumb.preview # {}
           /\ \A t, u \in ThumbnailRendition(asset) : t = u
<1> DEFINE rs == asset.renditions
           Shown == {i \in DOMAIN rs : rs[i].type = "thumbnail" /\ rs[i].preview # {}}
<1>1. ThumbnailRendition(asset) = {rs[i] : i \in {k \in Shown : \A j \in Shown : k <= j}}
  BY DEF ThumbnailRendition
<1>2. \A t \in ThumbnailRendition(asset) : \E i \in Shown : t = rs[i] /\ \A j \in Shown : i <= j
  BY <1>1
<1>3. \A i \in Shown : i \in Nat /\ rs[i] \in Thumbnails(asset) /\ rs[i].preview # {}
  BY RangeIs DEF Thumbnails
<1> HIDE DEF Shown
<1>4. \A i, k \in Shown : (\A j \in Shown : i <= j) /\ (\A j \in Shown : k <= j) => i = k
  BY <1>3
<1> QED  BY <1>2, <1>3, <1>4

\* The sources of a poster are variants of the thumbnail that fit, in order.
LEMMA SourcesAre ==
    ASSUME NEW a \in Answers, NEW asset \in a.asset
    PROVE  /\ \A n \in DOMAIN PosterSources(asset) :
                 /\ Fits(PosterSources(asset)[n], asset)
                 /\ \E thumb \in ThumbnailRendition(asset) :
                       PosterSources(asset)[n] \in Range(thumb.variants)
           /\ \A m, n \in DOMAIN PosterSources(asset) :
                 m < n => PosterSources(asset)[m].width < PosterSources(asset)[n].width
           /\ ThumbnailRendition(asset) = {} => DOMAIN PosterSources(asset) = {}
<1> DEFINE S == UNION {FirstOfWidth(thumb, asset) : thumb \in ThumbnailRendition(asset)}
<1>1. /\ DOMAIN asset.renditions \subseteq Nat
      /\ \A r \in Range(asset.renditions) :
            /\ IsFiniteSet(DOMAIN r.variants) /\ DOMAIN r.variants \subseteq Nat
            /\ \A v \in Range(r.variants) : v.width \in Nat
  BY AnswersAreDelivery
<1>2. \A thumb \in ThumbnailRendition(asset) : thumb \in Range(asset.renditions)
  BY <1>1, ThumbnailIs DEF Thumbnails
<1>3. ASSUME NEW thumb \in ThumbnailRendition(asset)
      PROVE  /\ IsFiniteSet(FirstOfWidth(thumb, asset))
             /\ \A v \in FirstOfWidth(thumb, asset) :
                   v \in Range(thumb.variants) /\ v.width \in Nat /\ Fits(v, asset)
             /\ \A v, w \in FirstOfWidth(thumb, asset) : v.width = w.width => v = w
  <2> DEFINE vs == thumb.variants
             L == Listed(thumb, asset)
             First == {k \in L : \A j \in L : vs[j].width = vs[k].width => k <= j}
  <2>1. FirstOfWidth(thumb, asset) = {vs[i] : i \in First}
    BY DEF FirstOfWidth
  <2>2. /\ L \subseteq DOMAIN vs /\ L \subseteq Nat
        /\ \A i \in L : Fits(vs[i], asset) /\ vs[i] \in Range(vs) /\ vs[i].width \in Nat
    BY <1>1, <1>2, RangeIs DEF Listed
  <2>3. IsFiniteSet(First)
    <3>1. First \in SUBSET DOMAIN vs /\ IsFiniteSet(DOMAIN vs)
      BY <1>1, <1>2, <2>2
    <3> QED  BY <3>1, FS_Subset
  <2>4. IsFiniteSet({vs[i] : i \in First})
    <3> DEFINE f == [i \in First |-> vs[i]]
               T == {vs[i] : i \in First}
    <3>1. f \in Surjection(First, T)
      BY DEF Surjection
    <3> HIDE DEF f, T, First
    <3>2. IsFiniteSet(T)
      BY <2>3, <3>1, FS_Surjection
    <3> QED  BY <3>2 DEF T
  <2> HIDE DEF L
  <2>5. \A i, k \in First : vs[i].width = vs[k].width => i = k
    BY <2>2
  <2>6. \A v \in FirstOfWidth(thumb, asset) : \E i \in First : v = vs[i]
    BY <2>1
  <2>7. \A i \in First : i \in L
    OBVIOUS
  <2> HIDE DEF First
  <2> QED  BY <2>1, <2>2, <2>4, <2>5, <2>6, <2>7
<1>4. /\ IsFiniteSet(S) /\ \A v \in S : v.width \in Nat
      /\ \A v, w \in S : v.width = w.width => v = w
      /\ \A v \in S : Fits(v, asset) /\
            \E thumb \in ThumbnailRendition(asset) : v \in Range(thumb.variants)
      /\ ThumbnailRendition(asset) = {} => S = {}
  <2>1. CASE ThumbnailRendition(asset) = {}
    <3>1. S = {}
      BY <2>1
    <3> HIDE DEF S
    <3> QED  BY <2>1, <3>1, FS_EmptySet
  <2>2. CASE ThumbnailRendition(asset) # {}
    <3>1. PICK thumb \in ThumbnailRendition(asset) : TRUE
      BY <2>2
    <3>2. \A t \in ThumbnailRendition(asset) : t = thumb
      BY <1>1, ThumbnailIs
    <3>3. S = FirstOfWidth(thumb, asset)
      BY <3>1, <3>2
    <3> HIDE DEF S
    <3> QED  BY <1>3, <2>2, <3>1, <3>3
  <2> QED  BY <2>1, <2>2
<1>5. PosterSources(asset) = ByWidth(S)
  BY DEF PosterSources
<1> HIDE DEF S
<1>6. /\ DOMAIN ByWidth(S) = 1..Cardinality(S)
      /\ \A n \in DOMAIN ByWidth(S) : ByWidth(S)[n] \in S
      /\ \A m, n \in DOMAIN ByWidth(S) :
            m < n => ByWidth(S)[m].width < ByWidth(S)[n].width
  BY <1>4, ByWidthSorts
<1>7. ThumbnailRendition(asset) = {} => DOMAIN ByWidth(S) = {}
  BY <1>4, <1>6
<1> QED  BY <1>4, <1>5, <1>6, <1>7

LEMMA RenditionLinksIn ==
    ASSUME NEW asset, NEW r \in Range(asset.renditions)
    PROVE  /\ r.preview \subseteq LinksOf(asset)
           /\ \A v \in Range(r.variants) : v.link \subseteq LinksOf(asset)
           /\ r.type = "thumbnail" =>
                 /\ r.preview \subseteq ThumbnailLinks(asset)
                 /\ \A v \in Range(r.variants) : v.link \subseteq ThumbnailLinks(asset)
<1>1. /\ r.preview \subseteq RenditionLinks(r)
      /\ \A v \in Range(r.variants) : v.link \subseteq RenditionLinks(r)
  BY DEF RenditionLinks
<1>2. RenditionLinks(r) \subseteq LinksOf(asset)
  BY DEF LinksOf
<1>3. r.type = "thumbnail" => RenditionLinks(r) \subseteq ThumbnailLinks(asset)
  BY DEF ThumbnailLinks, Thumbnails
<1> QED  BY <1>1, <1>2, <1>3

\* Poster and sources are the asset's own thumbnails.
LEMMA PosterLinks ==
    ASSUME NEW a \in Answers, NEW asset \in a.asset
    PROVE  /\ Preview(asset) \subseteq LinksOf(asset) \cap ThumbnailLinks(asset)
           /\ LinksIn(PosterSources(asset)) \subseteq LinksOf(asset) \cap ThumbnailLinks(asset)
<1>1. \A thumb \in ThumbnailRendition(asset) :
          thumb \in Range(asset.renditions) /\ thumb.type = "thumbnail"
  BY ThumbnailIs, AnswersAreDelivery DEF Thumbnails
<1>2. Preview(asset) \subseteq LinksOf(asset) \cap ThumbnailLinks(asset)
  BY <1>1, RenditionLinksIn DEF Preview
<1>3. ASSUME NEW v \in Range(PosterSources(asset))
      PROVE  v.link \subseteq LinksOf(asset) \cap ThumbnailLinks(asset)
  <2>1. PICK n \in DOMAIN PosterSources(asset) : v = PosterSources(asset)[n]
    BY RangeIs
  <2>2. PICK thumb \in ThumbnailRendition(asset) : v \in Range(thumb.variants)
    BY <2>1, SourcesAre
  <2> QED  BY <1>1, <2>2, RenditionLinksIn
<1>4. LinksIn(PosterSources(asset)) \subseteq LinksOf(asset) \cap ThumbnailLinks(asset)
  BY <1>3 DEF LinksIn
<1> QED  BY <1>2, <1>4

\* expiresIn is the earliest end of the links that end.
LEMMA ExpiresInIs ==
    ASSUME NEW links, \A l \in links : l.expires \in Nat
    PROVE  /\ ExpiresIn(links) \in Nat
           /\ \A l \in links :
                 l.expires = 0 \/ (ExpiresIn(links) # 0 /\ ExpiresIn(links) <= l.expires)
<1>1. /\ Positive(links) \subseteq Nat /\ 0 \notin Positive(links)
      /\ \A l \in links : l.expires = 0 \/ l.expires \in Positive(links)
  BY DEF Positive
<1>2. CASE Positive(links) = {}
  BY <1>1, <1>2 DEF ExpiresIn
<1>3. CASE Positive(links) # {}
  <2>1. \E e \in Positive(links) : \A f \in Positive(links) : e <= f
    BY <1>1, <1>3, LeastNatural
  <2>2. ExpiresIn(links) = CHOOSE e \in Positive(links) : \A f \in Positive(links) : e <= f
    BY <1>3 DEF ExpiresIn
  <2>3. /\ ExpiresIn(links) \in Positive(links)
        /\ \A f \in Positive(links) : ExpiresIn(links) <= f
    BY <2>1, <2>2
  <2> QED  BY <1>1, <2>3
<1> QED  BY <1>2, <1>3

\* What an item says of the links it carries.
Honest(item) ==
    /\ item.expiresIn \in Nat
    /\ item.public => item.expiresIn = 0
    /\ \A l \in Carried(item) :
          /\ l.expires \in Nat
          /\ l.expires = 0 \/ (item.expiresIn # 0 /\ item.expiresIn <= l.expires)

LEMMA ItemWithIs ==
    ASSUME NEW kind, NEW url, NEW poster, NEW streams, NEW sources, NEW size, NEW links,
           links = url \cup poster \cup streams \cup LinksIn(sources),
           \A l \in links : l.expires \in Nat
    PROVE  LET item == ItemWith(kind, url, poster, streams, sources, size, links) IN
           /\ Honest(item) /\ Carried(item) = links
           /\ item.kind = kind /\ item.url = url /\ item.poster = poster
           /\ item.streams = streams /\ item.sources = sources /\ item.size = size
<1> DEFINE item == ItemWith(kind, url, poster, streams, sources, size, links)
<1>1. /\ item.kind = kind /\ item.url = url /\ item.poster = poster
      /\ item.streams = streams /\ item.sources = sources /\ item.size = size
      /\ item.expiresIn = ExpiresIn(links)
      /\ item.public => ExpiresIn(links) = 0
  BY DEF ItemWith
<1>2. Carried(item) = links
  BY <1>1 DEF Carried
<1> HIDE DEF item
<1>3. Honest(item)
  BY <1>1, <1>2, ExpiresInIs DEF Honest
<1> QED  BY <1>1, <1>2, <1>3 DEF item

\* What holds of every item, by what the user may see.
ItemFits(item, answer, may) ==
    /\ Honest(item)
    /\ ~may => /\ item.url = {} /\ item.streams = {}
               /\ \A asset \in answer.asset : Carried(item) \subseteq ThumbnailLinks(asset)
    /\ \A i, j \in DOMAIN item.sources :
          i < j => item.sources[i].width < item.sources[j].width
    /\ item.kind = "video" /\ may =>
          \A v \in Range(item.sources) : \E d \in item.size : SameShape(v, d)
    /\ item.sources # <<>> => item.poster # {}

LEMMA NoSources == LinksIn(<<>>) = {} /\ DOMAIN <<>> = {} /\ Range(<<>>) = {}
<1>1. DOMAIN <<>> = {}  OBVIOUS
<1>2. Range(<<>>) = {}  BY <1>1, RangeIs
<1> QED  BY <1>1, <1>2 DEF LinksIn

\* No sources, as PosterSources lists them.
LEMMA NoPosterSources ==
    ASSUME NEW a \in Answers, NEW asset \in a.asset, PosterSources(asset) # <<>>
    PROVE  Preview(asset) # {}
<1>1. CASE ThumbnailRendition(asset) = {}
  <2> DEFINE S == UNION {FirstOfWidth(thumb, asset) : thumb \in ThumbnailRendition(asset)}
  <2>1. S = {}
    BY <1>1
  <2>2. Cardinality(S) = 0
    BY <2>1, FS_EmptySet
  <2> HIDE DEF S
  <2>3. ByWidth(S) = [n \in 1..0 |-> CHOOSE v \in S : Rank(S, v) = n - 1]
    BY <2>2 DEF ByWidth, Rank, Below
  <2>4. ByWidth(S) = <<>>
    BY <2>3
  <2>5. PosterSources(asset) = ByWidth(S)
    BY DEF PosterSources, S
  <2> QED  BY <2>4, <2>5
<1>2. CASE ThumbnailRendition(asset) # {}
  BY <1>2, ThumbnailIs, AnswersAreDelivery DEF Preview
<1> QED  BY <1>1, <1>2

LEMMA FromAssetFits ==
    ASSUME NEW a \in Answers, NEW asset \in a.asset
    PROVE  ItemFits(FromAsset(asset), a, TRUE)
<1> DEFINE url == IF asset.ready THEN asset.download ELSE {}
           sources == IF asset.kind \in {"image", "video"} THEN PosterSources(asset) ELSE <<>>
           links == url \cup Preview(asset) \cup asset.streams \cup LinksIn(sources)
           item == FromAsset(asset)
<1>1. item = ItemWith(asset.kind, url, Preview(asset), asset.streams, sources,
                      Dimensions(asset), links)
  BY DEF FromAsset
<1>2. \A l \in LinksOf(asset) : l.expires \in Nat
  BY AnswersAreDelivery
<1>3. LinksIn(sources) \subseteq LinksOf(asset) /\ Preview(asset) \subseteq LinksOf(asset)
  BY PosterLinks, NoSources
<1>4. url \subseteq LinksOf(asset) /\ asset.streams \subseteq LinksOf(asset)
  BY DEF LinksOf
<1>5. \A l \in links : l.expires \in Nat
  BY <1>2, <1>3, <1>4
<1>6. /\ \A n \in DOMAIN sources : Fits(sources[n], asset)
      /\ \A m, n \in DOMAIN sources : m < n => sources[m].width < sources[n].width
      /\ sources # <<>> => Preview(asset) # {}
  BY SourcesAre, NoSources, NoPosterSources
<1> HIDE DEF url, sources, item
<1>7. /\ Honest(item) /\ item.kind = asset.kind /\ item.poster = Preview(asset)
      /\ item.sources = sources /\ item.size = Dimensions(asset)
  BY <1>1, <1>5, ItemWithIs
<1>8. item.kind = "video" => \A v \in Range(item.sources) : \E d \in item.size : SameShape(v, d)
  BY <1>6, <1>7, RangeIs DEF Fits
<1> QED  BY <1>6, <1>7, <1>8 DEF ItemFits, item

LEMMA NothingFits ==
    ASSUME NEW a, NEW may \in BOOLEAN, NEW thumbnail
    PROVE  ItemFits(Teaser(thumbnail, {}), a, may)
<1> DEFINE item == ItemWith("other", {}, {}, {}, <<>>, {}, {})
<1>1. Teaser(thumbnail, {}) = item
  BY DEF Teaser
<1>2. /\ Honest(item) /\ Carried(item) = {} /\ item.kind = "other" /\ item.url = {}
      /\ item.streams = {} /\ item.sources = <<>>
  BY ItemWithIs, NoSources
<1> HIDE DEF item
<1> QED  BY <1>1, <1>2, NoSources DEF ItemFits

\* A teaser's thumbnail is the asset's own, or the one the answer came with.
LEMMA TeaserFits ==
    ASSUME NEW a \in Answers, NEW asset \in a.asset, NEW thumbnail,
           \A l \in LinksOf(asset) : l.url \in thumbnail => l \in ThumbnailLinks(asset)
    PROVE  ItemFits(Teaser(thumbnail, a.asset), a, FALSE)
<1> DEFINE Found == {l \in LinksOf(asset) : l.url \in thumbnail}
           sources == IF Found = {} THEN <<>> ELSE PosterSources(asset)
           links == Found \cup LinksIn(sources)
           item == Teaser(thumbnail, a.asset)
<1>1. /\ \A other \in a.asset : other = asset
      /\ \A l \in LinksOf(asset) : l.expires \in Nat
  BY AnswersAreDelivery
<1>2. a.asset # {} /\ (CHOOSE other \in a.asset : TRUE) = asset
  BY <1>1
<1>3. item = ItemWith(asset.kind, {}, Found, {}, sources, {}, links)
  BY <1>2 DEF Teaser
<1>4. links \subseteq LinksOf(asset) \cap ThumbnailLinks(asset)
  BY PosterLinks, NoSources
<1>5. \A m, n \in DOMAIN sources : m < n => sources[m].width < sources[n].width
  BY SourcesAre, NoSources
<1>6. sources # <<>> => Found # {}
  OBVIOUS
<1> HIDE DEF Found, sources, item
<1>7. links = {} \cup Found \cup {} \cup LinksIn(sources) /\ \A l \in links : l.expires \in Nat
  BY <1>1, <1>4
<1> HIDE DEF links
<1>8. /\ Honest(item) /\ Carried(item) = links /\ item.url = {} /\ item.streams = {}
      /\ item.sources = sources /\ item.poster = Found
  BY <1>3, <1>7, ItemWithIs
<1> QED  BY <1>1, <1>4, <1>5, <1>6, <1>8 DEF ItemFits, item

LEMMA EmbedOneFits ==
    ASSUME NEW a \in Answers, NEW may \in BOOLEAN, NEW thumbnails \in BOOLEAN
    PROVE  ItemFits(EmbedOne(a, may, thumbnails), a, may)
<1>1. CASE may /\ a.status = "ok" /\ a.asset # {}
  <2>1. (CHOOSE asset \in a.asset : TRUE) \in a.asset
    BY <1>1
  <2>2. EmbedOne(a, may, thumbnails) = FromAsset(CHOOSE asset \in a.asset : TRUE)
    BY <1>1 DEF EmbedOne
  <2> QED  BY <1>1, <2>1, <2>2, FromAssetFits
<1>2. CASE may /\ ~(a.status = "ok" /\ a.asset # {})
  <2>1. a.asset = {}
    BY <1>2, AnswersAreDelivery
  <2>2. EmbedOne(a, may, thumbnails) = Teaser(a.thumbnail, {})
    BY <1>2, <2>1 DEF EmbedOne
  <2> QED  BY <2>2, NothingFits
<1>3. CASE ~may /\ ~thumbnails
  BY <1>3, NothingFits DEF EmbedOne
<1>4. CASE ~may /\ thumbnails /\ a.asset = {}
  BY <1>4, NothingFits DEF EmbedOne
<1>5. CASE ~may /\ thumbnails /\ a.asset # {}
  <2>1. PICK asset \in a.asset : TRUE
    BY <1>5
  <2>2. /\ \A other \in a.asset : other = asset
        /\ \A k, l \in LinksOf(asset) : k.url = l.url => k = l
        /\ \A l \in LinksOf(asset) : l.url \in a.thumbnail => l \in ThumbnailLinks(asset)
    BY AnswersAreDelivery
  <2>3. UNION {Preview(other) : other \in a.asset} = Preview(asset)
    BY <2>2
  <2>4. ThumbnailUrl(a) = IF Preview(asset) # {} THEN {l.url : l \in Preview(asset)}
                          ELSE a.thumbnail
    BY <2>3 DEF ThumbnailUrl
  <2>5. \A l \in LinksOf(asset) : l.url \in ThumbnailUrl(a) => l \in ThumbnailLinks(asset)
    BY <2>2, <2>4, PosterLinks
  <2>6. EmbedOne(a, may, thumbnails) = Teaser(ThumbnailUrl(a), a.asset)
    BY <1>5 DEF EmbedOne
  <2> QED  BY <1>5, <2>5, <2>6, TeaserFits
<1> QED  BY <1>1, <1>2, <1>3, <1>4, <1>5

-----------------------------------------------------------------------------
(* Pages. *)

PageTyped ==
    /\ teasers \in BOOLEAN
    /\ response \in {"building", "private", "any"}
    /\ age \in Nat
    /\ DOMAIN answers = DOMAIN page /\ DOMAIN loadedAt = DOMAIN page
    /\ allowed \subseteq DOMAIN page

\* Every item is what EmbedOne made of its answer, at some time past.
ItemsInv ==
    \A id \in DOMAIN page :
        /\ answers[id] \in Answers
        /\ page[id] = EmbedOne(answers[id], id \in allowed, teasers)
        /\ loadedAt[id] \in Nat /\ loadedAt[id] <= age

\* An id is waited for in one batch, once.
BatchesInv ==
    /\ \A b \in batches : b \cap (DOMAIN page \cup failed) = {}
    /\ \A b, c \in batches : b # c => b \cap c = {}

\* The response knows whether it holds links that end.
TokenedInv ==
    /\ response = "building" /\ Tokened(page) => tokened
    /\ response = "any" => ~Tokened(page)
    /\ response # "building" => batches = {}

PageInv == PageTyped /\ ItemsInv /\ BatchesInv /\ TokenedInv

LEMMA WithIs ==
    ASSUME NEW f, NEW g
    PROVE  /\ DOMAIN With(f, g) = (DOMAIN f) \cup (DOMAIN g)
           /\ \A x \in DOMAIN f : With(f, g)[x] = f[x]
           /\ \A x \in (DOMAIN g) \ (DOMAIN f) : With(f, g)[x] = g[x]
BY DEF With

\* Answers that come for ids the page does not have yet.
LEMMA ArriveKeeps ==
    ASSUME PageInv, NEW given, NEW may, Arrive(given, may),
           \A id \in DOMAIN given : given[id] \in Answers,
           may \subseteq DOMAIN given, (DOMAIN given) \cap (DOMAIN page) = {},
           UNCHANGED <<teasers, age>>, response' \in {"building", "private", "any"}
    PROVE  /\ PageTyped' /\ ItemsInv'
           /\ DOMAIN page' = (DOMAIN page) \cup (DOMAIN given)
           /\ Tokened(page') <=> Tokened(page) \/ Tokened(Embedded(given, may))
<1> DEFINE new == Embedded(given, may)
           now == [id \in DOMAIN given |-> age]
<1>1. /\ answers' = With(answers, given) /\ allowed' = allowed \cup may
      /\ page' = With(page, new) /\ loadedAt' = With(loadedAt, now)
  BY DEF Arrive
<1>2. /\ DOMAIN new = DOMAIN given
      /\ \A id \in DOMAIN given : new[id] = EmbedOne(given[id], id \in may, teasers)
      /\ DOMAIN now = DOMAIN given /\ \A id \in DOMAIN given : now[id] = age
  BY DEF Embedded
<1>3. /\ DOMAIN answers = DOMAIN page /\ DOMAIN loadedAt = DOMAIN page
      /\ allowed \subseteq DOMAIN page /\ age \in Nat /\ teasers \in BOOLEAN
  BY DEF PageInv, PageTyped
<1> HIDE DEF new, now
<1>4. /\ DOMAIN answers' = (DOMAIN page) \cup (DOMAIN given)
      /\ DOMAIN page' = (DOMAIN page) \cup (DOMAIN given)
      /\ DOMAIN loadedAt' = (DOMAIN page) \cup (DOMAIN given)
  <2>1. /\ DOMAIN With(answers, given) = (DOMAIN answers) \cup (DOMAIN given)
        /\ DOMAIN With(page, new) = (DOMAIN page) \cup (DOMAIN new)
        /\ DOMAIN With(loadedAt, now) = (DOMAIN loadedAt) \cup (DOMAIN now)
    BY WithIs
  <2> QED  BY <1>1, <1>2, <1>3, <2>1
<1>5. PageTyped'
  BY <1>1, <1>3, <1>4 DEF PageTyped
<1>6. ASSUME NEW id \in DOMAIN page
      PROVE  /\ answers'[id] = answers[id] /\ page'[id] = page[id]
             /\ loadedAt'[id] = loadedAt[id]
             /\ (id \in allowed') = (id \in allowed)
  <2>1. /\ With(answers, given)[id] = answers[id] /\ With(page, new)[id] = page[id]
        /\ With(loadedAt, now)[id] = loadedAt[id]
    BY <1>3 DEF With
  <2>2. id \notin may
    OBVIOUS
  <2> QED  BY <1>1, <2>1, <2>2
<1>7. ASSUME NEW id \in DOMAIN given
      PROVE  /\ answers'[id] = given[id] /\ page'[id] = new[id]
             /\ loadedAt'[id] = age
             /\ (id \in allowed') = (id \in may)
  <2>1. id \notin DOMAIN page
    OBVIOUS
  <2>2. /\ With(answers, given)[id] = given[id] /\ With(page, new)[id] = new[id]
        /\ With(loadedAt, now)[id] = now[id]
    BY <1>2, <1>3, <2>1 DEF With
  <2> QED  BY <1>1, <1>2, <1>3, <2>1, <2>2
<1>8. ItemsInv'
  <2> SUFFICES ASSUME NEW id \in DOMAIN page'
               PROVE  /\ answers'[id] \in Answers
                      /\ page'[id] = EmbedOne(answers'[id], id \in allowed', teasers')
                      /\ loadedAt'[id] \in Nat /\ loadedAt'[id] <= age'
    BY DEF ItemsInv
  <2>1. CASE id \in DOMAIN page
    <3>1. /\ answers[id] \in Answers
          /\ page[id] = EmbedOne(answers[id], id \in allowed, teasers)
          /\ loadedAt[id] \in Nat /\ loadedAt[id] <= age
      BY <2>1 DEF PageInv, ItemsInv
    <3> QED  BY <1>6, <2>1, <3>1
  <2>2. CASE id \in DOMAIN given
    BY <1>2, <1>3, <1>7, <2>2
  <2> QED  BY <1>4, <2>1, <2>2
<1>9. Tokened(page') <=> Tokened(page) \/ Tokened(new)
  BY <1>2, <1>4, <1>6, <1>7 DEF Tokened
<1> QED  BY <1>4, <1>5, <1>8, <1>9 DEF new

LEMMA EmbedKeeps ==
    ASSUME PageInv, NEW given \in [Ids -> Answers], NEW may \in SUBSET Ids, Embed(given, may)
    PROVE  PageInv'
<1>1. /\ page = <<>> /\ batches = {} /\ Arrive(given, may)
      /\ response' = CacheControl(Embedded(given, may))
      /\ UNCHANGED <<teasers, batches, failed, tokened, age>>
  BY DEF Embed
<1>2. response' = IF Tokened(Embedded(given, may)) THEN "private" ELSE "any"
  BY <1>1 DEF CacheControl
<1>3. DOMAIN page = {} /\ ~Tokened(page)
  BY <1>1 DEF Tokened
<1>4. /\ PageTyped' /\ ItemsInv'
      /\ Tokened(page') <=> Tokened(page) \/ Tokened(Embedded(given, may))
  <2>1. response' \in {"building", "private", "any"}
    BY <1>2
  <2> QED  BY <1>1, <1>3, <2>1, ArriveKeeps
<1>5. BatchesInv' /\ TokenedInv'
  BY <1>1, <1>2, <1>3, <1>4 DEF BatchesInv, TokenedInv
<1> QED  BY <1>4, <1>5 DEF PageInv

LEMMA LoadedKeeps ==
    ASSUME PageInv, NEW ids \in batches, NEW given \in [ids -> Answers],
           NEW may \in SUBSET ids, Loaded(given, may)
    PROVE  PageInv'
<1>1. /\ Arrive(given, may) /\ tokened' = (tokened \/ Tokened(Embedded(given, may)))
      /\ batches' = batches \ {ids} /\ UNCHANGED <<teasers, failed, response, age>>
  BY DEF Loaded
<1>2. /\ ids \cap (DOMAIN page \cup failed) = {}
      /\ \A b \in batches' : b \cap ids = {}
      /\ response = "building"
  BY <1>1 DEF PageInv, PageTyped, BatchesInv, TokenedInv
<1>3. /\ PageTyped' /\ ItemsInv' /\ DOMAIN page' = (DOMAIN page) \cup ids
      /\ Tokened(page') <=> Tokened(page) \/ Tokened(Embedded(given, may))
  <2>1. response' \in {"building", "private", "any"} /\ (DOMAIN given) \cap (DOMAIN page) = {}
    BY <1>1, <1>2 DEF PageInv, PageTyped
  <2> QED  BY <1>1, <2>1, ArriveKeeps
<1>4. BatchesInv'
  BY <1>1, <1>2, <1>3 DEF PageInv, BatchesInv
<1>5. TokenedInv'
  BY <1>1, <1>2, <1>3 DEF PageInv, TokenedInv
<1> QED  BY <1>3, <1>4, <1>5 DEF PageInv

LEMMA LoaderKeeps ==
    ASSUME PageInv, NEW ids \in SUBSET Ids, LoadBatch(ids) \/ BatchFails(ids)
    PROVE  PageInv'
<1>1. UNCHANGED <<teasers, answers, allowed, page, loadedAt, tokened, response, age>>
  BY DEF LoadBatch, BatchFails
<1>2. PageTyped' /\ ItemsInv'
  BY <1>1 DEF PageInv, PageTyped, ItemsInv
<1>3. BatchesInv' /\ TokenedInv'
  <2>1. CASE LoadBatch(ids)
    <3>1. /\ response = "building" /\ batches' = batches \cup {ids} /\ UNCHANGED failed
          /\ ids \cap ((UNION batches) \cup DOMAIN page \cup failed) = {}
      BY <2>1 DEF LoadBatch
    <3>2. \A b \in batches : b \cap ids = {}
      BY <3>1
    <3> QED  BY <1>1, <3>1, <3>2 DEF PageInv, BatchesInv, TokenedInv
  <2>2. CASE BatchFails(ids)
    <3>1. /\ ids \in batches /\ batches' = batches \ {ids} /\ failed' = failed \cup ids
      BY <2>2 DEF BatchFails
    <3>2. \A b \in batches' : b \cap ids = {} /\ b \cap (DOMAIN page \cup failed) = {}
      BY <3>1 DEF PageInv, BatchesInv
    <3> QED  BY <1>1, <3>1, <3>2 DEF PageInv, BatchesInv, TokenedInv
  <2> QED  BY <2>1, <2>2
<1> QED  BY <1>2, <1>3 DEF PageInv

LEMMA SendKeeps == ASSUME PageInv, Send PROVE PageInv'
<1>1. /\ response = "building" /\ batches = {}
      /\ response' = IF tokened THEN "private" ELSE "any"
      /\ UNCHANGED <<teasers, answers, allowed, page, loadedAt, batches, failed, tokened, age>>
  BY DEF Send
<1>2. PageTyped' /\ ItemsInv' /\ BatchesInv'
  BY <1>1 DEF PageInv, PageTyped, ItemsInv, BatchesInv
<1>3. TokenedInv'
  BY <1>1 DEF PageInv, TokenedInv
<1> QED  BY <1>2, <1>3 DEF PageInv

LEMMA PageTickKeeps == ASSUME PageInv, Tick PROVE PageInv'
<1>1. /\ age' = age + 1 /\ age \in Nat
      /\ UNCHANGED <<teasers, answers, allowed, page, loadedAt, batches, failed, tokened, response>>
  BY DEF Tick, PageInv, PageTyped
<1>2. PageTyped' /\ BatchesInv' /\ TokenedInv'
  BY <1>1 DEF PageInv, PageTyped, BatchesInv, TokenedInv
<1>3. ItemsInv'
  BY <1>1 DEF PageInv, ItemsInv
<1> QED  BY <1>2, <1>3 DEF PageInv

LEMMA Init_PageInv == Init => PageInv
<1> SUFFICES ASSUME Init PROVE PageInv
  OBVIOUS
<1>1. DOMAIN page = {} /\ DOMAIN answers = {} /\ DOMAIN loadedAt = {}
  BY DEF Init
<1> QED  BY <1>1 DEF Init, PageInv, PageTyped, ItemsInv, BatchesInv, TokenedInv, Tokened

LEMMA PageStep == PageInv /\ [Next]_vars => PageInv'
<1> SUFFICES ASSUME PageInv, [Next]_vars PROVE PageInv'
  OBVIOUS
<1>1. CASE Tick
  BY <1>1, PageTickKeeps
<1>2. CASE \E given \in [Ids -> Answers], may \in SUBSET Ids : Embed(given, may)
  BY <1>2, EmbedKeeps
<1>3. CASE \E ids \in SUBSET Ids : LoadBatch(ids) \/ BatchFails(ids)
  BY <1>3, LoaderKeeps
<1>4. CASE \E ids \in batches : \E given \in [ids -> Answers], may \in SUBSET ids :
               Loaded(given, may)
  BY <1>4, LoadedKeeps
<1>5. CASE Send
  BY <1>5, SendKeeps
<1>6. CASE UNCHANGED vars
  <2>1. UNCHANGED <<teasers, answers, allowed, page, loadedAt, batches, failed, tokened,
                    response, age>>
    BY <1>6 DEF vars
  <2>2. PageTyped' /\ ItemsInv'
    BY <2>1 DEF PageInv, PageTyped, ItemsInv
  <2>3. BatchesInv' /\ TokenedInv'
    BY <2>1 DEF PageInv, BatchesInv, TokenedInv
  <2> QED  BY <2>2, <2>3 DEF PageInv
<1> QED  BY <1>1, <1>2, <1>3, <1>4, <1>5, <1>6 DEF Next

(* Loading, embedding and rendering keep PageInv: every item of the page is   *)
(* what MediaEmbedder makes of the answer that was loaded for its asset.     *)
THEOREM PageInvariant == Spec => []PageInv
BY Init_PageInv, PageStep, PTL DEF Spec

LEMMA ItemsFit ==
    ASSUME PageInv, NEW id \in DOMAIN page
    PROVE  ItemFits(page[id], answers[id], id \in allowed)
<1>1. /\ answers[id] \in Answers /\ teasers \in BOOLEAN
      /\ page[id] = EmbedOne(answers[id], id \in allowed, teasers)
  BY DEF PageInv, PageTyped, ItemsInv
<1>2. CASE id \in allowed
  <2>1. ItemFits(EmbedOne(answers[id], TRUE, teasers), answers[id], TRUE)
    BY <1>1, EmbedOneFits
  <2> QED  BY <1>1, <1>2, <2>1
<1>3. CASE id \notin allowed
  <2>1. ItemFits(EmbedOne(answers[id], FALSE, teasers), answers[id], FALSE)
    BY <1>1, EmbedOneFits
  <2>2. (id \in allowed) = FALSE
    BY <1>3
  <2> QED  BY <1>1, <2>1, <2>2
<1> QED  BY <1>2, <1>3

(* For answers with any links, loaded in any batches: the expires_in of an    *)
(* item covers each link it carries, and only a page whose links never       *)
(* expire goes out without Cache-Control: private.                           *)
THEOREM EmbedLinksOutliveThePage == Spec => []LinksOutliveThePage
<1>1. ASSUME PageInv PROVE LinksOutliveThePage
  <2> SUFFICES ASSUME response # "building", NEW id \in DOMAIN page,
                      NEW link \in Carried(page[id]), ~IsLive(link, loadedAt[id])
               PROVE  /\ age - loadedAt[id] >= page[id].expiresIn
                      /\ ~page[id].public
                      /\ response = "private"
    BY DEF LinksOutliveThePage
  <2>1. /\ loadedAt[id] \in Nat /\ age \in Nat /\ response \in {"private", "any"}
        /\ response = "any" => ~Tokened(page)
    BY <1>1 DEF PageInv, PageTyped, ItemsInv, TokenedInv
  <2>2. Honest(page[id])
    BY <1>1, ItemsFit DEF ItemFits
  <2>3. /\ page[id].expiresIn \in Nat /\ link.expires \in Nat
        /\ link.expires = 0 \/ (page[id].expiresIn # 0 /\ page[id].expiresIn <= link.expires)
        /\ page[id].public => page[id].expiresIn = 0
    BY <2>2 DEF Honest
  <2>4. link.expires # 0 /\ ~(age - loadedAt[id] < link.expires)
    BY DEF IsLive
  <2>5. page[id].expiresIn # 0 /\ age - loadedAt[id] >= page[id].expiresIn
    BY <2>1, <2>3, <2>4
  <2>6. Tokened(page)
    BY <2>5 DEF Tokened
  <2> QED  BY <2>1, <2>3, <2>5, <2>6
<1> QED  BY <1>1, PageInvariant, PTL

(* MediaEmbedder.embed gives a user who may not see the asset its thumbnail   *)
(* and nothing else, whatever the library answered.                          *)
THEOREM EmbedTeaserOnly == Spec => []TeaserOnly
<1>1. ASSUME PageInv PROVE TeaserOnly
  <2> SUFFICES ASSUME NEW id \in (DOMAIN page) \ allowed
               PROVE  /\ page[id].url = {} /\ page[id].streams = {}
                      /\ \A asset \in answers[id].asset :
                            Carried(page[id]) \subseteq ThumbnailLinks(asset)
    BY DEF TeaserOnly
  <2>1. ItemFits(page[id], answers[id], id \in allowed)
    BY <1>1, ItemsFit
  <2> QED  BY <2>1 DEF ItemFits
<1> QED  BY <1>1, PageInvariant, PTL

(* The sources that _sources lists for a poster are ordered by width, no      *)
(* width twice, and a video's have its shape, for any set of renditions.     *)
THEOREM EmbedSourcesFit == Spec => []SourcesFit
<1>1. ASSUME PageInv PROVE SourcesFit
  <2> SUFFICES ASSUME NEW id \in DOMAIN page
               PROVE  /\ \A i, j \in DOMAIN page[id].sources :
                            i < j => page[id].sources[i].width < page[id].sources[j].width
                      /\ page[id].kind = "video" /\ id \in allowed =>
                            \A v \in Range(page[id].sources) :
                                \E d \in page[id].size : SameShape(v, d)
                      /\ page[id].sources # <<>> => page[id].poster # {}
    BY DEF SourcesFit
  <2>1. ItemFits(page[id], answers[id], id \in allowed)
    BY <1>1, ItemsFit
  <2> QED  BY <2>1 DEF ItemFits
<1> QED  BY <1>1, PageInvariant, PTL

-----------------------------------------------------------------------------
(* The routers: how a call fails, and what the failure's class says of it. *)

RpcStatuses == DOMAIN RpcErrors
Bodies == GrantRequests \cup {NoBody}
ResultMaps == {<<>>} \cup UNION {[ids -> Results] : ids \in SUBSET Assets}

RequestRecords ==
    [pc: {"none", "asked", "sent", "answered"}, kind: {"none", "grant", "asset", "resolve"},
     user: Users \cup {None}, body: Bodies, ids: SUBSET Assets, allowed: SUBSET Assets,
     failure: Causes \cup {None}, yes: BOOLEAN, said: ResultMaps]

RouterTyped ==
    /\ router \in RouterOptions
    /\ request \in RequestRecords
    /\ request.pc \in {"none", "asked"} => request.kind \in {"none", "grant"}
    /\ request.kind = "none" => request.pc = "none"
    /\ request.pc = "none" => request.kind = "none"

\* Where a request stands before it is answered.
OpenInv ==
    /\ request.pc # "answered" =>
          request.failure = None /\ reply = NoReply
    /\ request.pc # "none" /\ request.kind = "grant" =>
          request.user \in Users /\ request.body \in GrantRequests
    /\ request.pc = "asked" => ~request.yes
    /\ request.pc = "sent" /\ request.kind = "grant" => request.yes
    /\ request.yes =>
          /\ request.kind = "grant" /\ Acceptable(request.body)
          /\ \A p \in Named(request.body) :
                MayUse(p, Permissions[request.user], TRUE) /\ ~AllowsNothing(p)
    /\ request.kind = "asset" => \E a \in Assets : request.ids = {a}
    /\ request.allowed \subseteq request.ids

\* What the library has signed is what was sent for a request the app accepted.
Decided(g) ==
    /\ g.yes /\ g.user \in Users /\ g.body \in GrantRequests
    /\ Acceptable(g.body)
    /\ \A p \in Named(g.body) : MayUse(p, Permissions[g.user], TRUE) /\ ~AllowsNothing(p)
    /\ g.grant = Sent(router.transport, Payload(g.body.scopes, g.body.assets, g.body.sessions,
                                                Named(g.body), SubjectOf(g.user)))

IssuedInv ==
    /\ \A g \in issued : Decided(g)
    /\ reply.grant \subseteq issued
    /\ \A g \in reply.grant : g.user = request.user /\ g.body = request.body
    /\ upload # <<>> =>
          \E g \in issued, file \in Files :
              upload = <<g, file>> /\ \E p \in g.grant.profile : Admits(p, file[1], file[2])

RouterIInv == RouterTyped /\ OpenInv /\ IssuedInv /\ AnswersTellTheirCause /\ DeniedAreForbidden

-----------------------------------------------------------------------------

LEMMA GrantReasons ==
    ASSUME NEW r \in DOMAIN Refusals["Grants"]
    PROVE  Refusals["Grants"][r] \in RpcStatuses
<1>1. Refusals["Grants"] = WithCommon([UNAVAILABLE |-> {"grants_not_configured"}])
  BY DEF Refusals
<1> DEFINE own == [UNAVAILABLE |-> {"grants_not_configured"}]
<1>2. CASE \E status \in DOMAIN own : r \in own[status]
  <2>1. Refusals["Grants"][r] = CHOOSE status \in DOMAIN own : r \in own[status]
    BY <1>1, <1>2 DEF WithCommon
  <2>2. Refusals["Grants"][r] \in DOMAIN own
    BY <1>2, <2>1
  <2> QED  BY <2>2 DEF RpcStatuses, RpcErrors
<1>3. CASE ~\E status \in DOMAIN own : r \in own[status]
  <2>1. r \in DOMAIN Common
    BY <1>1, <1>3 DEF WithCommon
  <2>2. Refusals["Grants"][r] = Common[r]
    BY <1>1, <1>3 DEF WithCommon
  <2>3. Common[r] \in RpcStatuses
    BY <2>1 DEF Common, RpcStatuses, RpcErrors
  <2> QED  BY <2>2, <2>3
<1> QED  BY <1>2, <1>3

LEMMA DeliveryReasons ==
    ASSUME NEW r \in DOMAIN Refusals["Delivery"]
    PROVE  Refusals["Delivery"][r] \in RpcStatuses
<1> DEFINE own == [NOT_FOUND |-> {"asset_not_found", "blob_not_found", "tenant_storage_not_found"}]
<1>1. Refusals["Delivery"] = WithCommon(own)
  BY DEF Refusals
<1>2. CASE \E status \in DOMAIN own : r \in own[status]
  <2>1. Refusals["Delivery"][r] = CHOOSE status \in DOMAIN own : r \in own[status]
    BY <1>1, <1>2 DEF WithCommon
  <2>2. Refusals["Delivery"][r] \in DOMAIN own
    BY <1>2, <2>1
  <2> QED  BY <2>2 DEF RpcStatuses, RpcErrors
<1>3. CASE ~\E status \in DOMAIN own : r \in own[status]
  <2>1. r \in DOMAIN Common
    BY <1>1, <1>3 DEF WithCommon
  <2>2. Refusals["Delivery"][r] = Common[r]
    BY <1>1, <1>3 DEF WithCommon
  <2>3. Common[r] \in RpcStatuses
    BY <2>1 DEF Common, RpcStatuses, RpcErrors
  <2> QED  BY <2>2, <2>3
<1> QED  BY <1>2, <1>3

LEMMA ClassesAre ==
    Classes = {"MediaLibraryError", "NotFoundError", "AuthenticationError", "ValidationError",
               "ConflictError", "ServerError", "ResourceExhaustedError", "InvalidArgumentError",
               "UploadRejected", "UnauthenticatedError", "PermissionDeniedError",
               "FailedPreconditionError", "UnavailableError", "DeadlineExceededError",
               "UnimplementedError", "InternalError"}
<1>1. DOMAIN Subclasses = {"MediaLibraryError", "ValidationError", "AuthenticationError",
                           "ConflictError", "ServerError"}
  BY DEF Subclasses
<1>2. \A x : x \in Classes <=>
          (\E c \in DOMAIN Subclasses : x \in Subclasses[c]) \/ x = "MediaLibraryError"
  BY DEF Classes
<1>3. /\ Subclasses["MediaLibraryError"] =
             {"NotFoundError", "AuthenticationError", "ValidationError", "ConflictError",
              "ServerError", "ResourceExhaustedError"}
      /\ Subclasses["ValidationError"] = {"InvalidArgumentError", "UploadRejected"}
      /\ Subclasses["AuthenticationError"] = {"UnauthenticatedError", "PermissionDeniedError"}
      /\ Subclasses["ConflictError"] = {"FailedPreconditionError"}
      /\ Subclasses["ServerError"] = {"UnavailableError", "DeadlineExceededError",
                                      "UnimplementedError", "InternalError"}
  BY DEF Subclasses
<1> QED  BY <1>1, <1>2, <1>3

LEMMA IsLibraryError ==
    ASSUME NEW class
    PROVE  IsA(class, "MediaLibraryError") <=> class \in Classes
BY DEF IsA

LEMMA IsValidationError ==
    ASSUME NEW class
    PROVE  IsA(class, "ValidationError") <=>
               class \in {"ValidationError", "InvalidArgumentError", "UploadRejected"}
BY ClassesAre DEF IsA, Subclasses

\* The exception of a gRPC status.
LEMMA RpcClass ==
    ASSUME NEW code \in RpcStatuses, NEW d, NEW r
    PROVE  LET class == ErrorFromRpc([code |-> code, domain |-> d, reason |-> r]).class IN
           /\ class \in Classes
           /\ IsA(class, "ValidationError") <=> code = "INVALID_ARGUMENT"
<1>1. ErrorFromRpc([code |-> code, domain |-> d, reason |-> r]).class = RpcErrors[code]
  BY DEF ErrorFromRpc, RpcStatuses
<1>2. RpcErrors[code] \in Classes
  BY ClassesAre DEF RpcErrors, RpcStatuses
<1>3. RpcErrors[code] \in {"ValidationError", "InvalidArgumentError", "UploadRejected"}
          <=> code = "INVALID_ARGUMENT"
  BY DEF RpcErrors, RpcStatuses
<1> QED  BY <1>1, <1>2, <1>3, IsValidationError

\* The exception of an HTTP status is that of the gRPC status it stands for.
LEMMA HttpClass ==
    ASSUME NEW h \in HttpStatuses, NEW r
    PROVE  LET class == RaiseForStatus(h, r).class IN
           /\ class \in Classes
           /\ IsA(class, "ValidationError") <=> GrpcStatusForHttp(h) = "INVALID_ARGUMENT"
<1> DEFINE class == RaiseForStatus(h, r).class
<1>1. class = IF h \in DOMAIN HttpErrors THEN HttpErrors[h]
              ELSE IF h >= 500 THEN "InternalError" ELSE "MediaLibraryError"
  BY DEF RaiseForStatus
<1>2. CASE h \in DOMAIN HttpErrors
  BY <1>1, <1>2, ClassesAre, IsValidationError DEF HttpErrors, GrpcStatusForHttp, StatusForHttp
<1>3. CASE h \notin DOMAIN HttpErrors
  BY <1>1, <1>3, ClassesAre, IsValidationError DEF HttpErrors, GrpcStatusForHttp, StatusForHttp
<1> QED  BY <1>2, <1>3

\* The end of a request whose call raised.
LEMMA FailedIs ==
    ASSUME NEW class, NEW passthrough, NEW f, Failed(class, passthrough, f)
    PROVE  /\ request' = [request EXCEPT !.pc = "answered", !.failure = f]
           /\ reply'.grant = {} /\ reply'.items = <<>>
           /\ reply'.status = IF \E p \in passthrough : IsA(class, p) THEN 422
                              ELSE IF class \in Classes THEN 502 ELSE 500
BY IsLibraryError DEF Failed, NoReply

LEMMA UnreachedIs ==
    ASSUME router \in RouterOptions, NEW f \in Unreached
    PROVE  /\ f[1] = "UNREACHED"
           /\ ~IsA(f[2], "ValidationError")
           /\ f[2] \in Classes \/ f[2] = "HTTPError"
<1>1. router.transport \in {"http", "grpc"}
  BY RouterConstants DEF RouterOptions
<1>2. CASE router.transport = "grpc"
  <2>1. PICK code \in RpcCodes : f = <<"UNREACHED", ErrorFromRpc(BareStatus(code)).class>>
    BY <1>2 DEF Unreached
  <2>2. CASE code = "UNKNOWN"
    <3>1. f[2] = "MediaLibraryError"
      BY <2>1, <2>2 DEF ErrorFromRpc, BareStatus, RpcErrors
    <3> QED  BY <1>2, <2>1, <3>1, IsValidationError, ClassesAre
  <2>3. CASE code # "UNKNOWN"
    <3>1. code \in RpcStatuses /\ code # "INVALID_ARGUMENT"
      BY <2>3 DEF RpcCodes, RpcStatuses, RpcErrors
    <3> QED  BY <1>2, <2>1, <3>1, RpcClass DEF BareStatus
  <2> QED  BY <2>2, <2>3
<1>3. CASE router.transport = "http"
  <2>1. f = <<"UNREACHED", "HTTPError">>
    BY <1>3 DEF Unreached
  <2> QED  BY <1>3, <2>1, IsValidationError, ClassesAre
<1> QED  BY <1>1, <1>2, <1>3

LEMMA BrokenIs ==
    ASSUME router \in RouterOptions, NEW f \in Broken
    PROVE  /\ f[1] \in {"UNREACHED", "GARBLED"}
           /\ ~IsA(f[2], "ValidationError")
           /\ f[2] \in Classes \/ f[2] \in TransportOrDecodeErrors
<1>1. CASE f \in Unreached
  BY <1>1, UnreachedIs DEF TransportOrDecodeErrors
<1>2. CASE f \in Garbled
  <2>1. f[1] = "GARBLED" /\ f[2] \in {"JSONDecodeError", "pydantic.ValidationError"}
    BY <1>2 DEF Garbled
  <2> QED  BY <2>1, IsValidationError DEF TransportOrDecodeErrors
<1> QED  BY <1>1, <1>2 DEF Broken

LEMMA NoTokenIs ==
    ASSUME NEW f \in NoTokenFailures
    PROVE  /\ f[1] \in RpcStatuses \ {"INVALID_ARGUMENT"}
           /\ ~IsA(f[2], "ValidationError") /\ f[2] \in Classes
<1>1. f[1] \in {"UNAUTHENTICATED", "UNAVAILABLE"}
      /\ f[2] \in {"UnauthenticatedError", "UnavailableError"}
  BY DEF NoTokenFailures
<1>2. f[1] \in RpcStatuses \ {"INVALID_ARGUMENT"}
  BY <1>1 DEF RpcStatuses, RpcErrors
<1>3. ~IsA(f[2], "ValidationError")
  BY <1>1, IsValidationError
<1>4. f[2] \in Classes
  BY <1>1, ClassesAre
<1> QED  BY <1>2, <1>3, <1>4

LEMMA RefusalIs ==
    ASSUME router \in RouterOptions,
           NEW service \in {"Grants", "Delivery"},
           NEW r \in DOMAIN Refusals[service], NEW f \in Refusal(service, r)
    PROVE  /\ f[1] \in RpcStatuses
           /\ IsA(f[2], "ValidationError") <=> f[1] = "INVALID_ARGUMENT"
           /\ f[2] \in Classes
<1> DEFINE code == Refusals[service][r]
<1>1. code \in RpcStatuses
  BY GrantReasons, DeliveryReasons
<1>3. CASE router.transport = "grpc"
  <2>1. f = <<code, ErrorFromRpc(RefusalStatus(service, r)).class>>
    BY <1>3 DEF Refusal
  <2> QED  BY <1>1, <2>1, RpcClass DEF RefusalStatus
<1>4. CASE router.transport # "grpc"
  <2>1. PICK h \in HttpStatuses : /\ GrpcStatusForHttp(h) = code
                                  /\ f = <<code, RaiseForStatus(h, r).class>>
    BY <1>4 DEF Refusal
  <2> QED  BY <1>1, <2>1, HttpClass
<1> QED  BY <1>3, <1>4

\* Statuses and the other causes.
LEMMA CauseFacts ==
    /\ None \notin Causes /\ None \notin RpcStatuses
    /\ None \notin {"INVALID_ARGUMENT", "UNREACHED", "GARBLED", "UNSENT", "HOOK"}
    /\ Causes = RpcStatuses \cup {"UNREACHED", "GARBLED", "UNSENT", "HOOK"}
    /\ "INVALID_ARGUMENT" \in RpcStatuses
    /\ RpcStatuses \cap {"UNREACHED", "GARBLED", "UNSENT", "HOOK"} = {}
<1>1. None \notin Causes
  BY RouterConstants
<1>2. Causes = RpcStatuses \cup {"UNREACHED", "GARBLED", "UNSENT", "HOOK"}
  BY DEF Causes, RpcStatuses
<1>3. /\ "INVALID_ARGUMENT" \in RpcStatuses
      /\ RpcStatuses \cap {"UNREACHED", "GARBLED", "UNSENT", "HOOK"} = {}
  BY DEF RpcStatuses, RpcErrors
<1> QED  BY <1>1, <1>2, <1>3

\* What a failed call of the grants or of the delivery service raises.
LEMMA FailuresAre ==
    ASSUME router \in RouterOptions,
           NEW service \in {"Grants", "Delivery"}, NEW f \in Failures(service)
    PROVE  /\ f[1] \in RpcStatuses \cup {"UNREACHED", "GARBLED"}
           /\ IsA(f[2], "ValidationError") <=> f[1] = "INVALID_ARGUMENT"
           /\ f[1] \in RpcStatuses => f[2] \in Classes
           /\ f[2] \in Classes \/ f[2] \in TransportOrDecodeErrors
<1>1. CASE f \in NoTokenFailures
  BY <1>1, NoTokenIs
<1>2. CASE f \in Broken
  BY <1>2, BrokenIs, CauseFacts
<1>3. CASE \E r \in DOMAIN Refusals[service] : f \in Refusal(service, r)
  BY <1>3, RefusalIs
<1> QED  BY <1>1, <1>2, <1>3 DEF Failures

\* The gate lets only the client's own exceptions through.
LEMMA GateFailuresAre ==
    ASSUME router \in RouterOptions, NEW f \in GateFailures
    PROVE  f[1] \in Causes \ {"HOOK"} /\ f[2] \in Classes
<1>1. PICK g \in DeliveryFailures :
          f = <<g[1], IF g[2] \in TransportOrDecodeErrors THEN "MediaLibraryError" ELSE g[2]>>
  BY DEF GateFailures
<1>2. CASE router.transport = "http"
  <2>1. g[1] = "UNIMPLEMENTED" /\ g[2] = "UnimplementedError"
    BY <1>1, <1>2 DEF DeliveryFailures
  <2> QED  BY <1>1, <2>1, ClassesAre DEF TransportOrDecodeErrors, Causes, RpcErrors
<1>3. CASE router.transport # "http"
  <2>1. /\ g[1] \in RpcStatuses \cup {"UNREACHED", "GARBLED"}
        /\ g[2] \in Classes \/ g[2] \in TransportOrDecodeErrors
    BY <1>1, <1>3, FailuresAre DEF DeliveryFailures
  <2>2. "MediaLibraryError" \in Classes
    BY ClassesAre
  <2>3. f[2] \in Classes
    BY <1>1, <2>1, <2>2
  <2> QED  BY <1>1, <2>1, <2>3, CauseFacts
<1> QED  BY <1>2, <1>3

-----------------------------------------------------------------------------

\* The request in progress is answered, or goes on; nothing is signed.
LEMMA NothingIssued ==
    ASSUME IssuedInv, UNCHANGED <<router, issued, upload>>, reply'.grant = {}
    PROVE  IssuedInv'
BY DEF IssuedInv, Decided, SubjectOf

LEMMA NoAnswer == NoReply.grant = {} /\ NoReply.items = <<>> /\ DOMAIN NoReply.items = {}
BY DEF NoReply

LEMMA NewRequest ==
    ASSUME RouterIInv, request' \in RequestRecords, reply' = NoReply,
           UNCHANGED <<router, issued, upload>>,
           request'.pc \in {"asked", "sent"}, request'.kind # "none",
           request'.pc = "asked" <=> request'.kind = "grant",
           request'.failure = None, ~request'.yes,
           request'.kind = "grant" =>
               request'.user \in Users /\ request'.body \in GrantRequests,
           request'.kind = "asset" => \E a \in Assets : request'.ids = {a},
           request'.allowed \subseteq request'.ids
    PROVE  RouterIInv'
<1>1. RouterTyped'  BY DEF RouterIInv, RouterTyped
<1>2. OpenInv'  BY DEF OpenInv, RequestRecords
<1>3. IssuedInv'  BY NothingIssued, NoAnswer DEF RouterIInv
<1>4. AnswersTellTheirCause'  BY DEF AnswersTellTheirCause
<1>5. DeniedAreForbidden'  BY NoAnswer DEF DeniedAreForbidden
<1> QED  BY <1>1, <1>2, <1>3, <1>4, <1>5 DEF RouterIInv

LEMMA AskGrantKeeps ==
    ASSUME RouterIInv, NEW user \in Users, NEW body \in GrantRequests, AskGrant(user, body)
    PROVE  RouterIInv'
<1>1. request' = [NoRequest EXCEPT !.pc = "asked", !.kind = "grant",
                                    !.user = user, !.body = body]
  BY DEF AskGrant
<1>2. /\ request' \in RequestRecords /\ request'.pc = "asked" /\ request'.kind = "grant"
      /\ request'.failure = None /\ ~request'.yes /\ request'.user = user
      /\ request'.body = body /\ request'.allowed = {} /\ request'.ids = {}
  BY <1>1 DEF NoRequest, RequestRecords, Bodies, ResultMaps
<1> QED  BY <1>2, NewRequest DEF AskGrant

LEMMA AskAssetsKeeps ==
    ASSUME RouterIInv, NEW user \in Users, NEW kind \in {"asset", "resolve"},
           NEW ids \in SUBSET Assets, AskAssets(user, kind, ids),
           kind = "asset" => \E a \in Assets : ids = {a}
    PROVE  RouterIInv'
<1>1. PICK may \in SUBSET ids :
          request' = [NoRequest EXCEPT !.pc = "sent", !.kind = kind, !.user = user,
                                        !.ids = ids, !.allowed = may]
  BY DEF AskAssets
<1>2. /\ request' \in RequestRecords /\ request'.pc = "sent" /\ request'.kind = kind
      /\ request'.failure = None /\ ~request'.yes /\ request'.allowed = may
      /\ request'.ids = ids
  BY <1>1 DEF NoRequest, RequestRecords, Bodies, ResultMaps
<1> QED  BY <1>2, NewRequest DEF AskAssets

\* A request is answered without anything being signed.
LEMMA AnswerKeeps ==
    ASSUME RouterIInv, request.pc \in {"asked", "sent"},
           UNCHANGED <<router, issued, upload>>,
           request' \in RequestRecords, request'.pc = "answered",
           request'.kind = request.kind, request'.user = request.user,
           request'.body = request.body, request'.yes = request.yes,
           request'.ids = request.ids, request'.allowed = request.allowed,
           reply'.grant = {}, AnswersTellTheirCause', DeniedAreForbidden'
    PROVE  RouterIInv'
<1>1. RouterTyped'  BY DEF RouterIInv, RouterTyped
<1>2. OpenInv'  BY DEF RouterIInv, OpenInv, RouterTyped
<1>3. IssuedInv'  BY NothingIssued DEF RouterIInv
<1> QED  BY <1>1, <1>2, <1>3 DEF RouterIInv

LEMMA AnsweredAs ==
    ASSUME RouterTyped, NEW f \in Causes \cup {None},
           request' = [request EXCEPT !.pc = "answered", !.failure = f]
    PROVE  /\ request' \in RequestRecords /\ request'.pc = "answered"
           /\ request'.kind = request.kind /\ request'.user = request.user
           /\ request'.body = request.body /\ request'.yes = request.yes
           /\ request'.ids = request.ids /\ request'.allowed = request.allowed
           /\ request'.failure = f /\ request'.said = request.said
BY DEF RouterTyped, RequestRecords

LEMMA AnsweredIs ==
    ASSUME RouterTyped, Answered
    PROVE  /\ request' \in RequestRecords /\ request'.pc = "answered"
           /\ request'.kind = request.kind /\ request'.user = request.user
           /\ request'.body = request.body /\ request'.yes = request.yes
           /\ request'.ids = request.ids /\ request'.allowed = request.allowed
           /\ request'.failure = request.failure /\ request'.said = request.said
BY DEF RouterTyped, RequestRecords, Answered

LEMMA RefuseKeeps ==
    ASSUME RouterIInv, RefuseBody \/ Refuse
    PROVE  RouterIInv'
<1>1. /\ request.pc = "asked" /\ request.kind = "grant" /\ Answered
      /\ UNCHANGED <<router, issued, upload>>
      /\ reply'.grant = {} /\ reply'.items = <<>>
      /\ \/ ~Acceptable(request.body) /\ reply'.status = 422
         \/ Acceptable(request.body) /\ reply'.status = 403
  BY DEF RefuseBody, Refuse, Respond
<1>2. RouterTyped /\ request.failure = None /\ ~request.yes
  BY <1>1 DEF RouterIInv, OpenInv
<1>3. AnswersTellTheirCause'
  BY <1>1, <1>2, AnsweredIs, CauseFacts DEF AnswersTellTheirCause, RpcStatuses
<1>4. DeniedAreForbidden'
  BY <1>1 DEF DeniedAreForbidden
<1> QED  BY <1>1, <1>2, <1>3, <1>4, AnsweredIs, AnswerKeeps

\* A grant request whose call raised: no property of the answer but its status.
LEMMA GrantFailsWith ==
    ASSUME RouterIInv, request.kind = "grant", request.pc \in {"asked", "sent"},
           Acceptable(request.body),
           NEW class, NEW f \in Causes \ {"HOOK"}, Failed(class, {"ValidationError"}, f),
           IsA(class, "ValidationError") <=> f = "INVALID_ARGUMENT",
           f \in RpcStatuses => class \in Classes,
           f = "UNSENT" => class \notin Classes,
           UNCHANGED <<router, upload>>
    PROVE  /\ AnswersTellTheirCause' /\ DeniedAreForbidden'
           /\ request' \in RequestRecords /\ request'.pc = "answered"
           /\ request'.kind = request.kind /\ request'.user = request.user
           /\ request'.body = request.body /\ request'.yes = request.yes
           /\ request'.ids = request.ids /\ request'.allowed = request.allowed
           /\ reply'.grant = {}
<1>1. /\ request' = [request EXCEPT !.pc = "answered", !.failure = f]
      /\ reply'.grant = {} /\ reply'.items = <<>>
      /\ reply'.status = IF \E p \in {"ValidationError"} : IsA(class, p) THEN 422
                         ELSE IF class \in Classes THEN 502 ELSE 500
  BY IsLibraryError DEF Failed, NoReply
<1>2. RouterTyped /\ f \in Causes \cup {None} /\ f # None
  BY CauseFacts DEF RouterIInv
<1>3. /\ request'.failure = f /\ request'.pc = "answered" /\ request'.kind = "grant"
      /\ request'.body = request.body /\ request'.yes = request.yes
  BY <1>1, <1>2, AnsweredAs
<1>4. /\ f = "INVALID_ARGUMENT" => reply'.status = 422
      /\ f # "INVALID_ARGUMENT" => reply'.status \in {500, 502}
      /\ f \in RpcStatuses \ {"INVALID_ARGUMENT"} => reply'.status = 502
      /\ f = "UNSENT" => reply'.status = 500
  BY <1>1, CauseFacts
<1>5. AnswersTellTheirCause'
  BY <1>2, <1>3, <1>4, CauseFacts DEF AnswersTellTheirCause, RpcStatuses
<1>6. DeniedAreForbidden'
  BY <1>1 DEF DeniedAreForbidden
<1> QED  BY <1>1, <1>2, <1>5, <1>6, AnsweredAs

LEMMA AuthorizeKeeps ==
    ASSUME RouterIInv, Authorize
    PROVE  RouterIInv'
<1>1. /\ request.pc = "asked" /\ request.kind = "grant" /\ Acceptable(request.body)
      /\ UNCHANGED <<router, issued, upload>>
  BY DEF Authorize
<1>2. CASE \E p \in Named(request.body) : AllowsNothing(p)
  <2>1. Failed("ValueError", {"ValidationError"}, "UNSENT")
    BY <1>2 DEF Authorize
  <2>2. "ValueError" \notin Classes /\ ~IsA("ValueError", "ValidationError")
    BY ClassesAre, IsValidationError
  <2>3. "UNSENT" \in Causes \ {"HOOK"} /\ "UNSENT" \notin RpcStatuses
    BY CauseFacts
  <2> QED  BY <1>1, <2>1, <2>2, <2>3, GrantFailsWith, AnswerKeeps
<1>3. CASE ~\E p \in Named(request.body) : AllowsNothing(p)
  <2>1. /\ request' = [request EXCEPT !.pc = "sent", !.yes = TRUE] /\ UNCHANGED reply
        /\ \A p \in Named(request.body) : MayUse(p, Permissions[request.user], TRUE)
    BY <1>3 DEF Authorize
  <2>2. RouterTyped /\ request \in RequestRecords
    BY DEF RouterIInv, RouterTyped
  <2>3. /\ request' \in RequestRecords /\ request'.pc = "sent" /\ request'.yes
        /\ request'.kind = request.kind /\ request'.user = request.user
        /\ request'.body = request.body /\ request'.failure = request.failure
        /\ request'.ids = request.ids /\ request'.allowed = request.allowed
        /\ request'.said = request.said
    BY <2>1, <2>2 DEF RequestRecords
  <2>4. RouterTyped'
    BY <1>1, <2>2, <2>3 DEF RouterTyped
  <2>5. OpenInv'
    BY <1>1, <1>3, <2>1, <2>3 DEF RouterIInv, OpenInv
  <2>6. IssuedInv'
    BY <1>1, <2>1, <2>3 DEF RouterIInv, IssuedInv, Decided, SubjectOf
  <2>7. AnswersTellTheirCause'
    BY <2>3 DEF AnswersTellTheirCause
  <2>8. DeniedAreForbidden'
    BY <1>1, <2>1, <2>3 DEF RouterIInv, DeniedAreForbidden
  <2> QED  BY <2>4, <2>5, <2>6, <2>7, <2>8 DEF RouterIInv
<1> QED  BY <1>2, <1>3

LEMMA SentIsAcceptable ==
    ASSUME RouterIInv, request.pc = "sent", request.kind = "grant"
    PROVE  /\ Acceptable(request.body) /\ request.yes /\ request.failure = None
           /\ Decided(Signed(request))
           /\ Signed(request).user = request.user /\ Signed(request).body = request.body
<1>1. /\ request.yes /\ request.failure = None /\ Acceptable(request.body)
      /\ request.user \in Users /\ request.body \in GrantRequests
      /\ \A p \in Named(request.body) :
            MayUse(p, Permissions[request.user], TRUE) /\ ~AllowsNothing(p)
  BY DEF RouterIInv, OpenInv
<1>2. /\ Signed(request).user = request.user /\ Signed(request).body = request.body
      /\ Signed(request).yes = request.yes
      /\ Signed(request).grant =
            Sent(router.transport, Payload(request.body.scopes, request.body.assets,
                                           request.body.sessions, Named(request.body),
                                           SubjectOf(request.user)))
  BY DEF Signed
<1> QED  BY <1>1, <1>2 DEF Decided

LEMMA GrantFailsKeeps ==
    ASSUME RouterIInv, GrantFails
    PROVE  RouterIInv'
<1>1. PICK f \in Failures("Grants") : Failed(f[2], {"ValidationError"}, f[1])
  BY DEF GrantFails
<1>2. /\ request.pc = "sent" /\ request.kind = "grant" /\ UNCHANGED <<router, issued, upload>>
  BY DEF GrantFails
<1>3. router \in RouterOptions
  BY DEF RouterIInv, RouterTyped
<1>4. /\ f[1] \in RpcStatuses \cup {"UNREACHED", "GARBLED"}
      /\ IsA(f[2], "ValidationError") <=> f[1] = "INVALID_ARGUMENT"
      /\ f[1] \in RpcStatuses => f[2] \in Classes
  BY <1>3, FailuresAre
<1>5. f[1] \in Causes \ {"HOOK"} /\ f[1] # "UNSENT"
  BY <1>4, CauseFacts
<1> QED  BY <1>1, <1>2, <1>4, <1>5, GrantFailsWith, SentIsAcceptable, AnswerKeeps

\* What was signed joins the issued grants.
LEMMA SigningKeeps ==
    ASSUME RouterIInv, request.pc = "sent", request.kind = "grant",
           issued' = issued \cup {Signed(request)}, UNCHANGED <<router, upload>>,
           reply'.grant \subseteq {Signed(request)},
           request'.user = request.user, request'.body = request.body
    PROVE  IssuedInv'
<1>1. \A g : Decided(g)' <=> Decided(g)
  BY DEF Decided, SubjectOf
<1>2. \A g \in issued' : Decided(g)'
  BY <1>1, SentIsAcceptable DEF RouterIInv, IssuedInv
<1>3. \A g \in reply'.grant : g \in issued' /\ g.user = request'.user /\ g.body = request'.body
  BY SentIsAcceptable
<1>4. issued \subseteq issued' /\ upload' = upload
  OBVIOUS
<1> QED  BY <1>2, <1>3, <1>4 DEF RouterIInv, IssuedInv

LEMMA IssueKeeps ==
    ASSUME RouterIInv, Issue
    PROVE  RouterIInv'
<1>1. /\ request.pc = "sent" /\ request.kind = "grant" /\ Answered
      /\ issued' = issued \cup {Signed(request)} /\ UNCHANGED <<router, upload>>
      /\ reply'.status = 201 /\ reply'.grant = {Signed(request)} /\ reply'.items = <<>>
  BY DEF Issue, Respond
<1>2. RouterTyped /\ request.failure = None /\ request.yes /\ Acceptable(request.body)
  BY <1>1, SentIsAcceptable DEF RouterIInv
<1>3. /\ request' \in RequestRecords /\ request'.pc = "answered"
      /\ request'.kind = request.kind /\ request'.user = request.user
      /\ request'.body = request.body /\ request'.yes = request.yes
      /\ request'.ids = request.ids /\ request'.allowed = request.allowed
      /\ request'.failure = request.failure
  BY <1>1, <1>2, AnsweredIs
<1>4. RouterTyped'  BY <1>1, <1>2, <1>3 DEF RouterTyped
<1>5. OpenInv'  BY <1>1, <1>2, <1>3 DEF RouterIInv, OpenInv
<1>6. IssuedInv'  BY <1>1, <1>3, SigningKeeps
<1>7. AnswersTellTheirCause'
  BY <1>1, <1>2, <1>3, CauseFacts DEF AnswersTellTheirCause, RpcStatuses
<1>8. DeniedAreForbidden'  BY <1>1 DEF DeniedAreForbidden
<1> QED  BY <1>4, <1>5, <1>6, <1>7, <1>8 DEF RouterIInv

LEMMA IssueLostKeeps ==
    ASSUME RouterIInv, IssueLost
    PROVE  RouterIInv'
<1>1. /\ request.pc = "sent" /\ request.kind = "grant"
      /\ issued' = issued \cup {Signed(request)} /\ UNCHANGED <<router, upload>>
  BY DEF IssueLost
<1>2. PICK f \in Broken : Failed(f[2], {"ValidationError"}, f[1])
  BY DEF IssueLost
<1>3. router \in RouterOptions /\ RouterTyped
  BY DEF RouterIInv, RouterTyped
<1>4. f[1] \in {"UNREACHED", "GARBLED"} /\ ~IsA(f[2], "ValidationError")
  BY <1>3, BrokenIs
<1>5. /\ f[1] \in Causes \ {"HOOK"} /\ f[1] \notin RpcStatuses /\ f[1] # "UNSENT"
      /\ IsA(f[2], "ValidationError") <=> f[1] = "INVALID_ARGUMENT"
  BY <1>4, CauseFacts
<1>6. /\ AnswersTellTheirCause' /\ DeniedAreForbidden'
      /\ request' \in RequestRecords /\ request'.pc = "answered"
      /\ request'.kind = request.kind /\ request'.user = request.user
      /\ request'.body = request.body /\ request'.yes = request.yes
      /\ request'.ids = request.ids /\ request'.allowed = request.allowed
      /\ reply'.grant = {}
  BY <1>1, <1>2, <1>5, GrantFailsWith, SentIsAcceptable
<1>7. RouterTyped'  BY <1>1, <1>3, <1>6 DEF RouterTyped
<1>8. OpenInv'  BY <1>1, <1>6 DEF RouterIInv, OpenInv
<1>9. IssuedInv'  BY <1>1, <1>6, SigningKeeps
<1> QED  BY <1>6, <1>7, <1>8, <1>9 DEF RouterIInv

\* What is not touched.
LEMMA SameKeeps ==
    ASSUME RouterIInv, UNCHANGED <<router, request, reply, issued>>
    PROVE  RouterTyped' /\ OpenInv' /\ AnswersTellTheirCause' /\ DeniedAreForbidden'
<1>1. router' = router /\ request' = request /\ reply' = reply
  OBVIOUS
<1>2. RouterTyped'  BY <1>1 DEF RouterIInv, RouterTyped
<1>3. OpenInv'  BY <1>1 DEF RouterIInv, OpenInv
<1>4. AnswersTellTheirCause'
  <2>1. AnswersTellTheirCause  BY DEF RouterIInv
  <2> QED  BY <1>1, <2>1 DEF AnswersTellTheirCause
<1>5. DeniedAreForbidden'  BY <1>1 DEF RouterIInv, DeniedAreForbidden
<1> QED  BY <1>2, <1>3, <1>4, <1>5

LEMMA UploadKeeps ==
    ASSUME RouterIInv, NEW g \in issued, NEW file \in Files, Upload(g, file)
    PROVE  RouterIInv'
<1>1. /\ UNCHANGED <<router, request, reply, issued>> /\ upload' = <<g, file>>
      /\ \E p \in g.grant.profile : Admits(p, file[1], file[2])
  BY DEF Upload
<1>2. IssuedInv'
  BY <1>1 DEF RouterIInv, IssuedInv, Decided, SubjectOf
<1>3. RouterTyped' /\ OpenInv' /\ AnswersTellTheirCause' /\ DeniedAreForbidden'
  BY <1>1, SameKeeps
<1> QED  BY <1>2, <1>3 DEF RouterIInv

\* The shape of a result.
LEMMA ResultIs ==
    ASSUME NEW x \in Results
    PROVE  /\ x = [status |-> x.status, thumbnail |-> x.thumbnail]
           /\ x.status \in Statuses \cup {"missing"} /\ x.thumbnail \in BOOLEAN
           /\ x = Unanswered <=> x.status = "missing"
           /\ x.status \in {"ok", "bare", "not_found", "forbidden", "error", "missing"}
<1>1. CASE x = Unanswered
  BY <1>1 DEF Unanswered
<1>2. CASE x # Unanswered
  <2>1. x \in [status: Statuses, thumbnail: BOOLEAN]
    BY <1>2 DEF Results, Items
  <2> QED  BY <1>2, <2>1 DEF Statuses
<1> QED  BY <1>1, <1>2

LEMMA ResolveKeeps ==
    ASSUME RouterIInv, Resolve
    PROVE  RouterIInv'
<1>1. PICK results \in [request.ids -> Results] :
          /\ Deliver(results)
          /\ \A a \in request.ids \ Resolved : results[a] = Unanswered
  BY DEF Resolve
<1>2. /\ request.pc = "sent" /\ request.kind # "grant" /\ UNCHANGED <<router, issued, upload>>
  BY DEF Resolve
<1>3. RouterTyped /\ request \in RequestRecords /\ request.failure = None
  BY <1>2 DEF RouterIInv, RouterTyped, OpenInv
<1>4. request.kind \in {"asset", "resolve"} /\ request.ids \subseteq Assets
  BY <1>2, <1>3 DEF RouterTyped, RequestRecords
<1> DEFINE items == [a \in request.ids |-> GateItem(a \in request.allowed, results[a])]
<1>5. /\ request' = [request EXCEPT !.pc = "answered", !.said = results]
      /\ IF request.kind = "resolve"
            THEN Respond(200, {}, items)
            ELSE Respond(StatusOf(items[CHOOSE a \in request.ids : TRUE]), {}, items)
  BY <1>1 DEF Deliver
<1>6. results \in ResultMaps
  BY <1>4 DEF ResultMaps
<1>7. /\ request' \in RequestRecords /\ request'.pc = "answered"
      /\ request'.kind = request.kind /\ request'.user = request.user
      /\ request'.body = request.body /\ request'.yes = request.yes
      /\ request'.ids = request.ids /\ request'.allowed = request.allowed
      /\ request'.failure = request.failure /\ request'.said = results
  BY <1>3, <1>5, <1>6 DEF RequestRecords
<1>8. /\ reply'.grant = {} /\ reply'.items = items
      /\ request.kind = "resolve" => reply'.status = 200
      /\ request.kind # "resolve" =>
            reply'.status = StatusOf(items[CHOOSE a \in request.ids : TRUE])
  BY <1>5 DEF Respond
<1>9. DeniedAreForbidden'
  <2>1. \A a \in request.ids : items[a] = GateItem(a \in request.allowed, results[a])
    OBVIOUS
  <2>2. DOMAIN items = request.ids
    OBVIOUS
  <2>3. \A a \in request.ids : results[a] \in Results
    OBVIOUS
  <2>4. \A a \in request.ids \ request.allowed : results[a].thumbnail => router.thumbnails
    BY <1>1 DEF Resolved, Unanswered
  <2> HIDE DEF items
  <2>5. ASSUME NEW a \in request.ids
        PROVE  /\ a \notin request.allowed =>
                    /\ items[a].status = "forbidden"
                    /\ items[a].thumbnail => router.thumbnails /\ results[a].thumbnail
               /\ a \in request.allowed /\ items[a].status = "forbidden" =>
                    results[a].status = "forbidden"
    <3>1. /\ results[a] = [status |-> results[a].status, thumbnail |-> results[a].thumbnail]
          /\ results[a] = Unanswered <=> results[a].status = "missing"
      BY <2>3, ResultIs
    <3>2. ASSUME a \notin request.allowed
          PROVE  items[a].status = "forbidden" /\ items[a].thumbnail = results[a].thumbnail
      <4>1. items[a] = [results[a] EXCEPT !.status = "forbidden"]
        BY <2>1, <3>2 DEF GateItem
      <4> HIDE DEF Unanswered
      <4> QED  BY <3>1, <4>1
    <3>3. ASSUME a \in request.allowed, items[a].status = "forbidden"
          PROVE  results[a].status = "forbidden"
      <4>1. CASE results[a] = Unanswered
        <5>1. items[a] = [results[a] EXCEPT !.status = "error"]
          BY <2>1, <3>3, <4>1 DEF GateItem
        <5>2. items[a].status = "error"
          BY <3>1, <5>1
        <5> QED  BY <3>3, <5>2
      <4>2. CASE results[a] # Unanswered
        BY <2>1, <3>3, <4>2 DEF GateItem
      <4> QED  BY <4>1, <4>2
    <3> QED  BY <2>4, <3>2, <3>3
  <2> QED  BY <1>2, <1>7, <1>8, <2>2, <2>5 DEF DeniedAreForbidden
<1>10. AnswersTellTheirCause'
  <2>1. CASE request.kind = "resolve"
    BY <1>3, <1>7, <1>8, <2>1 DEF AnswersTellTheirCause
  <2>2. CASE request.kind = "asset"
    <3>1. PICK a \in Assets : request.ids = {a}
      BY <2>2 DEF RouterIInv, OpenInv
    <3>2. (CHOOSE b \in request.ids : TRUE) = a
      BY <3>1
    <3>3. results[a] \in Results
      BY <3>1
    <3>4. reply'.status = StatusOf(GateItem(a \in request.allowed, results[a]))
      BY <1>8, <2>2, <3>1, <3>2
    <3> DEFINE said == IF a \in request.allowed THEN results[a].status ELSE "forbidden"
    <3>5. /\ reply'.status = 200 <=> said = "ok"
          /\ reply'.status = 404 <=> said = "not_found"
          /\ reply'.status = 403 <=> said = "forbidden"
          /\ reply'.status = 502 <=> said \in {"bare", "error", "missing"}
      BY <3>3, <3>4, ResultIs DEF StatusOf, GateItem
    <3> QED  BY <1>3, <1>7, <2>2, <3>1, <3>5 DEF AnswersTellTheirCause
  <2> QED  BY <1>4, <2>1, <2>2
<1> QED  BY <1>2, <1>7, <1>8, <1>9, <1>10, AnswerKeeps

\* A request for assets whose call or hook raised.
LEMMA AssetsFailWith ==
    ASSUME RouterIInv, request.pc = "sent", request.kind # "grant",
           NEW class, NEW f \in Causes, Failed(class, {}, f),
           f # "HOOK" => class \in Classes,
           UNCHANGED <<router, issued, upload>>
    PROVE  RouterIInv'
<1>1. /\ request' = [request EXCEPT !.pc = "answered", !.failure = f]
      /\ reply'.grant = {} /\ reply'.items = <<>>
      /\ reply'.status = IF class \in Classes THEN 502 ELSE 500
  BY IsLibraryError DEF Failed, NoReply
<1>2. RouterTyped /\ f \in Causes \cup {None} /\ f # None
  BY CauseFacts DEF RouterIInv
<1>3. AnswersTellTheirCause'
  <2>1. request'.failure = f /\ request'.kind = request.kind
    BY <1>1, <1>2, AnsweredAs
  <2>2. reply'.status \in {502} \cup (IF f = "HOOK" THEN {500} ELSE {})
    BY <1>1
  <2> QED  BY <1>2, <2>1, <2>2 DEF AnswersTellTheirCause
<1>4. DeniedAreForbidden'
  BY <1>1 DEF DeniedAreForbidden
<1>5. /\ request' \in RequestRecords /\ request'.pc = "answered"
      /\ request'.kind = request.kind /\ request'.user = request.user
      /\ request'.body = request.body /\ request'.yes = request.yes
      /\ request'.ids = request.ids /\ request'.allowed = request.allowed
  <2>1. request' = [request EXCEPT !.pc = "answered", !.failure = f]
    BY <1>1
  <2> QED  BY <1>2, <2>1, AnsweredAs
<1> QED  BY <1>1, <1>3, <1>4, <1>5, AnswerKeeps

LEMMA ResolveFailsKeeps ==
    ASSUME RouterIInv, ResolveFails
    PROVE  RouterIInv'
<1>1. PICK f \in GateFailures : Failed(f[2], {}, f[1])
  BY DEF ResolveFails
<1>2. f[1] \in Causes /\ f[2] \in Classes
  BY GateFailuresAre DEF RouterIInv, RouterTyped
<1> QED  BY <1>1, <1>2, AssetsFailWith DEF ResolveFails

LEMMA AccessRaisesKeeps ==
    ASSUME RouterIInv, NEW class, AccessRaises(class)
    PROVE  RouterIInv'
BY CauseFacts, AssetsFailWith DEF AccessRaises

LEMMA RouterInit_IInv == RouterInit => RouterIInv
<1> SUFFICES ASSUME RouterInit PROVE RouterIInv
  OBVIOUS
<1>1. /\ request.pc = "none" /\ request.kind = "none" /\ request.failure = None
      /\ request.yes = FALSE /\ request.allowed = {} /\ request.ids = {}
      /\ request \in RequestRecords
  BY DEF RouterInit, NoRequest, RequestRecords, Bodies, ResultMaps
<1>2. RouterTyped  BY <1>1 DEF RouterInit, RouterTyped
<1>3. OpenInv  BY <1>1 DEF RouterInit, OpenInv
<1>4. IssuedInv  BY NoAnswer DEF RouterInit, IssuedInv
<1>5. AnswersTellTheirCause  BY <1>1 DEF AnswersTellTheirCause
<1>6. DeniedAreForbidden  BY NoAnswer DEF RouterInit, DeniedAreForbidden
<1> QED  BY <1>2, <1>3, <1>4, <1>5, <1>6 DEF RouterIInv

LEMMA RouterStep == RouterIInv /\ [RouterNext]_routerVars => RouterIInv'
<1> SUFFICES ASSUME RouterIInv, [RouterNext]_routerVars PROVE RouterIInv'
  OBVIOUS
<1>1. CASE \E user \in Users, body \in GrantRequests : AskGrant(user, body)
  BY <1>1, AskGrantKeeps
<1>2. CASE RefuseBody \/ Refuse
  BY <1>2, RefuseKeeps
<1>3. CASE Authorize
  BY <1>3, AuthorizeKeeps
<1>4. CASE Issue
  BY <1>4, IssueKeeps
<1>5. CASE IssueLost
  BY <1>5, IssueLostKeeps
<1>6. CASE GrantFails
  BY <1>6, GrantFailsKeeps
<1>7. CASE \E g \in issued, file \in Files : Upload(g, file)
  BY <1>7, UploadKeeps
<1>8. CASE \E user \in Users, a \in Assets : AskAssets(user, "asset", {a})
  BY <1>8, AskAssetsKeeps
<1>9. CASE \E user \in Users, ids \in Pages : AskAssets(user, "resolve", ids)
  BY <1>9, AskAssetsKeeps, RouterConstants
<1>10. CASE Resolve
  BY <1>10, ResolveKeeps
<1>11. CASE ResolveFails
  BY <1>11, ResolveFailsKeeps
<1>12. CASE \E class \in {"TypeError", "NotFoundError"} : AccessRaises(class)
  BY <1>12, AccessRaisesKeeps
<1>13. CASE UNCHANGED routerVars
  <2>1. IssuedInv'
    BY <1>13 DEF routerVars, RouterIInv, IssuedInv, Decided, SubjectOf
  <2> QED  BY <1>13, <2>1, SameKeeps DEF routerVars, RouterIInv
<1> QED  BY <1>1, <1>2, <1>3, <1>4, <1>5, <1>6, <1>7, <1>8, <1>9, <1>10, <1>11, <1>12, <1>13
         DEF RouterNext

(* The requests of any number of users, and what the library signed for them, *)
(* keep RouterIInv.                                                          *)
THEOREM RouterInvariant == RouterSpec => []RouterIInv
BY RouterInit_IInv, RouterStep, PTL DEF RouterSpec

(* For whatever the library's calls and can_access raise, over either        *)
(* transport, the status of the routers' answer tells whose doing it is; a   *)
(* grant whose library was not reached, or made no sense, may be a 500.      *)
THEOREM RouterAnswersTellTheirCause == RouterSpec => []AnswersTellTheirCause
<1>1. RouterIInv => AnswersTellTheirCause  BY DEF RouterIInv
<1> QED  BY <1>1, RouterInvariant, PTL

(* Every asset that can_access denies is answered forbidden, there or not,   *)
(* with at most its public thumbnail, which a router without thumbnails does *)
(* not show either.                                                          *)
THEOREM RouterDeniedAreForbidden == RouterSpec => []DeniedAreForbidden
<1>1. RouterIInv => DeniedAreForbidden  BY DEF RouterIInv
<1> QED  BY <1>1, RouterInvariant, PTL

\* What the library reads of a payload, over either transport.
ProfilesSent(transport, profile) ==
    IF transport = "grpc" THEN {GrpcProfile(ProfilePayload(p)) : p \in profile}
    ELSE {ProfilePayload(p) : p \in profile}

LEMMA SentIs ==
    ASSUME NEW transport, NEW scopes, NEW assets, NEW sessions, NEW profile, NEW subject, NEW grant,
           grant = Sent(transport, Payload(scopes, assets, sessions, profile, subject))
    PROVE  /\ grant.scopes = scopes /\ grant.subject = subject
           /\ grant.assets = {assets} \ {{}} /\ grant.sessions = {sessions} \ {{}}
           /\ grant.profile = ProfilesSent(transport, profile)
<1> DEFINE profiles == {ProfilePayload(p) : p \in profile}
           named == {assets} \ {{}}
           held == {sessions} \ {{}}
           payload == Payload(scopes, assets, sessions, profile, subject)
<1>1. payload = [scopes |-> scopes, assets |-> named, sessions |-> held,
                 profile |-> profiles, subject |-> subject]
  BY DEF Payload
<1>2. CASE transport = "grpc"
  <2>1. grant = [payload EXCEPT !.profile = {GrpcProfile(p) : p \in @}]
    BY <1>2 DEF Sent
  <2>2. {GrpcProfile(p) : p \in profiles} = ProfilesSent(transport, profile)
    BY <1>2 DEF ProfilesSent
  <2> HIDE DEF profiles, named, held, payload
  <2>3. payload.profile = profiles
    BY <1>1
  <2>4. grant = [payload EXCEPT !.profile = ProfilesSent(transport, profile)]
    BY <2>1, <2>2, <2>3
  <2>5. grant = [scopes |-> scopes, assets |-> named, sessions |-> held,
                 profile |-> ProfilesSent(transport, profile), subject |-> subject]
    BY <1>1, <2>4
  <2> QED  BY <2>5 DEF named, held
<1>3. CASE transport # "grpc"
  BY <1>1, <1>3 DEF Sent, ProfilesSent
<1> QED  BY <1>2, <1>3

LEMMA OneOrNone == ASSUME NEW S PROVE UNION ({S} \ {{}}) = S
OBVIOUS

(* The grant endpoint has the library sign nothing but what the app's        *)
(* authorize decided for this user and this body, and answers with it.       *)
THEOREM RouterGrantsAsDecided == RouterSpec => []GrantsAsDecided
<1>1. ASSUME RouterIInv PROVE GrantsAsDecided
  <2>1. ASSUME NEW g \in issued
        PROVE  /\ g.yes
               /\ g.grant.subject = SubjectOf(g.user)
               /\ g.grant.scopes = g.body.scopes \ {"manage:*"}
               /\ UNION g.grant.assets = g.body.assets
               /\ UNION g.grant.sessions = g.body.sessions
               /\ \A p \in Named(g.body) : MayUse(p, Permissions[g.user], TRUE)
               /\ {} = g.grant.profile <=> g.body.profile = {}
    <3>1. Decided(g)
      BY <1>1 DEF RouterIInv, IssuedInv
    <3>2. /\ g.grant.scopes = g.body.scopes /\ g.grant.subject = SubjectOf(g.user)
          /\ g.grant.assets = {g.body.assets} \ {{}}
          /\ g.grant.sessions = {g.body.sessions} \ {{}}
          /\ g.grant.profile = ProfilesSent(router.transport, Named(g.body))
      BY <3>1, SentIs DEF Decided
    <3>3. UNION g.grant.assets = g.body.assets /\ UNION g.grant.sessions = g.body.sessions
      BY <3>2, OneOrNone
    <3>4. g.grant.scopes = g.body.scopes \ {"manage:*"}
      BY <3>1, <3>2 DEF Decided, Acceptable
    <3>5. Named(g.body) = {} <=> g.body.profile = {}
      BY DEF Named
    <3>6. {} = g.grant.profile <=> g.body.profile = {}
      BY <3>2, <3>5 DEF ProfilesSent
    <3> QED  BY <3>1, <3>2, <3>3, <3>4, <3>6 DEF Decided
  <2> QED  BY <1>1, <2>1 DEF GrantsAsDecided, RouterIInv, IssuedInv
<1> QED  BY <1>1, RouterInvariant, PTL

(* What a browser uploads with a grant fits the profile it named, however     *)
(* profiles are carried over gRPC or HTTP.                                   *)
THEOREM RouterUploadsFitTheProfile == RouterSpec => []UploadsFitTheProfile
<1>1. ASSUME RouterIInv PROVE UploadsFitTheProfile
  <2> SUFFICES ASSUME upload # <<>>, NEW p \in Named(upload[1].body)
               PROVE  FitsOnServer(p, upload[2][1], upload[2][2])
    BY DEF UploadsFitTheProfile
  <2>1. PICK g \in issued, file \in Files :
            upload = <<g, file>> /\ \E q \in g.grant.profile : Admits(q, file[1], file[2])
    BY <1>1 DEF RouterIInv, IssuedInv
  <2>2. PICK q \in g.grant.profile : Admits(q, file[1], file[2])
    BY <2>1
  <2>3. Decided(g) /\ p \in Named(g.body) /\ g.body \in GrantRequests
    BY <1>1, <2>1 DEF RouterIInv, IssuedInv, Decided
  <2>4. \A r \in Named(g.body) : r = p
    BY <2>3, RouterConstants DEF Named
  <2>5. g.grant.profile = ProfilesSent(router.transport, Named(g.body))
    BY <2>3, SentIs DEF Decided
  <2>6. q \in {GrpcProfile(ProfilePayload(p)), ProfilePayload(p)}
    BY <2>2, <2>4, <2>5 DEF ProfilesSent
  <2>7. ~AllowsNothing(p)
    BY <2>3 DEF Decided
  <2>8. /\ q.maxSize = p.maxSize
        /\ \A types \in p.allowed : AnyType \notin types => types \in q.types
    <3>1. /\ ProfilePayload(p).maxSize = p.maxSize
          /\ ProfilePayload(p).types = {types \in p.allowed : AnyType \notin types}
      BY DEF ProfilePayload
    <3>2. /\ GrpcProfile(ProfilePayload(p)).maxSize = ProfilePayload(p).maxSize
          /\ GrpcProfile(ProfilePayload(p)).types = ProfilePayload(p).types \ {{}}
      BY DEF GrpcProfile, ProfilePayload
    <3>3. {} \notin p.allowed
      BY <2>7 DEF AllowsNothing
    <3> QED  BY <2>6, <3>1, <3>2, <3>3
  <2>9. FitsOnServer(p, file[1], file[2])
    BY <2>2, <2>8 DEF FitsOnServer, Admits
  <2> QED  BY <2>1, <2>9
<1> QED  BY <1>1, RouterInvariant, PTL

=============================================================================
