------------------------------ MODULE Library ------------------------------
(***************************************************************************)
(* What the index database and the scenes compute without waiting: sets of *)
(* ids, the dates and terms of a search, listings, and layouts.  A step    *)
(* picks an input, as a request does, and the invariants compare what the  *)
(* code computes from it with what it should be.                           *)
(***************************************************************************)
EXTENDS RangeTree, SearchDates, Search, Layouts

LOCAL INSTANCE ShortestRows
Map == INSTANCE MapClusters

CONSTANTS
    Widest,         \* bound: the widths of photos that are laid out
    Hours,          \* bound: their times, in half hours, 0 without one
    MostPhotos      \* bound: the photos that are broken into rows

vars == <<treeVars, input>>

Init == InitTree /\ input = Nothing

Photo(prefix, date, matches, emb, faces) ==
    [prefix |-> prefix, date |-> date, matches |-> matches, emb |-> emb, faces |-> faces]

PickListing ==
    \E b \in 1..2, limit \in 0..2 :
    \/ \E order \in {"DateAsc", "DateDesc", "Shuffle"}, exts \in {{}, {"x"}}, from \in {0, 2},
          wild \in {{}, {2}}, d \in [1..3 -> 1..2], m \in [1..3 -> {{}, {"x"}}] :
          input' = [kind |-> "list", batch |-> b,
                    photos |-> [i \in 1..3 |-> Photo(1 + (i % 2), d[i], m[i], NoEmb, <<>>)],
                    o |-> [AnyPhoto EXCEPT !.dirs = {1, 2}, !.order = order, !.limit = limit,
                              !.exts = exts, !.from = from, !.wild = wild]]
    \/ \E order \in {"SimilarityAsc", "SimilarityDesc", "DateAsc"}, e \in [1..3 -> {NoEmb, 0, 2}],
          threshold \in {NoThreshold, 0}, dedup \in {NoThreshold, 1} :
          input' = [kind |-> "list", batch |-> b,
                    photos |-> [i \in 1..3 |-> Photo(1 + (i % 2), i, {}, e[i], <<>>)],
                    o |-> [AnyPhoto EXCEPT !.dirs = {1, 2}, !.order = order, !.limit = limit,
                              !.threshold = threshold, !.emb = 1, !.dedup = dedup]]
    \/ \E order \in {"SimilarityAsc", "SimilarityDesc", "DateAsc"},
          f \in [1..3 -> {<<>>, <<0>>, <<1, 0>>, <<2, 1>>}], threshold \in {NoThreshold, 1} :
          input' = [kind |-> "list", batch |-> b,
                    photos |-> [i \in 1..3 |-> Photo(1 + (i % 2), i, {}, NoEmb, f[i])],
                    o |-> [AnyPhoto EXCEPT !.dirs = {1, 2}, !.order = order, !.limit = limit,
                              !.threshold = threshold, !.face = 0]]

SearchTerms ==
    {[type |-> "word", key |-> "", value |-> 0]} \cup
    {[type |-> "qualifier", key |-> c[1], value |-> c[2]] :
        c \in {<<"tag", "a">>, <<"tag", "b">>, <<"filename", "c">>, <<"filename", "d">>,
               <<"created", 1>>, <<"created", Bad>>, <<"t", 0>>, <<"img", 1>>, <<"img", 9>>,
               <<"face", 1>>, <<"bias", 0>>, <<"filter", Bad>>, <<"who", 1>>}}

PickSearch ==
    \E q \in {<<s>> : s \in SearchTerms} \cup (SearchTerms \X SearchTerms),
       order \in {"DateAsc", "SimilarityDesc"}, d \in 1..2, e \in {NoEmb, 0, 1},
       m \in {{}, {"a"}, {"a", "b"}, {"a", "c"}, {"d"}}, f \in {<<>>, <<0>>} :
        input' = [kind |-> "search", q |-> q, order |-> order,
                  photos |-> <<Photo(1, 1, {"a", "c"}, 0, <<1, 2>>), Photo(2, d, m, e, f)>>]

\* The photos of a scene, in any order, and how they are laid out.
PhotoIn(w, time, sim) == [w |-> w, time |-> time, sim |-> sim]
LayoutConfig == [height |-> 20, spacing |-> 2, line |-> 3, viewHeight |-> 50, shuffled |-> FALSE]
SceneWidth == 80

PickLayout ==
    \/ \E w \in [1..3 -> Widest], t \in [1..3 -> Hours], name \in {"album", "timeline"},
          shuffled \in BOOLEAN :
          input' = [kind |-> "layout", name |-> name,
                    photos |-> [i \in 1..3 |-> PhotoIn(w[i], t[i], 1)],
                    c |-> [LayoutConfig EXCEPT !.shuffled = shuffled]]
    \/ \E w \in [1..4 -> Widest], sim \in [1..4 -> 1..2], name \in {"wall", "search", "strip", "faces"} :
          /\ sim[1] >= sim[2] /\ sim[2] >= sim[3] /\ sim[3] >= sim[4]
          /\ name # "search" => sim[4] = sim[1]
          /\ input' = [kind |-> "layout", name |-> name, c |-> LayoutConfig,
                       photos |-> [i \in 1..4 |-> PhotoIn(w[i], 0, sim[i])]]

RowConfig == [width |-> 60, spacing |-> 1, margin |-> Margin, top |-> 64,
              minAux |-> (AuxHeight(20) * 4) \div 5, viewHeight |-> 40, overWeight |-> 1, smooth |-> FALSE]

PickRows ==
    \/ \E n \in 1..MostPhotos : \E a \in [1..n -> {1, 2, 4}], aux \in 0..n :
          input' = [kind |-> "rows", c |-> [RowConfig EXCEPT !.overWeight = 0],
                    photos |-> FlexPhotos([i \in 1..n |-> [aspect |-> a[i], aux |-> i = aux]], 14)]
    \/ \E n \in 1..(MostPhotos - 2) :
       \E a \in [1..n -> {1, 2, 4}], aux \in 0..n, similar \in SUBSET (2..n) :
          /\ aux \notin similar
          /\ input' = [kind |-> "rows", c |-> [RowConfig EXCEPT !.smooth = TRUE],
                       photos |-> HighlightPhotos(
                           [i \in 1..n |-> [aspect |-> a[i], aux |-> i = aux,
                                           similar |-> i \in similar]], 20)]

PickMap ==
    \E places \in [1..3 -> {0, 9, 10, 19, 20} \X {0, 10, 29}] : input' = [kind |-> "map", places |-> places]

\* Something is asked for, and then with an input.
Ask == tree = {} /\ input = Nothing
       /\ \E what \in {"date", "list", "search", "layout", "rows", "map"} :
              input' = [kind |-> "none", what |-> what]
Pick ==
    /\ input # Nothing /\ input.kind = "none"
    /\ CASE input.what = "date" -> PickDate
         [] input.what = "list" -> PickListing
         [] input.what = "search" -> PickSearch
         [] input.what = "layout" -> PickLayout
         [] input.what = "rows" -> PickRows
         [] input.what = "map" -> PickMap

Next ==
    \/ UNCHANGED treeVars /\ (Ask \/ Pick)
    \/ UNCHANGED input /\ input = Nothing /\ TreeNext
Spec == Init /\ [][Next]_vars

\* A listing has the photos that were asked for, each once and in the order that was
\* asked for.  Its limit holds for each batch of directories, and for all of them only
\* in an order by similarity: a listing by date or shuffled of several batches may have
\* more photos than the limit, but is cut off nowhere else.  The listings of ids,
\* embeddings and faces agree with it.
ListingsAreRight ==
    input.kind = "list" =>
        LET found == List(input.photos, input.o, input.batch, 2)
            batches == ToSet(Batches(input.photos, input.o, input.batch))
        IN  /\ GivesWanted(input.photos, input.o, batches, found)
            /\ OthersAgree(input.photos, input.o, found)

\* A search that has no error finds exactly the photos that its terms describe.
SearchFinds ==
    input.kind = "search" /\ ~Expression(input.q).error =>
        LET o == ListOptions(input.photos, input.q, {1, 2}, input.order, NoLimit)
            found == List(input.photos, o, 1, 2)
        IN  {found[k].id : k \in DOMAIN found} =
            {i \in DOMAIN input.photos : DocumentedMatch(input.photos, input.q, input.order, i)}

Layout ==
    LET photos == input.photos
        c == input.c
    IN  CASE input.name = "album" -> LayoutAlbum(photos, SceneWidth, c)
          [] input.name = "timeline" -> LayoutTimeline(photos, SceneWidth, c)
          [] input.name = "wall" -> LayoutWall(photos, SceneWidth, c)
          [] input.name = "search" -> LayoutSearch(photos, SceneWidth, c)
          [] input.name = "strip" -> LayoutStrip(photos, SceneWidth, c)
          [] input.name = "faces" -> LayoutFaces(photos, SceneWidth, c)

\* The photos of a scene.  An album or a timeline drops those without a date that come
\* before its first event.
Shown == IF input.name \in {"album", "timeline"} THEN PhotosKept(input.photos) ELSE input.photos

\* Every layout puts every photo, but for the undated ones that an album or a timeline
\* drops, inside of the scene and over no other, so that tiles show it, a request for
\* regions finds it, and the scroll bar shows its time at its place; the events are the
\* photos in their order.  On a map each photo stays near its own place.
PhotosArePlaced ==
    /\ input.kind = "layout" =>
          /\ WellPlaced(Shown, Layout)
          /\ RegionsAreRight(Layout, [i \in DOMAIN Shown |-> (i + 1) \div 2])
    /\ input.kind = "layout" /\ input.name # "strip" => TimestampsAreRight(Layout, 7)
    /\ input.kind = "layout" /\ input.name \in {"album", "timeline"} =>
          FlattenSeq(Events(input.photos, input.name)) = Shown
    /\ input.kind = "rows" => WellPlaced(input.photos, PlaceRows(input.c, input.photos))
    /\ input.kind = "map" => Map!MapIsRight(input.places)

\* The rows of the flex and highlights layouts are those that cost least.
RowsAreShortest == input.kind = "rows" => RowsAreShortestFor(input.c, input.photos)
=============================================================================
