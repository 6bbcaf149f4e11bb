------------------------------ MODULE Layouts ------------------------------
(***************************************************************************)
(* Where the layouts of internal/layout put the photos of a scene, and the *)
(* photos a tile or a region finds there, internal/render/scene.go.        *)
(*                                                                         *)
(* Lengths are whole and divisions round down.  A photo has its width in a *)
(* row of the height it is laid out with, the time it was taken, and how   *)
(* similar it is to what was searched for.                                 *)
(***************************************************************************)
EXTENDS Integers, Sequences, SequencesExt, FiniteSetsExt

CONSTANT MostRegions    \* bound: the regions a request gets that sets no limit, 100

Rect(x, y, w, h) == [x |-> x, y |-> y, w |-> w, h |-> h]
Right(r) == r.x + r.w
Bottom(r) == r.y + r.h

\* Rect.IsVisible and Rect.Intersects: touching is enough.
IsVisible(r, view) ==
    r.x <= Right(view) /\ r.y <= Bottom(view) /\ Right(r) >= view.x /\ Bottom(r) >= view.y

\* Rect.FitInside
FitInside(r, c) ==
    LET wide == c.w * r.h < r.w * c.h
        w == IF wide THEN c.w ELSE (r.w * c.h) \div r.h
        h == IF wide THEN (r.h * c.w) \div r.w ELSE c.h
    IN  Rect(c.x + (c.w - w) \div 2, c.y + (c.h - h) \div 2, w, h)

----------------------------------------------------------------------------
(* Rows of one height that are filled from left to right.                  *)

\* layoutFitRow: the row, which begins with the photo first, is scaled to the width.
\* It was measured from the left of the scene and so ends a little before the margin.
Scale(rects, first, width, spacing) ==
    LET gaps == (Len(rects) - first) * spacing
    IN  IF first > Len(rects) THEN <<1, 1>>
        ELSE <<width - gaps, Right(rects[Len(rects)]) - gaps>>

Scaled(n, s) == (n * s[1]) \div s[2]

FitRow(rects, first, width, spacing) ==
    LET s == Scale(rects, first, width, spacing)
        x[k \in first..Len(rects)] ==
            IF k = first THEN rects[k].x ELSE x[k - 1] + Scaled(rects[k - 1].w, s) + spacing
    IN  [k \in DOMAIN rects |->
            IF k < first THEN rects[k]
            ELSE Rect(x[k], rects[k].y, Scaled(rects[k].w, s), Scaled(rects[k].h, s))]

\* The row is full: it is scaled, and the next one begins below it.
NextRow(st, b, c) ==
    [rects |-> FitRow(st.rects, st.first, b.w, c.spacing), first |-> Len(st.rects) + 1, x |-> 0,
     y |-> st.y + Scaled(c.height, Scale(st.rects, st.first, b.w, c.spacing)) + c.line]

\* A photo goes to the end of the row.
PutPhoto(st, w, b, c) ==
    [rects |-> Append(st.rects, Rect(b.x + st.x, b.y + st.y, w, c.height)), first |-> st.first,
     x |-> st.x + w + c.spacing, y |-> st.y]

\* One photo of addSectionToScene.
AddToRow(st, w, b, c) ==
    PutPhoto(IF st.x + w > b.w THEN NextRow(st, b, c) ELSE st, w, b, c)

NoRow == [rects |-> <<>>, first |-> 1, x |-> 0, y |-> 0]

AddPhotos(widths, b, c) ==
    LET st[n \in 0..Len(widths)] ==
            IF n = 0 THEN NoRow ELSE AddToRow(st[n - 1], widths[n], b, c)
    IN  st[Len(widths)]

\* Faulty variant: the height of the last row is left out.
AddSectionShort(widths, b, c) ==
    LET end == AddPhotos(widths, b, c) IN [rects |-> end.rects, height |-> end.y]

\* addSectionToScene: the photos of a section, and the height they take.  The last
\* row is not scaled.
AddSection(widths, b, c) ==
    LET end == AddPhotos(widths, b, c)
    IN  [rects |-> end.rects, height |-> end.y + c.height + c.line]

----------------------------------------------------------------------------
(* Events: an album has one for photos an hour apart, a timeline for photos*)
(* half an hour apart or of several days.  Times are in half hours; a photo*)
(* without a date has the zero time, 0, and others are of a later day.     *)

Day(t) == t \div 48

\* The events that are finished, the photos collected since, whether one has begun,
\* the time of its first photo and that of the last photo.
NoEvent == [done |-> <<>>, infos |-> <<>>, began |-> FALSE, end |-> 0, last |-> 0]

StartsEvent(st, p, layout) ==
    IF layout = "album" THEN p.time - st.last > 2
    ELSE st.last - p.time > 1 \/ Day(p.time) # Day(st.end)

\* What was collected before the first event begins is overwritten.
NewEvent(st, p) ==
    [done |-> IF st.began THEN Append(st.done, st.infos) ELSE st.done,
     infos |-> <<p>>, began |-> TRUE, end |-> p.time, last |-> p.time]

WithPhoto(st, p, layout) ==
    IF StartsEvent(st, p, layout) THEN NewEvent(st, p)
    ELSE [st EXCEPT !.infos = Append(@, p), !.last = p.time]

Collected(photos, layout) ==
    LET st[n \in 0..Len(photos)] ==
            IF n = 0 THEN NoEvent ELSE WithPhoto(st[n - 1], photos[n], layout)
    IN  st[Len(photos)]

\* The last event is finished, begun or not.
EventsOf(st) == IF st.infos = <<>> THEN st.done ELSE Append(st.done, st.infos)

Events(photos, layout) == EventsOf(Collected(photos, layout))

Widths(event) == [i \in DOMAIN event |-> event[i].w]

\* The heights of the headers before an event and of the space after it.
AlbumHeader(events, k, shuffled) ==
    LET before == IF k = 1 THEN 0 ELSE Last(events[k - 1]).time
    IN  IF shuffled THEN 0 ELSE IF Day(before) # Day(events[k][1].time) THEN 80 ELSE 40
AlbumSpace(events, k) ==
    IF k = Len(events) \/ Day(Last(events[k]).time) # Day(events[k + 1][1].time) THEN 32 ELSE 0

\* An event with the space before and after it.
AddEvent(st, event, before, after, b, c) ==
    LET top == st.y + before
        section == AddSection(Widths(event), [b EXCEPT !.y = top], c)
    IN  [rects |-> st.rects \o section.rects, y |-> top + section.height + after]

LayoutEvents(events, b, c, before, after) ==
    LET st[k \in 0..Len(events)] ==
            IF k = 0 THEN [rects |-> <<>>, y |-> b.y]
            ELSE AddEvent(st[k - 1], events[k], before[k], after[k], b, c)
    IN  st[Len(events)]

\* What a layout gives: the rectangles of the photos and the bounds of the scene.
Scene(rects, width, height) == [rects |-> rects, bounds |-> Rect(0, 0, width, height)]

Margin == 10
Inside(width) == Rect(Margin, Margin + 64, width - 2 * Margin, 0)

LayoutAlbum(photos, width, c) ==
    LET events == Events(photos, "album")
        st == LayoutEvents(events, Inside(width), c,
                           [k \in DOMAIN events |-> AlbumHeader(events, k, c.shuffled)],
                           [k \in DOMAIN events |-> AlbumSpace(events, k)])
    IN  Scene(st.rects, width, st.y + Margin)

LayoutTimeline(photos, width, c) ==
    LET events == Events(photos, "timeline")
        st == LayoutEvents(events, Inside(width), c,
                           [k \in DOMAIN events |-> IF c.shuffled THEN 0 ELSE 34],
                           [k \in DOMAIN events |-> 10])
    IN  Scene(st.rects, width, st.y + Margin)

\* LayoutWall: as many columns as rows; the photos are as wide as their share of
\* the width makes them.
LayoutWall(photos, width, c) ==
    LET b == Inside(width)
        cols == Max({1} \cup {k \in DOMAIN photos : k * k <= Len(photos)})
        height == ((b.w \div cols) * 4) \div 5
        spacing == b.w \div (cols * 50)
        section == AddSection([i \in DOMAIN photos |-> (photos[i].w * height) \div c.height], b,
                              [c EXCEPT !.height = height, !.spacing = spacing, !.line = spacing])
    IN  Scene(section.rects, width, b.y + section.height + Margin)

\* LayoutSearch: rows of photos that are less similar are lower.  A row is measured
\* from the left of the scene.
Fifth(n) == n * n * n * n * n
Faded(height, sim, most) == (height * Fifth(sim)) \div Fifth(most)

AddFound(st, p, most, b, c) ==
    LET Of(height) == [c EXCEPT !.height = height]
        Width(height) == (p.w * height) \div c.height
        full == b.x + st.row.x + Width(st.height) > b.w
        height == IF full THEN Faded(c.height, p.sim, most) ELSE st.height
        row == IF full THEN NextRow(st.row, b, Of(st.height)) ELSE st.row
    IN  [row |-> PutPhoto(row, Width(height), b, Of(height)), height |-> height]

LayoutSearch(photos, width, c) ==
    LET b == Rect(Margin, Margin + 60, width - 2 * Margin, 0)
        st[n \in 0..Len(photos)] ==
            IF n = 0 THEN [row |-> NoRow, height |-> c.height]
            ELSE AddFound(st[n - 1], photos[n], photos[1].sim, b, c)
        end == st[Len(photos)].row
    IN  Scene(end.rects, width, b.y + end.y + c.height + c.line + Margin)

\* LayoutStrip: one photo to a page.
LayoutStrip(photos, width, c) ==
    LET spacing == width \div 50
        Page(i) == Rect((i - 1) * (width + spacing), 0, width, c.viewHeight)
    IN  Scene([i \in DOMAIN photos |-> FitInside(Rect(0, 0, photos[i].w, c.height), Page(i))],
              Len(photos) * (width + spacing), c.viewHeight)

\* LayoutFaces: squares, at least one to a row.
Padding == 20

AddFace(st, inner, c) ==
    LET x == st.x + c.height + 10
        wraps == x + c.height + 10 > inner
    IN  [rects |-> Append(st.rects, Rect(st.x, st.y, c.height, c.height)),
         x |-> IF wraps THEN Padding ELSE x,
         y |-> IF wraps THEN st.y + c.height + 10 ELSE st.y]

LayoutFaces(photos, width, c) ==
    LET st[n \in 0..Len(photos)] ==
            IF n = 0 THEN [rects |-> <<>>, x |-> Padding, y |-> Padding + 64]
            ELSE AddFace(st[n - 1], width - 2 * Padding, c)
        end == st[Len(photos)]
    IN  Scene(end.rects, width, end.y + c.height + 10 + Padding)

----------------------------------------------------------------------------
(* Tiles and regions.                                                      *)

\* TileView: the part of the scene a tile shows.  The shorter side is not centred.
TileRect(scene, zoom, x, y) ==
    LET side == Max({scene.bounds.w, scene.bounds.h})
        At(k) == (side * k) \div 2^zoom
    IN  Rect(At(x), At(y), At(x + 1) - At(x), At(y + 1) - At(y))

\* GetVisiblePhotoRefs without a limit, by the index or without it.
Visible(scene, view) == {i \in DOMAIN scene.rects : IsVisible(scene.rects[i], view)}

\* GetClosestPhotoRef: the first of the photos whose corner is closest.
DistSq(r, p) == (r.x - p.x) * (r.x - p.x) + (r.y - p.y) * (r.y - p.y)
Closest(scene, p) ==
    LET closest == {i \in DOMAIN scene.rects :
                       \A j \in DOMAIN scene.rects :
                           DistSq(scene.rects[i], p) <= DistSq(scene.rects[j], p)}
    IN  IF closest = {} THEN 0 ELSE Min(closest)

\* GetTimestamps: for every row of a scroll bar, the photo whose time it shows.
TimestampPhotos(scene, height) ==
    LET Above(i, y) == 2 * height * height * Bottom(scene.rects[i])
                       <= (2 * height * y + 2 * y + 1) * scene.bounds.h
        Passed(y) == {i \in DOMAIN scene.rects : \A j \in 1..(i - 1) : Above(j, y)}
    IN  [y \in 0..(height - 1) |-> IF Passed(y) = {} THEN 0 ELSE Max(Passed(y))]

----------------------------------------------------------------------------
(* Regions are the photos of a scene as a client asks for them.  Their ids *)
(* are the places of the photos in the scene.                              *)

\* GetRegionById: the region, if there is one.
RegionById(scene, id) == IF id \in DOMAIN scene.rects THEN <<id>> ELSE <<>>

\* Without a limit, 0, an answer with all of its fields is limited all the same.
LimitOf(r) == IF r.limit = 0 /\ ~r.minimal THEN MostRegions ELSE r.limit
FirstOf(s, limit) == IF limit \in 1..Len(s) THEN SubSeq(s, 1, limit) ELSE s

\* handleRegionsByRange: ids without a photo are passed over.
RegionsByRange(scene, r) ==
    LET ids == [k \in 1..(r.last - r.first + 1) |-> r.first + k - 1]
    IN  FirstOf(FlattenSeq([k \in DOMAIN ids |-> RegionById(scene, ids[k])]), r.limit)

\* GetRegionsFromImageId: a file may be in the scene more than once.
RegionsOfFile(files, r) ==
    FirstOf(SelectSeq([i \in DOMAIN files |-> i], LAMBDA i : files[i] = r.file), LimitOf(r))

\* GetRegionsFromBounds: a limit may leave out any of the photos.
RegionsInBounds(scene, r) ==
    LET visible == Visible(scene, r.view)
        limit == IF LimitOf(r) = 0 THEN Cardinality(visible) ELSE LimitOf(r)
    IN  {SetToSeq(ids) : ids \in kSubset(Min({limit, Cardinality(visible)}), visible)}

\* GetScenesSceneIdRegions: the answers a request may have, none if it is refused.
Regions(scene, files, r) ==
    CASE r.by = "range" ->
            IF r.minimal /\ r.first <= r.last THEN {RegionsByRange(scene, r)} ELSE {}
      [] r.by = "file" -> {RegionsOfFile(files, r)}
      [] r.by = "closest" ->
            IF r.limit = 1 THEN {RegionById(scene, Closest(scene, r.view))} ELSE {}
      [] r.by = "bounds" -> RegionsInBounds(scene, r)

----------------------------------------------------------------------------
\* A photo wider than the scene that is not scaled because no photo follows it in
\* its section.
Spills(scene, i) ==
    /\ Right(scene.rects[i]) > scene.bounds.w
    /\ scene.rects[i].x = Margin

Apart2(r, s) == Right(r) <= s.x \/ Right(s) <= r.x \/ Bottom(r) <= s.y \/ Bottom(s) <= r.y

\* Every photo is laid out once, inside of the scene and over no other.  Only a
\* panorama that is the last of its section may be cut off.
InPlace(scene, n) ==
    /\ Len(scene.rects) = n
    /\ \A i, j \in DOMAIN scene.rects : i # j => Apart2(scene.rects[i], scene.rects[j])
    /\ \A i \in DOMAIN scene.rects :
          /\ scene.rects[i].x >= 0 /\ scene.rects[i].y >= 0
          /\ Bottom(scene.rects[i]) <= scene.bounds.h
          /\ Right(scene.rects[i]) <= scene.bounds.w \/ Spills(scene, i)

\* The photos an album or a timeline shows: not those without a date that come before
\* the first one with a date.
WithDate(photos) == {i \in DOMAIN photos : photos[i].time # 0}
PhotosKept(photos) ==
    IF WithDate(photos) = {} THEN photos ELSE SubSeq(photos, Min(WithDate(photos)), Len(photos))

\* So some tile of every zoom shows it.
WellPlaced(photos, scene) ==
    /\ InPlace(scene, Len(photos))
    /\ \A i \in DOMAIN scene.rects :
          \E x, y \in 0..1 : i \in Visible(scene, TileRect(scene, 1, x, y))

\* Pages of ids have each photo once, a file has the regions of its photos, and what
\* is asked for in a rectangle is seen there and complete unless it is limited.
RegionsAreRight(scene, files) ==
    LET n == Len(scene.rects)
        Ask(r) == Regions(scene, files, r)
        Page(size, k) == Ask([by |-> "range", first |-> k * size, last |-> (k + 1) * size - 1,
                              limit |-> 0, minimal |-> TRUE])
    IN  /\ \A size \in 1..3 :
              {FlattenSeq([k \in 1..(n + 1) |-> CHOOSE page \in Page(size, k - 1) : TRUE])} =
              {[i \in 1..n |-> i]}
        /\ \A file \in Range(files), limit \in 0..2, minimal \in BOOLEAN :
              \A found \in Ask([by |-> "file", file |-> file, limit |-> limit, minimal |-> minimal]) :
                  \/ Len(found) = LimitOf([limit |-> limit, minimal |-> minimal])
                  \/ Range(found) = {i \in 1..n : files[i] = file}
        /\ \A i \in 1..n, limit \in 0..2, minimal \in BOOLEAN :
              LET r == [by |-> "bounds", view |-> scene.rects[i], limit |-> limit,
                        minimal |-> minimal]
              IN  \A found \in Ask(r) :
                      /\ Range(found) \subseteq Visible(scene, r.view)
                      /\ Len(found) = LimitOf(r) \/ Range(found) = Visible(scene, r.view)
        /\ \A i \in 1..n : scene.rects[i].w > 0 /\ scene.rects[i].h > 0 =>
              Ask([by |-> "closest", view |-> scene.rects[i], limit |-> 1]) = {<<i>>}

\* A row of the scroll bar shows the time of the first photo that has not ended above
\* it: no earlier photo ends below the row and no later one above it.
TimestampsAreRight(scene, height) ==
    LET at == TimestampPhotos(scene, height)
    IN  \A y \in DOMAIN at, i \in DOMAIN scene.rects :
            /\ i < at[y] => Bottom(scene.rects[i]) * height <= (y + 1) * scene.bounds.h
            /\ i > at[y] => Bottom(scene.rects[i]) * height >= y * scene.bounds.h
=============================================================================
