---------------------------- MODULE ShortestRows ---------------------------
(***************************************************************************)
(* The layouts that break photos into rows along a shortest path,          *)
(* internal/layout/flex.go and highlights.go.  A node is the last photo of *)
(* a row, 0 the root, and the cost of a row is how far its height is from  *)
(* the heights its photos should have.                                     *)
(*                                                                         *)
(* A photo is [aspect, height, min, max, aux], where aux is a text that is *)
(* laid out like a photo and should begin a row.  Heights are whole.       *)
(***************************************************************************)
EXTENDS Integers, Sequences, SequencesExt, FiniteSetsExt

AuxBonus == 10000       \* 1000000 in the code, more than any row costs
AuxWeight == 16
PrevWeight == 100
Dist(a, b) == IF a > b THEN a - b ELSE b - a

\* LayoutFlex: all photos have one height, give or take a fifth.
FlexPhotos(photos, ideal) ==
    [i \in DOMAIN photos |->
        [aspect |-> photos[i].aspect, aux |-> photos[i].aux, height |-> ideal,
         min |-> (ideal * 4) \div 5, max |-> (ideal * 6) \div 5]]

\* A text is never lower than this, 80 in the code.
LeastAux == 24
AuxHeight(ideal) == Max({LeastAux, ideal})

\* LayoutHighlights: a photo that resembles the one before it is lower, down to a
\* twentieth of the height, and three tenths to seventeen tenths of it will do.
HighlightPhotos(photos, ideal) ==
    [i \in DOMAIN photos |->
        LET first == \A j \in 1..(i - 1) : photos[j].aux
            height == IF photos[i].aux THEN AuxHeight(ideal)
                      ELSE IF photos[i].similar /\ ~first THEN Max({1, ideal \div 20}) ELSE ideal
        IN  [aspect |-> photos[i].aspect, aux |-> photos[i].aux, height |-> height,
             min |-> (height * 3) \div 10, max |-> (height * 17) \div 10]]

RowHeight(c, n, i, aspect) == (c.width - c.spacing * (i - 1 - n)) \div aspect

\* The cost of a row that ends with photo i, and whether it may.  Before it in the
\* row was a photo that should have the height before.
RowCost(c, photos, i, h, hasAux, before) ==
    LET badness == Dist(h, photos[i].height)
        prev == IF c.smooth THEN Dist(before, photos[i].height) ELSE 0
        aux == IF hasAux /\ h < c.minAux THEN c.minAux - h ELSE 0
        over == IF c.smooth /\ h > c.viewHeight THEN h - c.viewHeight ELSE 0
    IN  badness * badness + PrevWeight * prev * prev + c.overWeight * over * over + 10
        + AuxWeight * aux * aux
        - IF i < Len(photos) /\ photos[i + 1].aux THEN AuxBonus ELSE 0

InRange(photos, i, h) == (photos[i].min <= h /\ h <= photos[i].max) \/ i = Len(photos)

\* The paths found so far: nodes maps the ends of rows to the cost, the aspect of
\* the row and its parent, and queue holds the ends whose next rows are to be tried.
Root == [cost |-> 0, total |-> 0, parent |-> -1]

\* Faulty variant: the last path to an end is kept, not the cheapest.
RelaxLast(photos, st, n, i, cost, total) ==
    LET known == i \in DOMAIN st.nodes
    IN  [nodes |-> (i :> [cost |-> st.nodes[n].cost + cost, total |-> total, parent |-> n])
                    @@ st.nodes,
         queue |-> IF ~known /\ i < Len(photos) THEN Append(st.queue, i) ELSE st.queue]

Relax(photos, st, n, i, cost, total) ==
    LET known == i \in DOMAIN st.nodes
        cheaper == known => st.nodes[i].cost > st.nodes[n].cost + cost
        node == [cost |-> st.nodes[n].cost + cost, total |-> total, parent |-> n]
    IN  [nodes |-> IF cheaper THEN (i :> node) @@ st.nodes ELSE st.nodes,
         queue |-> IF ~known /\ i < Len(photos) THEN Append(st.queue, i) ELSE st.queue]

Aspects(photos, a, b) == FoldLeft(LAMBDA t, p : t + p.aspect, 0, SubSeq(photos, a, b))

\* The rows that begin after node n, where row is what is in the row so far.  When it
\* gets too low and there is no other end to go on from, its last two photos are
\* taken back and every end will do.
NewRow(photos, n) ==
    [next |-> n + 1, total |-> 0, fallback |-> FALSE, hasAux |-> FALSE,
     before |-> photos[n + 1].height]

RECURSIVE TryRows(_, _, _, _, _)
TryRows(c, photos, st, n, row) ==
    IF row.next > Len(photos) THEN st
    ELSE LET i == row.next
             t == row.total + photos[i].aspect
             h == RowHeight(c, n, i, t)
             cost == RowCost(c, photos, i, h, row.hasAux, row.before)
             st1 == IF InRange(photos, i, h) \/ row.fallback THEN Relax(photos, st, n, i, cost, t)
                    ELSE st
             back == Min({2, i - n})
             row1 == [next |-> i + 1, total |-> t, fallback |-> row.fallback,
                      hasAux |-> row.hasAux \/ photos[i].aux, before |-> photos[i].height]
         IN  IF h >= photos[i].min THEN TryRows(c, photos, st1, n, row1)
             ELSE IF ~row.fallback /\ i # Len(photos) /\ st1.queue = <<>>
             THEN TryRows(c, photos, st1, n,
                          [row1 EXCEPT !.next = @ - back, !.fallback = TRUE,
                                       !.total = @ - Aspects(photos, i - back + 1, i)])
             ELSE st1

RECURSIVE TryAll(_, _, _)
TryAll(c, photos, st) ==
    IF st.queue = <<>> THEN st.nodes
    ELSE LET n == Head(st.queue)
         IN  TryAll(c, photos, IF n = Len(photos) THEN [st EXCEPT !.queue = Tail(@)]
                               ELSE TryRows(c, photos, [st EXCEPT !.queue = Tail(@)], n,
                                            NewRow(photos, n)))

Nodes(c, photos) == TryAll(c, photos, [nodes |-> (0 :> Root), queue |-> <<0>>])

\* The ends of the rows, from the last back to the root.
RECURSIVE PathTo(_, _)
PathTo(nodes, n) == IF n = 0 THEN <<0>> ELSE Append(PathTo(nodes, nodes[n].parent), n)

\* The photos and texts, placed row by row.
PlaceRows(c, photos) ==
    LET nodes == Nodes(c, photos)
        path == PathTo(nodes, Len(photos))
        PlaceRow(st, k) ==
            LET h == RowHeight(c, path[k], path[k + 1], nodes[path[k + 1]].total)
                Place(s, i) == [rects |-> Append(s.rects, [x |-> s.x, y |-> st.y, h |-> h,
                                                           w |-> h * photos[i].aspect]),
                                x |-> s.x + h * photos[i].aspect + c.spacing]
                row == FoldLeft(Place, [rects |-> <<>>, x |-> c.margin],
                                [j \in 1..(path[k + 1] - path[k]) |-> path[k] + j])
            IN  [rects |-> st.rects \o row.rects, y |-> st.y + h + c.spacing]
        placed == FoldLeft(PlaceRow, [rects |-> <<>>, y |-> c.margin + c.top],
                           [k \in 1..(Len(path) - 1) |-> k])
    IN  [rects |-> placed.rects,
         bounds |-> [x |-> 0, y |-> 0, w |-> c.width + 2 * c.margin,
                     h |-> placed.y + c.margin - c.spacing]]

----------------------------------------------------------------------------
\* The row from n + 1 to i is one the layout may choose: it ends within the range,
\* and none of its photos before the last made it too low.
MayBeRow(c, photos, n, i) ==
    LET H(k) == RowHeight(c, n, k, Aspects(photos, n + 1, k))
    IN  InRange(photos, i, H(i)) /\ \A k \in (n + 1)..(i - 1) : H(k) >= photos[k].min

CostOfRow(c, photos, n, i) ==
    RowCost(c, photos, i, RowHeight(c, n, i, Aspects(photos, n + 1, i)),
            \E k \in (n + 1)..(i - 1) : photos[k].aux,
            photos[IF i = n + 1 THEN i ELSE i - 1].height)

\* The rows of a path.
RowsTo(path) == {<<path[k], path[k + 1]>> : k \in 1..(Len(path) - 1)}

\* Ends of rows are chosen for all photos, and no other choice of rows that may be
\* costs less.
RowsAreShortestFor(c, photos) ==
    LET nodes == Nodes(c, photos)
        last == Len(photos)
        SetToPath(s) == SelectSeq([k \in 1..(last + 1) |-> k - 1],
                                  LAMBDA k : k \in s \cup {0, last})
        Cost(p) == FoldSet(LAMBDA r, t : t + CostOfRow(c, photos, r[1], r[2]), 0, RowsTo(p))
    IN  /\ last \in DOMAIN nodes
        /\ \A i \in DOMAIN nodes \ {0} : nodes[i].parent \in DOMAIN nodes /\ nodes[i].parent < i
        /\ \A s \in SUBSET (1..(last - 1)) :
              (\A r \in RowsTo(SetToPath(s)) : MayBeRow(c, photos, r[1], r[2]))
                  => nodes[last].cost <= Cost(SetToPath(s))
=============================================================================
