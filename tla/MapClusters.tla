---------------------------- MODULE MapClusters ----------------------------
(***************************************************************************)
(* The map layout, internal/layout/map.go: photos are pushed apart around  *)
(* where they were taken, in clusters that are computed in parallel.  What *)
(* the forces do is left out: a photo ends up at Moved of where it was.    *)
(*                                                                         *)
(* The photos with a place are numbered.  They are sorted by x, and a      *)
(* cluster has its photos by their positions in that order, next to the    *)
(* numbers to put them back at.                                            *)
(***************************************************************************)
EXTENDS Integers, Sequences, SequencesExt, FiniteSetsExt

MaxMove == 3            \* 1500
MaxSize == 4            \* 2000
MaxExtent == MaxMove + MaxSize \div 2
CellSize == 2 * MaxExtent

\* The cells of the grid, from the positions in order.
CellOf(p) == <<p[1] \div CellSize, p[2] \div CellSize>>
AssignToGrid(pp) == {CellOf(pp[k]) : k \in DOMAIN pp}

Adjacent(c, d) == c[1] - d[1] \in -1..1 /\ c[2] - d[2] \in -1..1

\* unionFind: find follows the parents to the root, and union hangs the root of the
\* one cell under that of the other.
RECURSIVE Find(_, _)
Find(parent, c) == IF parent[c] = c THEN c ELSE Find(parent, parent[c])

\* Faulty variant: cells that touch at a corner are not merged.
UnionSides(parent, c, d) ==
    IF c[1] = d[1] \/ c[2] = d[2] THEN [parent EXCEPT ![Find(parent, c)] = Find(parent, d)]
    ELSE parent

Union(parent, c, d) == [parent EXCEPT ![Find(parent, c)] = Find(parent, d)]

\* mergeAdjacentCells, the cells in any order, here a fixed one: the positions of each
\* cluster, by x.
Clusters(pp) ==
    LET grid == AssignToGrid(pp)
        pairs == {p \in grid \X grid : Adjacent(p[1], p[2])}
        parent == FoldSet(LAMBDA p, q : Union(q, p[1], p[2]), [c \in grid |-> c], pairs)
        In(root) == {k \in DOMAIN pp : Find(parent, CellOf(pp[k])) = root}
    IN  {SetToSortSeq(In(root), <) : root \in {Find(parent, c) : c \in grid}}

Moved(p) == <<p[1] + 1, p[2]>>

\* The numbers of the photos by x, and their places in that order.
ByX(places) ==
    SetToSortSeq(DOMAIN places, LAMBDA i, j : places[i][1] < places[j][1]
                                              \/ (places[i][1] = places[j][1] /\ i < j))

\* mergeFromClusters: every photo of a cluster is put back at its number.
MergeFromClusters(clusters, pp, pi) ==
    FoldSet(LAMBDA c, m :
                FoldLeft(LAMBDA m1, k : [m1 EXCEPT ![pi[k]] = Moved(pp[k])], m, c),
            [k \in DOMAIN pp |-> pp[k]], clusters)

\* LayoutMap: where the photos end up, by number.
LayoutMap(places) ==
    LET pi == ByX(places)
        pp == [k \in DOMAIN pi |-> places[pi[k]]]
    IN  MergeFromClusters(Clusters(pp), pp, pi)

----------------------------------------------------------------------------
\* Each photo ends up near its own place, whatever the order and the clusters, and
\* photos that are closer than a cell are moved together.
MapIsRight(places) ==
    LET pi == ByX(places)
        pp == [k \in DOMAIN pi |-> places[pi[k]]]
        Near(i, j) == pp[i][1] - pp[j][1] \in -CellSize..CellSize
                      /\ pp[i][2] - pp[j][2] \in -CellSize..CellSize
    IN  /\ \A i \in DOMAIN places : LayoutMap(places)[i] = Moved(places[i])
        /\ \A c, d \in Clusters(pp) : c # d =>
              \A i \in ToSet(c), j \in ToSet(d) : ~Near(i, j)
        /\ UNION {ToSet(c) : c \in Clusters(pp)} = DOMAIN pp
=============================================================================
