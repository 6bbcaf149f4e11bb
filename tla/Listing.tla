------------------------------ MODULE Listing ------------------------------
(***************************************************************************)
(* What the index database lists for a scene or a search,                  *)
(* internal/image/database.go.  The photos of the index are a sequence in  *)
(* the order of their ids, and photo i is the record                       *)
(*                                                                         *)
(*   prefix   its directory, a number          date   when it was taken    *)
(*   matches  the extensions, patterns of file names and tags it matches   *)
(*   emb      its embedding, or NoEmb          faces  those of its faces   *)
(*                                                                         *)
(* An embedding is an angle in quarter turns, so that the cosine of two is *)
(* 1, 0 or -1.  Rows that SQL, sort.Slice or a heap may give in any order  *)
(* come in the order of their ids and batches.                             *)
(***************************************************************************)
EXTENDS Integers, Sequences, SequencesExt, FiniteSetsExt

NoEmb == 9
NoLimit == 0
NoThreshold == -9
Similarity(a, b) == 1 - (IF a > b THEN a - b ELSE b - a)

SimilarityOrders == {"SimilarityAsc", "SimilarityDesc"}
DateOrders == {"DateAsc", "DateDesc"}

\* The options of a listing that asks for nothing in particular.
AnyPhoto == [dirs |-> {}, order |-> "None", limit |-> NoLimit, tags |-> {}, exts |-> {},
             names |-> {}, from |-> NoLimit, to |-> NoLimit, wild |-> {}, emb |-> NoEmb,
             face |-> NoEmb, threshold |-> NoThreshold, dedup |-> NoThreshold, seed |-> 0]

Limited(s, limit) == IF limit = NoLimit \/ limit >= Len(s) THEN s ELSE SubSeq(s, 1, limit)

\* The generator of the query with smaller factors and a smaller modulus.
ShuffleKey(id, seed) == (id * 5 + seed * 3) % 8

\* ORDER BY
RowBefore(o, r, s) ==
    CASE o.order = "DateAsc" -> r.date < s.date
      [] o.order = "DateDesc" -> r.date > s.date
      [] o.order = "Shuffle" -> ShuffleKey(r.id, o.seed) < ShuffleKey(s.id, o.seed)
      [] o.order \in SimilarityOrders \cup {"None"} -> FALSE

\* Sorts with a strict weak order, keeping the order of equals.
Sorted(s, Lt(_, _)) ==
    FoldLeft(LAMBDA done, x :
                 LET n == Cardinality({i \in DOMAIN done : ~Lt(x, done[i])})
                 IN  InsertAt(done, n + 1, x),
             <<>>, s)

----------------------------------------------------------------------------
JoinsEmbeddings(o) == o.emb # NoEmb \/ o.dedup # NoThreshold
JoinsFaces(o) == o.emb = NoEmb /\ o.face # NoEmb

\* The conditions of the query.  The photo has every tag that is named, also the
\* ones the search negates.
InQuery(o, p) ==
    /\ o.tags \subseteq p.matches
    /\ o.exts = {} \/ o.exts \cap p.matches # {}
    /\ o.names = {} \/ o.names \cap p.matches # {}
    /\ o.from # NoLimit => o.from <= p.date
    /\ o.to # NoLimit => p.date < o.to

\* The rows of a photo: one for each face if faces are joined.
RowsOf(photos, o, i) ==
    LET p == photos[i]
        row == [id |-> i, date |-> p.date, emb |-> p.emb, face |-> NoEmb]
    IN  IF JoinsFaces(o) THEN [j \in DOMAIN p.faces |-> [row EXCEPT !.face = p.faces[j]]]
        ELSE <<row>>

\* The rows of a batch of directories: the limit comes before all that is done
\* with the rows afterwards.
Rows(photos, o, prefixIds) ==
    LET ids == SelectSeq([i \in DOMAIN photos |-> i],
                         LAMBDA i : photos[i].prefix \in prefixIds /\ InQuery(o, photos[i]))
        rows == FlattenSeq([i \in DOMAIN ids |-> RowsOf(photos, o, ids[i])])
    IN  Limited(Sorted(rows, LAMBDA r, s : RowBefore(o, r, s)),
                IF o.order \in SimilarityOrders THEN NoLimit ELSE o.limit)

NoInfo == [id |-> 0, sim |-> 0, date |-> 0]

\* The filters that follow the query, in the order of the code.
PassesDate(o, r) == o.wild = {} \/ r.date \in o.wild
AboveThreshold(o, sim) == o.threshold = NoThreshold \/ sim >= o.threshold
PassesEmbedding(o, r) ==
    /\ r.emb # NoEmb
    /\ o.emb # NoEmb => AboveThreshold(o, Similarity(o.emb, r.emb))
Repeats(o, r, lastEmb) ==
    o.dedup # NoThreshold /\ lastEmb # NoEmb /\ Similarity(lastEmb, r.emb) >= o.dedup
PassesFace(o, r, last) ==
    LET sim == Similarity(o.face, r.face)
    IN  AboveThreshold(o, sim) /\ sim >= last.sim

\* One row: what was found last is emitted when a row of another photo follows.
ScanRow(o, st, r) ==
    LET emits == st.last.id \notin {0, r.id}
        s == IF emits THEN [st EXCEPT !.out = Append(@, st.last), !.last = NoInfo] ELSE st
        embOk == JoinsEmbeddings(o) => PassesEmbedding(o, r) /\ ~Repeats(o, r, st.lastEmb)
        faceOk == JoinsFaces(o) => PassesFace(o, r, s.last)
        sim == IF JoinsFaces(o) THEN Similarity(o.face, r.face)
               ELSE IF o.emb # NoEmb /\ o.order \in SimilarityOrders
                    THEN Similarity(o.emb, r.emb) ELSE 0
    IN  [out |-> s.out,
         last |-> IF PassesDate(o, r) /\ embOk /\ faceOk
                  THEN [id |-> r.id, sim |-> sim, date |-> r.date] ELSE s.last,
         lastEmb |-> IF PassesDate(o, r) /\ embOk /\ o.dedup # NoThreshold
                     THEN r.emb ELSE st.lastEmb]

\* Faulty variant: the last photo is not emitted.
ScanUnfinished(o, rows) ==
    FoldLeft(LAMBDA st, r : ScanRow(o, st, r),
             [out |-> <<>>, last |-> NoInfo, lastEmb |-> NoEmb], rows).out

Scan(o, rows) ==
    LET st == FoldLeft(LAMBDA st, r : ScanRow(o, st, r),
                       [out |-> <<>>, last |-> NoInfo, lastEmb |-> NoEmb], rows)
    IN  IF st.last.id = 0 THEN st.out ELSE Append(st.out, st.last)

SortedBySimilarity(o, s) ==
    Sorted(s, LAMBDA a, b : IF o.order = "SimilarityAsc" THEN a.sim < b.sim ELSE a.sim > b.sim)

ListWithPrefixIds(photos, o, prefixIds) ==
    LET found == Scan(o, Rows(photos, o, prefixIds))
    IN  IF o.order \in SimilarityOrders THEN Limited(SortedBySimilarity(o, found), o.limit)
        ELSE found

\* mergeSortedChannels: an order it does not know merges nothing, and a shuffle
\* leaves one batch after the other.
Merged(o, lists) ==
    CASE o.order \in DateOrders ->
            Sorted(FlattenSeq(lists),
                   LAMBDA a, b : IF o.order = "DateAsc" THEN a.date < b.date ELSE a.date > b.date)
      [] o.order = "Shuffle" -> FlattenSeq(lists)
      [] o.order = "None" -> <<>>

\* The directories that are listed together, batchSize at a time.
Batches(photos, o, batchSize) ==
    LET ids == SetToSortSeq({photos[i].prefix : i \in DOMAIN photos} \cap o.dirs, <)
        concurrent == (Len(ids) + batchSize - 1) \div batchSize
    IN  [k \in 1..concurrent |->
            {ids[i] : i \in ((k - 1) * batchSize + 1)..Min({k * batchSize, Len(ids)})}]

\* Database.List: the limit is that of each batch, except in an order by similarity,
\* and nothing is listed when there are more batches than connections.
List(photos, o, batchSize, poolSize) ==
    LET batches == Batches(photos, o, batchSize)
        concurrent == Len(batches)
        similar == o.order \in SimilarityOrders
        lists == [k \in 1..concurrent |->
                     ListWithPrefixIds(photos, IF similar THEN [o EXCEPT !.limit = NoLimit] ELSE o,
                                       batches[k])]
    IN  CASE concurrent <= 1 -> ListWithPrefixIds(photos, o, UNION ToSet(batches))
          [] concurrent > poolSize -> <<>>
          [] OTHER -> IF similar THEN Limited(SortedBySimilarity(o, FlattenSeq(lists)), o.limit)
                      ELSE Merged(o, lists)

----------------------------------------------------------------------------
(* The other listings of a set of directories.                             *)

IdsIn(photos, dirs) ==
    SelectSeq([i \in DOMAIN photos |-> i], LAMBDA i : photos[i].prefix \in dirs)

ListIds(photos, dirs, limit, missingEmbedding) ==
    Limited(SelectSeq(IdsIn(photos, dirs), LAMBDA i : missingEmbedding => photos[i].emb = NoEmb),
            limit)

ListIdPaths(photos, dirs, limit) == Limited(IdsIn(photos, dirs), limit)

\* A null embedding is skipped; there is none in the rows that are joined.
ListEmbeddings(photos, dirs, limit) ==
    Limited(SelectSeq(IdsIn(photos, dirs), LAMBDA i : photos[i].emb # NoEmb), limit)

ListWithEmbeddings(photos, dirs, o) ==
    LET ids == IdsIn(photos, dirs)
        rows == [i \in DOMAIN ids |-> [id |-> ids[i], date |-> photos[ids[i]].date,
                                       emb |-> photos[ids[i]].emb]]
    IN  Limited(Sorted(rows, LAMBDA r, s : RowBefore(o, r, s)), o.limit)

\* The limit of the query comes before the threshold and the order.  Without a face to
\* compare with, an order by similarity takes every face for equally similar, and
\* another order reads no embeddings and knows no threshold.
ListFaces(photos, dirs, o) ==
    LET similar == o.order \in SimilarityOrders
        ids == IdsIn(photos, dirs)
        Sim(f) == IF o.face = NoEmb THEN 0 ELSE Similarity(o.face, f)
        FacesOf(i) == [j \in DOMAIN photos[i].faces |-> [id |-> i, sim |-> Sim(photos[i].faces[j])]]
        rows == Limited(FlattenSeq([i \in DOMAIN ids |-> FacesOf(ids[i])]), o.limit)
        found == SelectSeq(rows, LAMBDA f : o.face # NoEmb \/ similar => AboveThreshold(o, f.sim))
    IN  IF similar THEN Limited(SortedBySimilarity(o, found), o.limit) ELSE found

----------------------------------------------------------------------------
(* What a listing is asked for.                                            *)

Best(photos, o, i) ==
    IF JoinsFaces(o) THEN Max({Similarity(o.face, f) : f \in ToSet(photos[i].faces)} \cup {-9})
    ELSE IF o.emb # NoEmb THEN Similarity(o.emb, photos[i].emb) ELSE 0

\* A photo whose faces are all on the other side of the one looked for is no match.
Wanted(photos, o) ==
    {i \in DOMAIN photos :
        /\ photos[i].prefix \in o.dirs /\ InQuery(o, photos[i]) /\ PassesDate(o, photos[i])
        /\ JoinsEmbeddings(o) => photos[i].emb # NoEmb
        /\ AboveThreshold(o, Best(photos, o, i)) \/ ~(JoinsFaces(o) \/ o.emb # NoEmb)
        /\ JoinsFaces(o) => Best(photos, o, i) >= 0}

FoundBefore(o, a, b) ==
    CASE o.order = "DateAsc" -> a.date < b.date
      [] o.order = "DateDesc" -> a.date > b.date
      [] o.order = "SimilarityAsc" -> a.sim < b.sim
      [] o.order = "SimilarityDesc" -> a.sim > b.sim
      [] OTHER -> FALSE

\* Whether the limit counts photos that are wanted, and no rows that are filtered out
\* afterwards.
LimitIsExact(o) ==
    \/ o.order \in SimilarityOrders
    \/ o.wild = {} /\ ~JoinsFaces(o) /\ ~JoinsEmbeddings(o)

\* A listing gives the photos that were asked for, each once, in the order that was
\* asked for.  An order by similarity gives no more than the limit.  Any other gives no
\* more than the limit from each of the batches of directories, and so it may give more
\* than the limit from all of them.  Where the limit is exact, what is left out of a
\* batch exceeds the limit, and comes after what is given of it.
GivesWanted(photos, o, batches, found) ==
    LET wanted == Wanted(photos, o)
        ids == {found[k].id : k \in DOMAIN found}
        Info(i) == [id |-> i, sim |-> Best(photos, o, i), date |-> photos[i].date]
        together == IF o.order \in SimilarityOrders THEN {o.dirs} ELSE batches
        Of(b) == {i \in wanted : photos[i].prefix \in b}
    IN  /\ Cardinality(ids) = Len(found)
        /\ ids \subseteq wanted
        /\ \A k \in 1..(Len(found) - 1) : ~FoundBefore(o, found[k + 1], found[k])
        /\ (o.limit = NoLimit /\ o.dedup = NoThreshold) => ids = wanted
        /\ o.limit # NoLimit => \A b \in together : Cardinality(ids \cap Of(b)) <= o.limit
        /\ (LimitIsExact(o) /\ o.limit # NoLimit /\ o.dedup = NoThreshold) =>
              \A b \in together :
                  /\ Cardinality(ids \cap Of(b)) = Min({o.limit, Cardinality(Of(b))})
                  /\ o.order # "Shuffle" =>
                        \A i \in Of(b) \ ids, j \in Of(b) \cap ids :
                            ~FoundBefore(o, Info(i), Info(j))

\* The other listings of the same directories agree with it: the photos with and
\* without an embedding are all of them, the photos for the highlights are the first
\* by date, and the faces found are those of the photos found by a face.
OthersAgree(photos, o, found) ==
    LET plain == [AnyPhoto EXCEPT !.dirs = o.dirs, !.order = o.order, !.limit = o.limit]
        faces == ListFaces(photos, o.dirs, o)
        with == ToSet(ListEmbeddings(photos, o.dirs, NoLimit))
        without == ToSet(ListIds(photos, o.dirs, NoLimit, TRUE))
        all == ToSet(ListIdPaths(photos, o.dirs, NoLimit))
    IN  /\ with \cap without = {} /\ with \cup without = all
        /\ all = ToSet(ListIds(photos, o.dirs, NoLimit, FALSE))
        /\ o.order \in DateOrders =>
              GivesWanted(photos, plain, {o.dirs}, ListWithEmbeddings(photos, o.dirs, o))
        /\ \A k \in 1..(Len(faces) - 1) : o.order \in SimilarityOrders =>
              IF o.order = "SimilarityAsc" THEN faces[k].sim <= faces[k + 1].sim
              ELSE faces[k].sim >= faces[k + 1].sim
        /\ JoinsFaces(o) /\ o.limit = NoLimit =>
              {found[k].id : k \in DOMAIN found} =
              {faces[k].id : k \in {j \in DOMAIN faces : faces[j].sim >= 0}}
=============================================================================
