------------------------------- MODULE Search ------------------------------
(***************************************************************************)
(* A search, from the terms of the query (internal/search) to the listing  *)
(* that a scene is laid out from (internal/scene/sceneSource.go).  A term  *)
(* is [type, key, value, not] with the type "word", "string" or            *)
(* "qualifier".  The value of a word is the angle its text is embedded as, *)
(* that of a qualifier a tag, a pattern or a number, or Bad.  The dates of *)
(* created: are those of SearchDates; here it is one day.                  *)
(***************************************************************************)
EXTENDS Listing

Bad == -99
Absent == [present |-> FALSE, value |-> 0, error |-> FALSE]

Qualifiers == {"created", "t", "dedup", "bias", "k", "filter", "tag", "filename", "img", "face"}

QualifierTerms(q, key) == SelectSeq(q, LAMBDA t : t.type = "qualifier" /\ t.key = key)

\* ExpressionInt, ExpressionFloat32: the first term counts.
Scalar(q, key) ==
    LET terms == QualifierTerms(q, key)
    IN  IF terms = <<>> THEN Absent
        ELSE [present |-> TRUE, error |-> terms[1].value = Bad,
              value |-> IF terms[1].value = Bad THEN 0 ELSE terms[1].value]

\* ExpressionEnum: a filter is another word than knn, Bad, or knn.
Filter(q) == Scalar(q, "filter")

\* ExpressionDateRange: several terms are an error, and then there is no range.
CreatedDay(q) ==
    LET terms == QualifierTerms(q, "created")
    IN  IF Len(terms) > 1 THEN [Absent EXCEPT !.error = TRUE] ELSE Scalar(q, "created")

Values(q, key) ==
    LET terms == QualifierTerms(q, key) IN {terms[i].value : i \in DOMAIN terms}

\* Query.Words: quoted text is not part of it.
Words(q) == SelectSeq(q, LAMBDA t : t.type = "word")

UnknownQualifiers(q) ==
    {i \in DOMAIN q : q[i].type = "qualifier" /\ q[i].key \notin Qualifiers}

Expression(q) ==
    LET e == [words |-> Words(q), created |-> CreatedDay(q), threshold |-> Scalar(q, "t"),
              dedup |-> Scalar(q, "dedup"), bias |-> Scalar(q, "bias"),
              k |-> Scalar(q, "k"), filter |-> Filter(q), tags |-> Values(q, "tag"),
              filenames |-> Values(q, "filename"), image |-> Scalar(q, "img"),
              face |-> Scalar(q, "face")]
    IN  e @@
        [error |-> \/ UnknownQualifiers(q) # {}
                   \/ e.created.error \/ e.threshold.error \/ e.dedup.error
                   \/ e.bias.error \/ e.k.error \/ e.filter.error \/ e.image.error \/ e.face.error]

----------------------------------------------------------------------------
\* 0.262, which of the cosines -1, 0 and 1 only 1 reaches.
DefaultThreshold == 1

EmbeddingOf(photos, i) == IF i \in DOMAIN photos THEN photos[i].emb ELSE NoEmb
FaceOf(photos, i) ==    \* the face ids of the photos, one after the other
    LET faces == FlattenSeq([p \in DOMAIN photos |-> photos[p].faces])
    IN  IF i \in DOMAIN faces THEN faces[i] ELSE NoEmb

\* Faulty variant: the default threshold is a part of every search.
ListOptionsAlways(photos, q, dirs, order, limit) ==
    LET e == Expression(q)
        img == IF e.image.present THEN EmbeddingOf(photos, e.image.value) ELSE NoEmb
        text == IF img = NoEmb /\ ~e.error /\ e.words # <<>> THEN e.words[1].value ELSE img
    IN  [AnyPhoto EXCEPT !.dirs = dirs, !.order = order, !.limit = limit, !.tags = e.tags,
            !.names = e.filenames, !.emb = text,
            !.face = IF e.face.present /\ ~e.error THEN FaceOf(photos, e.face.value) ELSE NoEmb,
            !.from = IF e.created.present THEN e.created.value ELSE NoLimit,
            !.to = IF e.created.present /\ ~e.created.error THEN e.created.value + 1 ELSE NoLimit,
            !.dedup = IF e.dedup.present THEN e.dedup.value ELSE NoThreshold,
            !.threshold = IF e.threshold.present THEN e.threshold.value ELSE DefaultThreshold]

\* loadScene: what is listed for a search, but one with filter:knn, which has a listing
\* of its own.  An error is shown, and the listing is
\* made without the embedding of a text or a face.
ListOptions(photos, q, dirs, order, limit) ==
    LET e == Expression(q)
        img == IF e.image.present THEN EmbeddingOf(photos, e.image.value) ELSE NoEmb
        text == IF img = NoEmb /\ ~e.error /\ e.words # <<>> THEN e.words[1].value ELSE img
        byDefault == text # NoEmb /\ order \notin SimilarityOrders
    IN  [AnyPhoto EXCEPT !.dirs = dirs, !.order = order, !.limit = limit, !.tags = e.tags,
            !.names = e.filenames, !.emb = text,
            !.face = IF e.face.present /\ ~e.error THEN FaceOf(photos, e.face.value) ELSE NoEmb,
            !.from = IF e.created.present THEN e.created.value ELSE NoLimit,
            !.to = IF e.created.present /\ ~e.created.error THEN e.created.value + 1 ELSE NoLimit,
            !.dedup = IF e.dedup.present THEN e.dedup.value ELSE NoThreshold,
            !.threshold = IF e.threshold.present THEN e.threshold.value
                          ELSE IF byDefault THEN DefaultThreshold ELSE NoThreshold]

----------------------------------------------------------------------------
(* What docs/features/search.md says of a search.                          *)

Terms(q, type, key) == {i \in DOMAIN q : q[i].type = type /\ q[i].key = key}

\* Every tag, one of the patterns, the day, and what is looked for in the photo or
\* one of its faces, for a search without an error.
DocumentedMatch(photos, q, order, i) ==
    LET p == photos[i]
        e == Expression(q)
        looked == Words(q) # <<>> \/ e.image.present
        wanted == IF e.image.present /\ EmbeddingOf(photos, e.image.value) # NoEmb
                  THEN EmbeddingOf(photos, e.image.value)
                  ELSE IF Words(q) = <<>> THEN NoEmb ELSE Words(q)[1].value
    IN  /\ \A j \in Terms(q, "qualifier", "tag") : q[j].value \in p.matches
        /\ Terms(q, "qualifier", "filename") # {} =>
              \E j \in Terms(q, "qualifier", "filename") : q[j].value \in p.matches
        /\ \A j \in Terms(q, "qualifier", "created") : q[j].value = p.date
        /\ looked /\ wanted # NoEmb =>
              /\ p.emb # NoEmb
              /\ IF e.threshold.present THEN Similarity(wanted, p.emb) >= e.threshold.value
                 ELSE order \notin SimilarityOrders => p.emb = wanted
        /\ e.face.present /\ wanted = NoEmb /\ FaceOf(photos, e.face.value) # NoEmb =>
              \E f \in ToSet(p.faces) :
                  /\ Similarity(FaceOf(photos, e.face.value), f) >= 0
                  /\ e.threshold.present =>
                        Similarity(FaceOf(photos, e.face.value), f) >= e.threshold.value
=============================================================================
