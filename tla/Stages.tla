------------------------------- MODULE Stages -------------------------------
(***************************************************************************)
(* The stages that follow a file scan, internal/image/pipeline: metadata,  *)
(* contents (a thumbnail, and from it a colour and an embedding) and       *)
(* faces.  A stage lists the files that lack its data from the index       *)
(* database and sends them through channels to its workers, who write what *)
(* they find.  The coordinator runs one stage at a time and a request may  *)
(* stop it at any moment.                                                  *)
(*                                                                         *)
(* The index database's writer is abstracted to db, what was sent to it,   *)
(* and saved, what it has committed (see Database).  A file is its row id. *)
(***************************************************************************)
EXTENDS ThumbnailStore, Integers, FiniteSets, SequencesExt, Sorted

CONSTANTS
    Files,          \* rows of the index, in the order of a query
    Workers,
    Skipped,        \* videos and files too large for the detection of faces
    Thumbed,        \* files that have a thumbnail at the start
    Embeds,         \* whether a host for embeddings is configured
    ListBuffer,     \* of the channel a query is sent to: 1000 in the code
    FileBuffer,     \* of the channel between the source and the workers: 100
    BatchSize,      \* of metadata loaded for the contents stage: 100
    Limits,         \* maxPhotos; 0 is none
    MaxTasks        \* bound: stages run

ASSUME StagesAssumption ==
    /\ Files \subseteq Nat /\ IsFiniteSet(Files) /\ IsFiniteSet(Workers)
    /\ Skipped \subseteq Files /\ Thumbed \subseteq Files /\ Embeds \in BOOLEAN
    /\ {ListBuffer, FileBuffer, BatchSize, MaxTasks} \subseteq Nat \ {0}
    /\ Limits \subseteq Nat

VARIABLES
    db, saved,      \* what each file has, sent to the database and committed
    task,           \* the stage that runs, or ran last
    listing,        \* by task: the query
    source,         \* the goroutine that feeds the workers
    ready,          \* the channel it feeds them through
    worker,
    facesUp         \* whether faces are available

stageVars == <<db, saved, task, listing, source, ready, worker, facesUp>>
vars == <<storeVars, stageVars>>

Tasks == 1..MaxTasks
StageNames == {"metadata", "contents", "faces"}
Embedding == IF Embeds THEN {"embedding"} ELSE {}
Needs(stage) ==
    IF stage = "contents" THEN {"color"} \cup Embedding ELSE {stage}

NoTask == [number |-> 0, at |-> "ended", stage |-> "metadata", force |-> FALSE, limit |-> 0,
           stopped |-> FALSE, total |-> 0, done |-> 0, listed |-> {}, tried |-> {}]
NoListing == [left |-> <<>>, found |-> <<>>, open |-> FALSE]
IdleWorker == [at |-> "take", file |-> 0, missing |-> {}]

Init ==
    /\ InitStore(Ascending(Thumbed))
    /\ db = [f \in Files |-> {}] /\ saved = db
    /\ task = NoTask
    /\ listing = [t \in Tasks |-> NoListing]
    /\ source = [open |-> FALSE, batch |-> <<>>, loaded |-> <<>>]
    /\ ready = <<>>
    /\ worker = [w \in Workers |-> [IdleWorker EXCEPT !.at = "gone"]]
    /\ facesUp = TRUE

\* GetDirsCount and ListIdPaths, or CountMissing and ListMissing, of the
\* committed rows.
Candidates(stage, force) == {f \in Files : force \/ ~(Needs(stage) \subseteq saved[f])}
LimitedTo(limit, n) == IF limit > 0 /\ n > limit THEN limit ELSE n

Query == listing[task.number]
Stopped == task.stopped

----------------------------------------------------------------------------
(* The task: RunMetadata, RunContents and RunFaces.                        *)

\* The files to process are counted first ...
Start(stage, force, limit) ==
    /\ task.at = "ended" /\ task.number < MaxTasks /\ closer = "open"
    /\ stage = "faces" => facesUp
    /\ task' = [NoTask EXCEPT !.number = task.number + 1, !.at = "list", !.stage = stage,
                              !.force = force, !.limit = limit,
                              !.total = LimitedTo(limit, Cardinality(Candidates(stage, force)))]
    /\ UNCHANGED <<storeVars, db, saved, listing, source, ready, worker, facesUp>>

\* ... and then listed, by a goroutine with a connection of the pool.
List ==
    /\ task.at = "list"
    /\ LET all == Ascending(Candidates(task.stage, task.force))
           rows == SubSeq(all, 1, LimitedTo(task.limit, Len(all)))
       IN  /\ task' = [task EXCEPT !.at = "run", !.listed = ToSet(rows)]
           /\ listing' = [listing EXCEPT ![task.number] = [NoListing EXCEPT !.left = rows,
                                                                           !.open = TRUE]]
    /\ source' = [open |-> TRUE, batch |-> <<>>, loaded |-> <<>>]
    /\ worker' = [w \in Workers |-> IdleWorker]
    /\ UNCHANGED <<storeVars, db, saved, ready, facesUp>>

\* Stop cancels the task's context.
Stop ==
    /\ task.at = "run" /\ ~Stopped
    /\ task' = [task EXCEPT !.stopped = TRUE]
    /\ UNCHANGED <<storeVars, db, saved, listing, source, ready, worker, facesUp>>

\* All workers are gone.
End ==
    /\ task.at = "run"
    /\ \A w \in Workers : worker[w].at = "gone"
    /\ ~source.open
    /\ task' = [task EXCEPT !.at = "ended"]
    /\ ready' = <<>>
    /\ UNCHANGED <<storeVars, db, saved, listing, source, worker, facesUp>>

----------------------------------------------------------------------------
(* The query, and the source that reads its channel.                       *)

Row(t) ==
    /\ listing[t].left # <<>> /\ Len(listing[t].found) < ListBuffer
    /\ listing' = [listing EXCEPT ![t].left = Tail(@), ![t].found = Append(@, Head(listing[t].left))]
    /\ UNCHANGED <<storeVars, db, saved, task, source, ready, worker, facesUp>>

\* Faulty variant: the end of the rows is noticed with the channel in use only.
ListedUnlessDrained(t) ==
    /\ listing[t].open /\ listing[t].left = <<>> /\ listing[t].found # <<>>
    /\ listing' = [listing EXCEPT ![t].open = FALSE]
    /\ UNCHANGED <<storeVars, db, saved, task, source, ready, worker, facesUp>>

\* The channel is closed and the connection goes back to the pool.
Listed(t) ==
    /\ listing[t].open /\ listing[t].left = <<>>
    /\ listing' = [listing EXCEPT ![t].open = FALSE]
    /\ UNCHANGED <<storeVars, db, saved, task, source, ready, worker, facesUp>>

Exhausted == ~Query.open /\ Query.found = <<>>
TakeRow == listing' = [listing EXCEPT ![task.number].found = Tail(@)]
Entry(f) == [file |-> f, missing |-> IF task.force THEN Needs(task.stage)
                                     ELSE Needs(task.stage) \ saved[f]]

\* fileSource: the rows go to the workers one by one ...
Forward ==
    /\ source.open /\ task.stage # "contents"
    /\ Query.found # <<>> /\ Len(ready) < FileBuffer
    /\ ready' = Append(ready, [file |-> Head(Query.found), missing |-> {}])
    /\ TakeRow
    /\ UNCHANGED <<storeVars, db, saved, task, source, worker, facesUp>>

\* ... fileSourceWithMetadata: or in batches, whose metadata is read again.
Collect ==
    /\ source.open /\ task.stage = "contents" /\ source.loaded = <<>>
    /\ Query.found # <<>> /\ Len(source.batch) < BatchSize
    /\ source' = [source EXCEPT !.batch = Append(@, Entry(Head(Query.found)))]
    /\ TakeRow
    /\ UNCHANGED <<storeVars, db, saved, task, ready, worker, facesUp>>

GetBatch ==
    /\ source.open /\ source.loaded = <<>>
    /\ Len(source.batch) = BatchSize \/ (Exhausted /\ source.batch # <<>>)
    /\ source' = [source EXCEPT !.batch = <<>>, !.loaded = source.batch]
    /\ UNCHANGED <<storeVars, db, saved, task, listing, ready, worker, facesUp>>

SendLoaded ==
    /\ source.open /\ source.loaded # <<>> /\ Len(ready) < FileBuffer
    /\ ready' = Append(ready, Head(source.loaded))
    /\ source' = [source EXCEPT !.loaded = Tail(@)]
    /\ UNCHANGED <<storeVars, db, saved, task, listing, worker, facesUp>>

\* Faulty variant: the last batch, which is not full, is left.
SourceEndsExhausted ==
    /\ source.open
    /\ \/ Exhausted /\ source.loaded = <<>>
       \/ Stopped /\ (source.loaded # <<>> \/ (task.stage # "contents" /\ Query.found # <<>>))
    /\ source' = [source EXCEPT !.open = FALSE]
    /\ UNCHANGED <<storeVars, db, saved, task, listing, ready, worker, facesUp>>

\* Faulty variant: the channel is closed by the context only.
SourceEndsStopped ==
    /\ source.open
    /\ Stopped /\ (source.loaded # <<>> \/ (task.stage # "contents" /\ Query.found # <<>>))
    /\ source' = [source EXCEPT !.open = FALSE]
    /\ UNCHANGED <<storeVars, db, saved, task, listing, ready, worker, facesUp>>

\* Its channel is closed when all was sent, or by the context while it sends.
SourceEnds ==
    /\ source.open
    /\ \/ Exhausted /\ source.batch = <<>> /\ source.loaded = <<>>
       \/ Stopped /\ (source.loaded # <<>> \/ (task.stage # "contents" /\ Query.found # <<>>))
    /\ source' = [source EXCEPT !.open = FALSE]
    /\ UNCHANGED <<storeVars, db, saved, task, listing, ready, worker, facesUp>>

----------------------------------------------------------------------------
(* The workers.                                                            *)

Take(w) ==
    /\ worker[w].at = "take" /\ ready # <<>>
    /\ ready' = Tail(ready)
    /\ worker' = [worker EXCEPT ![w] = [at |-> "process", file |-> Head(ready).file,
                                        missing |-> Head(ready).missing]]
    /\ task' = [task EXCEPT !.tried = @ \cup {Head(ready).file}]
    /\ UNCHANGED <<storeVars, db, saved, listing, source, facesUp>>

Exhaust(w) ==
    /\ worker[w].at = "take" /\ ready = <<>> /\ ~source.open
    /\ worker' = [worker EXCEPT ![w].at = "gone"]
    /\ UNCHANGED <<storeVars, db, saved, task, listing, source, ready, facesUp>>

Processes(w, stage) == worker[w].at = "process" /\ task.stage = stage
Wrote(w, data) == db' = [db EXCEPT ![worker[w].file] = @ \cup data]
GoesTo(w, step) == worker' = [worker EXCEPT ![w].at = step]

\* Metadata, written at once, or an error: the file is left out and not counted.
ExtractMetadata(w) ==
    /\ Processes(w, "metadata")
    /\ \/ Wrote(w, {"metadata"}) /\ GoesTo(w, "count")
       \/ GoesTo(w, "take") /\ UNCHANGED db
    /\ UNCHANGED <<storeVars, saved, task, listing, source, ready, facesUp>>

\* The colour and the embedding are extracted, each with its own errors.
ExtractContents(w) ==
    /\ \E data \in SUBSET (worker[w].missing \cap ({"color"} \cup Embedding)) : Wrote(w, data)
    /\ GoesTo(w, "count")

\* The thumbnail that is stored, ...
LoadThumbnail(w) ==
    /\ Processes(w, "contents") /\ worker[w].file \in Thumbs
    /\ ExtractContents(w)
    /\ UNCHANGED <<storeVars, saved, task, listing, source, ready, facesUp>>

\* ... or one that is generated and saved.  A generator that gives no image and
\* no error deletes it, and nothing is extracted.
GenerateThumbnail(w) ==
    /\ Processes(w, "contents") /\ worker[w].file \notin Thumbs
    /\ \/ Store(worker[w].file, TRUE) /\ ExtractContents(w)
       \/ Store(worker[w].file, FALSE) /\ GoesTo(w, "count") /\ UNCHANGED db
    /\ UNCHANGED <<received, committed, storeWriter, closed, closer, flusher>>
    /\ UNCHANGED <<saved, task, listing, source, ready, facesUp>>

GenerateFails(w) ==
    /\ Processes(w, "contents") /\ worker[w].file \notin Thumbs
    /\ GoesTo(w, "take")
    /\ UNCHANGED <<storeVars, db, saved, task, listing, source, ready, facesUp>>

\* The file cannot be opened, or is a video or too large: it is not counted.
SkipFaces(w) ==
    /\ Processes(w, "faces")
    /\ GoesTo(w, "take")
    /\ UNCHANGED <<storeVars, db, saved, task, listing, source, ready, facesUp>>

DetectFaces(w) ==
    /\ Processes(w, "faces") /\ worker[w].file \notin Skipped /\ facesUp
    /\ \/ Wrote(w, {"faces"}) /\ GoesTo(w, "count") /\ UNCHANGED facesUp
       \/ facesUp' = FALSE /\ GoesTo(w, "take") /\ UNCHANGED db
    /\ UNCHANGED <<storeVars, saved, task, listing, source, ready>>

\* "Write to database (always, to mark as processed even if no faces found)"
FacesNotAvailable(w) ==
    /\ Processes(w, "faces") /\ worker[w].file \notin Skipped /\ ~facesUp
    /\ Wrote(w, {"faces"})
    /\ GoesTo(w, "count")
    /\ UNCHANGED <<storeVars, saved, task, listing, source, ready, facesUp>>

\* The task's counter, or the context; a metadata worker that has counted then
\* hands the file on, or finds the context cancelled.
Counted == task' = [task EXCEPT !.done = @ + 1]
Count(w) ==
    /\ worker[w].at = "count"
    /\ \/ Counted /\ GoesTo(w, "take")
       \/ /\ Stopped /\ GoesTo(w, "gone")
          /\ UNCHANGED task \/ (task.stage = "metadata" /\ Counted)
    /\ UNCHANGED <<storeVars, db, saved, listing, source, ready, facesUp>>

Work(w) ==
    \/ Take(w) \/ Exhaust(w) \/ ExtractMetadata(w)
    \/ LoadThumbnail(w) \/ GenerateThumbnail(w) \/ GenerateFails(w)
    \/ SkipFaces(w) \/ DetectFaces(w) \/ FacesNotAvailable(w) \/ Count(w)

----------------------------------------------------------------------------
(* The environment.                                                        *)

\* The index database's writer, every 200 ms.
Commit ==
    /\ saved # db
    /\ saved' = db
    /\ UNCHANGED <<storeVars, db, task, listing, source, ready, worker, facesUp>>

\* Faces are tried again after an hour.
FacesRetried ==
    /\ ~facesUp /\ task.at = "ended"
    /\ facesUp' = TRUE
    /\ UNCHANGED <<storeVars, db, saved, task, listing, source, ready, worker>>

\* The source closes the store, here between two stages only: a worker that
\* writes to a closed store panics.
CloseStore == task.at = "ended" /\ Close /\ UNCHANGED stageVars

Source == Forward \/ Collect \/ GetBatch \/ SendLoaded \/ SourceEnds

Next ==
    \/ \E s \in StageNames, force \in BOOLEAN, limit \in Limits : Start(s, force, limit)
    \/ List \/ Stop \/ End \/ Source
    \/ \E t \in Tasks : Row(t) \/ Listed(t)
    \/ \E w \in Workers : Work(w)
    \/ Commit \/ FacesRetried
    \/ (StoreWriter \/ Flush) /\ UNCHANGED stageVars
    \/ CloseStore

Fairness ==
    /\ WF_vars(List) /\ WF_vars(End) /\ WF_vars(Source) /\ WF_vars(Commit)
    /\ \A t \in Tasks : WF_vars(Row(t) \/ Listed(t))
    /\ \A w \in Workers : WF_vars(Work(w))
    /\ WF_vars(StoreWriter /\ UNCHANGED stageVars)
    /\ WF_vars((CloseFlushes \/ PoolCloses) /\ UNCHANGED stageVars)

Spec == Init /\ [][Next]_vars /\ Fairness

----------------------------------------------------------------------------
(* Properties.                                                             *)

\* A stage that was not stopped tries every file it listed, the last batch
\* included, and counts no more files than it announced although it counts them
\* and lists them with two queries.
NothingMissed ==
    /\ task.at = "ended" /\ ~task.stopped => task.tried = task.listed
    /\ task.done <= task.total

\* A stage ends, stopped or not, with all of its channels full or empty.
StageEnds == task.at # "ended" ~> task.at = "ended"

\* A query gives its connection back, except that of a stopped stage that has
\* more rows than its channel holds: nobody reads them.
ConnectionsReturned ==
    \A t \in Tasks :
        listing[t].open ~>
            ~listing[t].open \/ (task.stopped /\ Len(listing[t].found) = ListBuffer)
=============================================================================
