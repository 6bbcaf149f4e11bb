# Verification of photofield

This directory holds TLA+ models of photofield's core, the TLC configurations
that check them, and proofs that TLAPS checks. Every definition is translated
from the Go source; `PROJECT.json` names the lines each one stands for.

    tlc -config CoordinatorServe.cfg MCCoordinator     # one run
    for m in SequenceLemmas.tla *Proofs.tla; do tlapm $m; done   # the proofs

## The system

photofield is one Go process. HTTP requests, a file watcher and command-line
flags drive an indexing pipeline that fills an SQLite database; scenes and
tiles are laid out and rendered from it.

| Component | State it keeps | Operations | Hard parts | What makes it correct |
|---|---|---|---|---|
| Pipeline coordinator (`pipeline/coordinator.go`, `task/task.go`) | queue, registry of tasks by Id, one-slot signal channel, each task's context | AddFiles…AddAll, StopTask, Close, the worker goroutine | requests, stops, Close and the worker interleave between every two accesses | one task per Id, no lost wakeup, highest priority first, each task run at most once and one at a time, every task completes |
| File scan (`pipeline/files.go`) | the set of files met, the walker's channel | walk, write rows, barrier, list and delete missing rows, mark directory indexed | files come and go, cancellation between the walker and its receiver, a limit | rows match the files that stayed; no row of an existing file is lost; the scan ends |
| Index database (`image/database.go`) | pending channel, transaction, commit barriers, pending compactions, tables | Write, CommitBarrier, WaitForCommit, the write loop and its 200 ms ticker, Close | readers see only committed data; the writer reads some of it through the pool; one transaction spans many writes | an answer means committed; barriers are answered in order |
| Tags (`image/source.go`, `image/database.go`, `tag/tag.go`) | versions of a tag, ranges of file ids | create, add, remove, invert, compact, prune, delete | requests carry a version looked up before the write is made | one active version, an answered change is visible, deletions touch one file |
| Stage pipelines (`pipeline/source.go`, `metadata.go`, `contents.go`, `thumbnail.go`, `faces.go`) | a query, a source, a channel and workers per stage | list candidates, load metadata in batches, work, write back, count | cancellation with half-full batches and channels; thumbnails in a second database | every candidate is tried, the stage ends, its connection goes back |
| Thumbnail store (`io/sqlite/sqlite.go`) | pending channel, flush channel, transaction | write, delete, flush, close | a flush that overtakes the writes before it; closed channels in a `select` | a flush means saved; Close returns |
| Tile request queue (`main.go`) | priority list, token channel, limits | enqueue, pick a request, hand it over, reload | a list and a channel changed one after the other; panics; reloads | every request is served, concurrency is bounded |
| File watcher and reload (`fs/watch.go`, `config.go`) | updates held back, half a rename, ticker | coalesce, pair renames, report; load, watch and apply again | a clock, tickers that start anew, changes during a reload | an update is reported once and in time; what stays changed is applied |
| Scene source (`scene/sceneSource.go`, `render/scene.go`) | scenes by id, a cache, each scene's dependencies | get, add, prune, load in the background, draw | a scene is read while it loads; staleness compares times | a scene that is out of date says so; an incomplete one is not kept |
| Range tree (`rangetree/rangetree.go`) | sorted disjoint ranges | add, subtract, invert, iterate | ranges that span, touch or contain others | equal to the set of integers it stands for |
| Listings (`image/database.go`), search language (`search/*`) | none | parse a search, list photos by directories, dates, tags, similarity and faces, in batches | filters before and after a limit, merged batches, dates with wildcards | exactly what was asked for, in order |
| Layouts (`layout/*`, `render/*`) | the photos of a scene | album, timeline, wall, search, strip, faces, flex, highlights, map; tiles, regions, scroll bar | rows that overflow, shortest paths, clusters moved in parallel | each photo once, inside, over no other, and found again |
| Image caches (`image/cache.go`, `io/*`) | bounded caches | get, set, delete | single flight, eviction | – |
| Codecs, AI and geo clients, web UI, tools | none shared | – | – | – |

The HTTP handlers call the coordinator and the image source directly. The
coordinator's worker runs a stage, whose goroutines send to the database's
pending channel; the file scan also waits on commit barriers. The writer
goroutine takes writes in order, and calls back the scenes' invalidation when
it commits. A reload (`applyConfig`) closes the coordinator and the image
source and creates new ones. The scene source and the API read the database
through a connection pool and see committed data only.

## Modules

| Module | Models |
|---|---|
| `TaskBoard` | the abstract specification of the coordinator: tasks wait, are run at most once and one at a time, and stay finished |
| `Coordinator` | `coordinator.go` and the task handlers |
| `Database` | the writer goroutine and the operators its clients send with; it has no specification of its own |
| `FileScan` | `RunFiles` and its walker, composed with `Database` |
| `Tagging` | tag requests and the indexing stages that tag and delete files, composed with `Database` |
| `TileQueue` | the tile request queue of `main.go` with a reload |
| `FileWatcher`, `ConfigReload` | a watcher of `fs/watch.go`; the loop of `config.go` composed with two of them |
| `Scenes` | the scene source between the database's callbacks and the tile handlers |
| `ThumbnailStore`, `Stages` | the writer of `io/sqlite`; the stages of the pipeline composed with it |
| `RangeTree`, `SearchDates`, `Search`, `Listing`, `Layouts`, `ShortestRows`, `MapClusters` | computations, as operators |
| `Library` | those modules put together: a step asks for something, the invariants say what comes back. `RangeTree` and `SearchDates` have specifications of their own too (`TreeSpec`, `DateSpec`), which the proofs are about |
| `Sorted` | a finite set of numbers as an ascending sequence, for the watcher and the stages |
| `SequenceLemmas` | lemmas on the sequence operators of the community modules and of `Sorted` |
| `CoordinatorProofs`, `FileScanProofs`, `TaggingProofs`, `TileQueueProofs`, `ConfigReloadProofs`, `ScenesProofs`, `StagesProofs` | the theorems about the module of that name, with the modules it is composed of; `TaggingProofs` also has those about `RangeTree`, in which versions are computed, and `ScenesProofs` those about `SearchDates`, by which a scene is searched, and `Layouts`, by which it is laid out |
| `MC...` | the values of constants for TLC |

A definition called a *faulty variant* is not part of the model. It is a bug
the code does not have, and replaces the definition after it to show that the
property it is paired with in `PROJECT.json` would notice.

### Coordinator

A task is the number of its creation, which stands for its `EnqueuedAt`;
`tasks[t]` is its Id. `queue`, `registry`, `signal` and `shut` are the
coordinator's fields, `cancelled` the tasks whose `Completed()` is closed. A
label of `pc` is a point where the goroutine can be preempted between two
accesses to shared state: `addTask` is `Register` (LoadOrStore), `Insert` (under
`queueMu`) and `Notify` (the non-blocking send); `StopTask` is `Stop`,
`Unqueue`, `Cancel`, `Delete`; the worker is `Wake`, `Dequeue`, then `RunEnds` or
`ScanSucceeds` for the stage's outcome, the follow-up tasks, the two deferred
calls in the order Go runs them, and `Resignal`. `Close` cancels the context,
then takes the lock and handles one task after the other, so registry accesses
of others fall between. What a stage does is abstracted to whether it succeeds.
Binary search is its result on a sorted queue.

### Database

`db` is the database inside the writer's transaction and `saved` the committed
one; every reader uses `saved`. `locked` is `transactionMutex`, which the writer
takes with the first write and releases after a commit, a separate step
(`Unlock`) because barriers are closed before it. `Handle...` are the cases of
the write loop, `StartCompaction` and `Commit` the two things a tick does. A tag
operation commits at once (`commitRestart`), which also closes barriers.
`HandleFails` is a first statement that fails: the code logs it and answers
nobody. Row ids and paths are one: the model does not give a deleted path's id to
another file. The versions pruned beyond the last ten depend on their dates, so
any subset may go; an instance uses a smaller `Keep`.

### FileScan

The walk visits every file that is there throughout, none that never was, and
any of the others; this is what godirwalk gives, in any order. `WalkFile` and
`WalkEnds` are the walker with its cancellation and limit, `Check` and `Write`
the receiving loop, then the steps of `RunFiles` in order for each directory.
`Under` maps a directory to the files below it and `Matches` to the files whose
prefix is matched by `LIKE 'dir%'`. `kept` and `seen` are history.
`Delete` sends a file to the database's writer and, when it has a thumbnail, to
the thumbnail store, whose goroutine deletes and commits some time later
(`CommitThumbDeletes`) and which the scan never waits for. `thumbDeletes` is what
it has been sent. It is a set: deletions of different files commute. Its
channel's capacity is left out, since the store waits for nobody.

### Tagging

One `pc` per request: look the tag up, create it when it is not there and wait for the
commit, look it up again, send the change with the version found, and respond
when the writer answers. `TagFile` is the metadata stage's `WriteTags` and
`DeleteFile` the file scan's `Delete`.

### TileQueue

A handler is a request: `Request` appends to the list, `SendToken` sends to the
token channel, `Finish` and `Panic` are its end. A worker is `Receive`, `Pick`
(which includes the lock) and `Hand`, which is the two handshakes on
`request.Process` and `request.Done`. `requestsOut` is a global variable that
each goroutine reads when it uses it, so `channel` is one value, "nil", "open"
or "closed", and a closed channel gives its tokens and then as many as asked
for. `applyConfig` is three steps, since requests and workers go on between
closing, reading the new limit and opening. Workers are named after the reload
that started them; those of a closed channel end "stuck" on the nil channel
they then send to, as in the code.

### FileWatcher and ConfigReload

`Handle...` and `Tick` are the cases of `run`; the fields have the source's names.
Time is counted in steps of `Clock` that are short against the 200 ms interval,
so a clock step waits for whoever can run. `ConfigReload` is `watchConfig` with
two watchers: of the configuration file and of the directories that
`expand_subdirs` lists. `Load`, `Rewatch` and `Apply` are separate because the
file system changes between them; `missed` is history and names the directories
that are made in the gap. What `applyConfig` closes and opens is in `TileQueue`.

### Scenes

The database's writer is reduced to what scenes depend on: versions of the
content, written and committed, the directories to report, and the time of the
last tag update. `Add`, `List`, `DependOnTags`, `Layout` and `LoadEnds` are
`loadScene` as its goroutine proceeds: a scene can be found from `Add` on, and
depends on its tags only after the listing has been started (`searched`). A scene
of `filter:knn` or of highlights never gets this dependency and is outside; `Find` and `CacheScene` are `GetSceneById` with the cache and
the map of scenes; `ReadLoading`, `Draw` and `Answer` are the tile handler. Every
reading of the clock is a new time, and `Millisecond` and `Second` are the
precisions at which the code keeps it.

### ThumbnailStore and Stages

The store's writes are one sequence of which a prefix is received and a prefix
of that committed, so a flush that is taken before the writes in the channel is
a jump of two numbers. `Stages` runs metadata, contents and faces as the
coordinator does, one at a time: `Row` and `Listed` are the query's goroutine,
`Forward`, `Collect`, `GetBatch` and `SendLoaded` the two sources, and each worker
takes a file, does one of the stage's steps and counts it. A context that is
cancelled is a case of every `select` that has it. What images contain, and
failures to read them, are nondeterministic outcomes.

### Library

Computations without concurrency are operators, and `Library` feeds them with
inputs: `RangeTree` (the only one with state) against sets; `SearchDates` against
the calendar; `Listing`, the queries and the filters, orders, batches and merges
that follow them, against the photos wanted; `Search`, from terms to listing
options, against `docs/features/search.md`; `ShortestRows`, the shortest path that
breaks photos into rows, against every choice of rows; `Layouts` and
`MapClusters` against what a layout has to give. Lengths are whole numbers and
rounded down. A search starts after the lexer, with its terms; `filter:knn` is
parsed, but what `ListKnn` lists is not modelled. A photo's text,
tags and directory are members of small sets, an embedding a number. A photo
without a date has the time 0, and those with one are of a later day.

## Runs

| Run | Shows |
|---|---|
| `coordinator_serve` | adds, scans' follow-ups and Close: `OneTaskPerId`, `CompletedIsUnregistered`, `NoTaskForgotten`, `StartsBest`, and under fairness `EveryTaskCompletes` |
| `coordinator_stop` | adds, stops and Close: the inductive invariant `IInv`, `NoLostWakeup`, the refinement `ImplementsBoard`, and under fairness `WorkerStops` |
| `filescan_tasks` | two scans, limits, stops, changing files, a channel of one slot: `AnsweredMeansSaved`, `ScanReconciles`, `CompleteScanKeeps`, `ScanEnds` |
| `filescan_stopped` | **violated**: a scan stopped in the walk goes on to delete the rows the walk had not reached |
| `tagging_requests` | two clients, three requests: `OneActiveVersion`, `CreatedIsFound`, `EveryRequestAnswered` |
| `tagging_indexing` | a request beside the metadata stage, deletions, compaction, pruning, failing statements: `AnswersAreVisible`, `DeleteTouchesOneFile` |
| `tagging_lost` | **violated**: two requests start from the same version and the first one's files are lost |
| `tile_requests` | three requests, two workers, a panic, a reload: `TokensMatchRequests`, `RenderingBounded`, `EveryRequestAnswered` |
| `config_reload` | three changes of the file and two directories around a reload: `UpdatesInTime`, `Debounced`, `ConfigApplied`, `DirsCollected` |
| `scenes` | two scenes, a viewer and the writer: `ChangesAreNoticed`, `TagChangesAreNoticed`, `KeptTilesAreComplete` |
| `stages` | one stage of any kind, stopped or not, with a flush and a close: `NothingMissed`, `StageEnds`, `ConnectionsReturned`, `FlushedMeansSaved`, `CloseEnds` |
| `library` | `TreeIsSet`, `DatesMatch`, `ListingsAreRight`, `SearchFinds`, `RowsAreShortest`, `PhotosArePlaced` |

The violated properties quote a comment or a document of the repository;
`PROJECT.json` lists them under `findings`. Its `hazards` also name, at their
lines, what the code does in cases that a passing property excepts.

**What the properties except.** A property that says "unless" does so because the
code behaves otherwise there, and the case is in the model:

- `EveryRequestAnswered` of the tile queue: after a reload an old worker may have
  taken a request's token, and each handler that panics costs a worker.
- `DirsCollected`: a directory made between listing and watching its parent.
- `ChangesAreNoticed`: until the writer has reported the directories.
  `TagChangesAreNoticed`: a change in the scene's first millisecond.
- `ConnectionsReturned`: a stopped stage leaves a query that has filled its
  channel, and the query keeps its connection. `CloseEnds`: the writer may take
  the closed flush channel for a flush and spin.
- `TreeIsSet`: a range that covers several others leaves all but one of them in
  the tree; its integers are right, its ranges are not apart until then.
- `DatesMatch`: `>` and `<` with a month or a year, wildcards that give the last
  day of a year or a day of February, and midnights with a wildcard.
- `ListingsAreRight`: with filename wildcards or joined embeddings or faces the
  limit counts rows before they are filtered. Each batch of directories is
  limited on its own: a listing by date or shuffled of several batches may have
  more photos than its limit, and the property says so for each batch. Only an
  order by similarity limits them together.
- `ScanReconciles`: when a scan ends, the thumbnail store may have deletions to
  commit; a thumbnail without a row is one of these.
- `TagChangesAreNoticed`: a scene that shows no photos yet, which does not depend on its
  tags until they are listed.
- `PhotosArePlaced`: a panorama that is the last of its section is cut off. An
  album or a timeline begins its first event with the first photo that has a
  date, and what was collected before it is overwritten: undated photos that
  come first are not laid out unless all photos are undated (`PhotosKept`).

**Bounds.** Two clients are enough for any race between two goroutines, and with
the worker and Close up to four interleave. Two requests give several tasks
of which some share an Id (a scan and AddAll); three calls allow add, stop, add
again while the first is still running, the shortest way to both stop
problems. For the scan two directories with two files and one, one
change of the file system and a channel of one slot meet every race: a file
that appears or goes at each point of the walk, a full channel while a barrier
is needed, and state carried from one directory or scan to the next. One file of
each directory has a thumbnail. For tags
two or three ids make ranges that merge, and split in the middle; `Keep` is 1
where pruning matters and out of reach where it does not.

Three tile requests against a channel of two slots and at most two workers fill
the channel and the workers at once; priorities are two equal ones and one out
of range or a features request. The watchers' interval is two clock steps, the
least that tells "held for one tick" from "held for two", and three changes
make a file that is written, removed and written again. There is no
room for a loaded scene, so the second scene prunes the first unless that still
loads, and six readings of the clock are a second and a half. A stage has two photos, two workers, batches of two and
channels of one slot, so a batch is full or half full and every send may block.
Five ids hold three ranges that are apart. Dates are all days about the ends of
February, of a month and of a year, in a leap year and another. Three photos in
two directories make listings that merge; rows are broken for up to six photos
of three shapes, and the other layouts get three or four photos, narrow, wide,
and wider than the scene. Their times are in any order: none, within and just
over an hour of each other, and of another day.

Deadlock is not checked: all these systems rest when the bounded requests are
used up.

**Fairness.** Goroutines that can run do run (weak fairness of each goroutine's
next step). Go's `select` picks at random among ready cases, so the worker's two
cases share one condition: an exit that stays possible is not promised by
fairness, and `WorkerStops` holds because signals run out. The database writer's
ticker is strongly fair, because its case is enabled again at every tick and
not starved by a channel that is never empty. Senders that compete for a full
channel are served in order by Go's runtime, hence strong fairness of requests
and compaction goroutines. The tile queue needs less: some handler and some
worker that can run does. In `Stages` the store's writer and each worker are
weakly fair, stopping and flushing are not. Nobody is obliged to make a request,
change a file, start a scan or close anything, and a stage runner is assumed to
return where it is abstracted to its outcome.

`EveryRequestAnswered` of the tag requests is checked without failing statements
and with enough versions kept: with either, the write loop answers nobody and
the HTTP handler waits for ever. `AnswersAreVisible` is checked with one request
beside the indexing stages to keep that run small, and proved for any number of
them: what `tagging_lost` shows is that the answer of one request does not
survive the next.
The coordinator's `OneTaskPerId`, `NoTaskForgotten` and `EveryTaskCompletes` are
checked where nothing is stopped: a stopped task's deferred deletion takes the
registry entry of the task that replaced it, and a stop may take a newer task off
the queue than the one it cancels. `NoTaskForgotten` covers Close, but a task that
was registered before it and is queued after it stays in the queue of a
coordinator without a worker: `EveryTaskCompletes` is promised until Close only.

## Proofs

The theorems hold for any values of the constants that satisfy the named
assumptions of the modules (`...Assumption`), which say what kind of thing each
constant is, that channels have room for one element, that sets of files,
workers and handlers are finite, and that a bound is a number. Where a theorem
has a hypothesis of its own it is given below. `PROJECT.json` lists
them under `theorems`. Each follows from an inductive invariant that TLC was
given first.

**Coordinator** (`CoordinatorProofs`), for any collections, clients and calls:

- `TypeCorrect` with `Control`: each goroutine holds what its
  next step needs and Close stays within the queue it locked. `TypeOK` alone is
  not inductive, since `Insert` and `Cancel` index by `held` and `DrainDelete` by
  `drained`.
- `Invariance`: `Spec => []IInv` with `IInv == TypeOK /\ Control /\ Placement`.
  `Placement` says that a task is at one place: held for insertion by one
  goroutine, at one queue position, or started. Dequeuing keeps it only because
  queue entries are distinct, inserting only because no two goroutines hold one
  task.
- `WakeupsKept`: `Spec => []NoLostWakeup`, inductive relative to `TypeOK` and
  `Control`. The order "insert, then signal" and the worker's own `Resignal`
  carry it.
- `BoardImplemented`: `Spec => ImplementsBoard`. `Status` maps each task to where
  it is; `Placement` makes every step a board step or a stutter.
- `BestIsStarted`: `Spec => StartsBest`, from a queue that is always sorted
  (`Ordered`).
- `NoDuplicateTasks` and `CompletedIsGone`, under `Stoppable = {}`, as in the run
  `coordinator_serve`. `RInv` says that every live task is the one its Id maps to
  in the registry, as is the one that Close has cancelled and is about to
  unregister, and that a task is unregistered before it is completed. With
  stops they are false, as said under *Fairness*.
- `NothingForgotten`, also under `Stoppable = {}`: `NInv` adds to `RInv` that Close has
  cancelled every task of the queue up to the one it is at (`Handled`), so that
  nothing is lost when it empties a queue which nobody else can change
  meanwhile.

**File scan and the database's writer** (`FileScanProofs`). `SInv` is `TypeOK`
with what the scan and the writes on their way agree on: the scan waits for one
barrier, which is the last of its writes (`Barriers`); rows are added before the
list is read and removed after it, never both (`Phases`); a file that was
walked is at one of the places between the walker and the writer (`Scanned`);
and a walk that ended by itself has met every file that stayed (`WalkedAll`).

- `TypesOK`, `BarrierMeansSaved`: from `SInv`, for any channel and ticker. `TypeOK` is
  proved only; the run leaves it out for what says more.
- `ScansReconcile` under `WritesSucceed`, that the statements for files and directories do not
  fail; the code logs a failure and goes on. `RowsKept` adds that a row which is
  listed as missing is not of a file met, through the list and the channel. Of
  thumbnails it says that each has a row or a deletion still queued.
- `ScansKeep` under `NoWildcards`, that a directory's name matches only what is below
  it; the hazard at `database.go:2848` says what happens otherwise.

**Tags** (`TaggingProofs`), for any number of clients, files and tags, whichever
statements fail and versions are pruned. `TInv` has three parts. `Stored`: the
writer's versions extend the committed ones, every range belongs to a version
that is there, and what is committed about a file that still has its row is
in the writer's tables too (`Behind`). `Sent`: a write from a client is the only one
from that client, and the client waits for it with the same request and
version. `Requests`: a client that has created its tag and is past each of the three waits
finds it where that wait makes it visible.

- `TypesOK`, `OneVersion`, `CreatedFound`: from `TInv`.
- `AnswersVisible`: the step that answers commits a version that holds exactly the
  ids computed. `RunsCover` shows that the maximal runs of a finite set of ids cover it
  and nothing else, `VersionAddedGives` that pruning and deactivating leave it so.
- `DeletesOneFile`: `Behind` is what makes it harmless that the deletion splits
  committed ranges, which may bring back files deleted in the same transaction.
- `TreesAreSets`: `TreeSpec => []TreeIsSet`, for any ids and any sequence of `Add`,
  `Subtract` and `Invert` on a tree whose ranges are apart, which only an `Add` of a
  range that covers several others ends (*What the properties except*). `TreeInv` adds to
  the property that the tree is a finite set of ranges of ids. That `Add` finds one
  range at most on either side needs ranges that are apart; `Invert`, which goes from id to
  id, is an induction upwards (`Upwards` in `SequenceLemmas`), after `InvertDefined` has shown
  that the recursive function exists.
- `RunsAreStored`: the ranges of a tree that are apart are the maximal runs of its
  ids. This joins the two models: `Tagging` stores `Runs` of a set where the code
  stores the ranges of a tree.

**Tile queue** (`TileQueueProofs`), for any handlers, limits and number of workers:
`TokensMatch` and `RenderingIsBounded`. `QInv` strengthens them with whom a worker's job belongs to
(`Holding`, `Rendering`, `Exclusive`): a handler is held by one worker or waits once
in the list, never both. A worker whose generation has not been opened yet has
not started (`Generations`).

**File watchers** (`ConfigReloadProofs`), for any files and interval, with the reload
loop beside them: `UpdatesAreInTime` and `ReportsDebounced`. `WInv` says of each
watcher that a ticker runs while updates are held back, with the time left bounded
by the age of one of them (`Running`), and that a path about to be reported has
been quiet since it was moved there, or is pending again (`Quiet`).

**Scenes** (`ScenesProofs`):

- `KeptTiles`: `Spec => []KeptTilesAreComplete`. The inductive invariant `SInv`
  adds that a scene is complete once it no longer loads (`Loaded`), that a scene
  which can be found has been added (`Added`), and that what a viewer saw of its
  scene stays true until it has drawn (`Seen`): content is only ever replaced by
  content.
- `ChangesNoticed`, `TagChangesNoticed`: `NInv` adds that a change not yet committed
  or reported is marked (`Marked`), that no time kept is in the future and those
  the database keeps are whole milliseconds (`Past`), and that an update a
  listing missed is reported after the scene was created, or will be
  (`MissedIsReported`). A scene that is not partial depends on its tags: it is laid out
  after they were added.
- `DatesFound`: `DateSpec => []DatesMatch`, for any patterns that are parsed without an
  error and any times of the years that can be named (`DatesAssumption`). A step only
  picks an input, so the invariant is the property itself for every input; the
  lemmas say where a period begins and ends (`YearEnds`, `MonthEnds`, `DayEnds`, with
  `ZeroDayIs` for the day before the first of a month), what a range without
  wildcards holds (`PlainDates`), and that for a day of any year the comparison in
  the query and the one after it leave that day (`AnyYear`).
- `AlbumIsPlaced`, `TimelineIsPlaced`, `WallIsPlaced`, `SearchIsPlaced`,
  `StripIsPlaced`, `FacesArePlaced`: these layouts give `WellPlaced` scenes, what
  `PhotosArePlaced` says first, of any number of photos of any whole widths; and all
  but the strip have a scroll bar of any height that finds the photos' times
  (`TimestampsAreRight`, together `IsLaidOut`). A
  layout is a recursive function over the number of the photo, so the argument is
  an invariant of what it passes on, after `Iterated` has shown that the function
  exists.
  - Rows (`RowInv`): photos of earlier rows are inside of the section and above the
    row that is being filled (`Placed`), those of that row stand next to each other
    (`RowFrom`) and end before the next place (`InRow`), and no two overlap and none
    ends above one that was laid out before it (`Clear`).
    `FitRowIs` carries it over the scaling of a row: the factor is of the row
    without its gaps, measured from the left of the scene, and with divisions that
    round down the widths that are scaled add up to no more than the row
    (`ScaledIs`). `SectionsArePlaced` is what follows for a whole section, and
    `RowsEnd` that its height covers the last row, which is not scaled.
  - Events (`EventInv`): the sections of an album or a timeline stand below each
    other, and together have every photo (`Counts`). For albums and timelines the
    photos are `PhotosKept(photos)`. `EventsAreKept` shows that the events, one after
    the other, are exactly these in their order (`InOrder`): `Collects` says of what
    was collected so far that before an event has begun it is all photos, none of
    them dated, and after it all but those (`Lost`).
  - Search (`FoundInv`): the same rows with a height that changes from row to row and
    is never more than the first.
  - Faces (`FaceInv`): a face is of a row above, or of this row and to the left.
  - Scroll bar (`ScrollBar`): `GetTimestamps` advances over the photos in their order
    and never goes back, so it needs `Clear`: the photo it stopped at for a row says
    something of all photos before and after it. `RowsMeasure` shows that where it
    stops, `y + (y + 0.5) / height`, lies within row `y`.
  - Hypotheses: the scene is at least as wide as its margins, photos have a height
    (`c.height > 0`), a time is 0 or of a later day (`ArePhotos`), for faces one fits next to the padding, and for a search
    similarities are positive and the first is the greatest, as the listing
    sorts them. The strip needs no margins.

**Stages and the thumbnail store** (`StagesProofs`):

- `FlushMeansSaved`: `StoreInv` keeps received and committed within what was
  sent, and says that a flush waits only for writes that were sent before it.
- `NoFileMissed` under `Workers # {}`: with no workers configured a stage
  tries nothing. `PInv` accounts for every file listed: it is with the query, in the
  source's batch, in the channel to the workers, or tried (`NoneLost`), and what
  is done or still uncounted is within what was announced (`Announced`).

`SequenceLemmas` has what `InsertAt`, `RemoveAt`, `Front`, `Append`, `Tail`, `Min`, `Max`
and `Ascending` return, bounds of divisions, induction over an interval of
numbers, given as a set, and that a function which is defined from one number to
the next exists (`Iterated`), in the form these proofs use.

**Model-checked only.** Liveness (`EveryTaskCompletes`, `WorkerStops`, `ScanEnds`,
both `EveryRequestAnswered`, `ConfigApplied`, `DirsCollected`, `StageEnds`,
`ConnectionsReturned`, `CloseEnds`): fairness is out of the prover's
reach. Four properties of `Library`: `ListingsAreRight`, `SearchFinds`,
`RowsAreShortest` and `PhotosArePlaced` compare listings, searches and layouts with
reference definitions over bounded inputs. What they compute is sorted, folded
over sequences with operators as parameters, or a `RECURSIVE` search of paths, and
induction over such data is out of the prover's reach. Of `PhotosArePlaced`, where
photos are is proved for the layouts that place them one by one, as above; the
rows of flex and highlights, the map and the answers about regions are not. Every
other invariant and action property of the passing runs is stated by a theorem.

## Plan

Proofs: the regions of the layouts that are proved placed, and the rows of flex and
highlights, once the search of paths is a recursive function.

Models: the reload as a composition of the coordinator, the database and the
tile queue; the lookup of a scene by its configuration; the single-flight image
loader.

## Not modelled

- Closing the database, and the process after it: writes after it panic, which
  ends the process.
- The lookup of scenes by configuration, tag selections, and the list of tags.
- Floating point: layouts compute in whole numbers, so rounding, NaN and
  similarities that are not positive are out. The forces that move photos on a
  map are one function; the square layout ignores its input.
- What is painted, codecs and external processes, AI and geolocation calls, the
  lexer of searches (a library), the generated API code and request decoding,
  the web UI, benchmark tools and the unused `internal/queue`.
