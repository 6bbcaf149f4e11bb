---------------------------- MODULE StagesProofs -----------------------------
(***************************************************************************)
(* Proofs about Stages and the thumbnail store it is composed with, for    *)
(* any files, workers, limits and channels: no listed file is missed, no   *)
(* more files are counted than announced, and a flush means saved.         *)
(***************************************************************************)
EXTENDS Stages, SequenceLemmas

----------------------------------------------------------------------------
(* The store of thumbnails.                                                *)

\* What the writer has committed it has received, and what it has received was
\* sent; a flush waits for writes that were sent.
StoreInv ==
    /\ thumbWrites \in Seq(ToSet(thumbWrites))
    /\ received \in 0..Len(thumbWrites)
    /\ committed \in 0..received
    /\ flusher \in [at : {"idle", "sent", "taken"}, sent : 0..Len(thumbWrites)]
    /\ flusher.at = "idle" => flusher = NoFlush

\* It holds at the start, and every step keeps it.
LEMMA StoreInvInit == Init => StoreInv
<1>. SUFFICES ASSUME Init PROVE StoreInv
  OBVIOUS
<1>. DEFINE files == Ascending(Thumbed)
<1>1. Thumbed \in SUBSET Int /\ IsFiniteSet(Thumbed)
  <2>1. Files \subseteq Nat /\ IsFiniteSet(Files) /\ Thumbed \subseteq Files
    BY StagesAssumption
  <2>2. Thumbed \in SUBSET Files /\ \A x \in Files : x \in Int
    BY <2>1
  <2>3. IsFiniteSet(Thumbed)
    BY ONLY <2>1, <2>2, FS_Subset
  <2>. QED  BY <2>2, <2>3
<1>2. files \in Seq(Thumbed) /\ Len(files) \in Nat /\ DOMAIN files = 1..Len(files)
  BY <1>1, AscendingElements
<1>. HIDE DEF files
<1>3. /\ thumbWrites = [k \in DOMAIN files |-> [file |-> files[k], bytes |-> TRUE]]
      /\ received = Len(files) /\ committed = received /\ flusher = NoFlush
  BY DEF Init, InitStore, files
<1>4. thumbWrites \in [1..Len(files) -> ToSet(thumbWrites)]
  <2>1. thumbWrites = [k \in 1..Len(files) |-> thumbWrites[k]] /\ DOMAIN thumbWrites = 1..Len(files)
    BY <1>2, <1>3
  <2>2. \A k \in 1..Len(files) : thumbWrites[k] \in ToSet(thumbWrites)
    BY <2>1 DEF ToSet
  <2>. HIDE DEF files
  <2>. QED  BY <2>1, <2>2
<1>5. thumbWrites \in Seq(ToSet(thumbWrites)) /\ Len(thumbWrites) = Len(files)
  <2>. DEFINE S == ToSet(thumbWrites)
              n == Len(files)
  <2>1. thumbWrites \in [1..n -> S] /\ n \in Nat
    BY <1>2, <1>4
  <2>. HIDE DEF S, n
  <2>2. thumbWrites \in Seq(S) /\ Len(thumbWrites) = n
    BY <2>1
  <2>. QED  BY <2>2 DEF S, n
<1>. QED  BY <1>2, <1>3, <1>5 DEF StoreInv, NoFlush

\* The two kinds of steps of the store: of the writer, Flush and Close, and a
\* write by a worker.
LEMMA StoreInvWriter == StoreInv /\ (StoreWriter \/ Flush \/ Close \/ UNCHANGED storeVars) => StoreInv'
<1>. SUFFICES ASSUME StoreInv, StoreWriter \/ Flush \/ Close \/ UNCHANGED storeVars PROVE StoreInv'
  OBVIOUS
<1>1. Len(thumbWrites) \in Nat
  BY DEF StoreInv
<1>2. thumbWrites' = thumbWrites
  BY DEF StoreWriter, Receive, ReceiveFlush, Drain, Flushed, ReceiveClosed, Flush,
         Close, ClosePending, CloseFlushes, PoolCloses, storeVars
<1>3. received' \in 0..Len(thumbWrites) /\ committed' \in 0..received'
  BY <1>1 DEF StoreInv, StoreWriter, Receive, ReceiveFlush, Drain, Flushed, ReceiveClosed, Flush,
         Close, ClosePending, CloseFlushes, PoolCloses, storeVars, Pending, Finish
<1>4. /\ flusher' \in [at : {"idle", "sent", "taken"}, sent : 0..Len(thumbWrites)]
      /\ flusher'.at = "idle" => flusher' = NoFlush
  BY <1>1 DEF StoreInv, StoreWriter, Receive, ReceiveFlush, Drain, Flushed, ReceiveClosed, Flush,
         Close, ClosePending, CloseFlushes, PoolCloses, storeVars, NoFlush
<1>. QED  BY <1>2, <1>3, <1>4 DEF StoreInv

LEMMA StoreInvStore ==
    ASSUME StoreInv, NEW f, NEW bytes, Store(f, bytes), UNCHANGED <<received, committed, flusher>>
    PROVE  StoreInv'
<1>. DEFINE e == [file |-> f, bytes |-> bytes]
            S == ToSet(thumbWrites) \cup {e}
<1>1. thumbWrites \in Seq(ToSet(thumbWrites)) /\ thumbWrites' = Append(thumbWrites, e)
  BY DEF StoreInv, Store
<1>2. thumbWrites \in Seq(S)
  BY <1>1
<1>. HIDE DEF e
<1>3. /\ Append(thumbWrites, e) \in Seq(S) /\ Len(Append(thumbWrites, e)) = Len(thumbWrites) + 1
      /\ ToSet(Append(thumbWrites, e)) = S /\ Len(thumbWrites) \in Nat
  <2>. HIDE DEF S
  <2>1. e \in S
    BY DEF S
  <2>2. ToSet(thumbWrites) \cup {e} = S
    BY DEF S
  <2>3. /\ Append(thumbWrites, e) \in Seq(S)
        /\ Len(Append(thumbWrites, e)) = Len(thumbWrites) + 1 /\ Len(thumbWrites) \in Nat
        /\ ToSet(Append(thumbWrites, e)) = ToSet(thumbWrites) \cup {e}
    BY ONLY <1>2, <2>1, AppendElements, SMT
  <2>. QED  BY <2>2, <2>3
<1>. QED  BY <1>1, <1>3 DEF StoreInv

LEMMA StoreInvNext == StoreInv /\ [Next]_vars => StoreInv'
<1>. SUFFICES ASSUME StoreInv, [Next]_vars PROVE StoreInv'
  OBVIOUS
<1>1. CASE ((StoreWriter \/ Flush) /\ UNCHANGED stageVars) \/ CloseStore \/ UNCHANGED vars
  BY <1>1, StoreInvWriter DEF CloseStore, vars
<1>2. ASSUME NEW w \in Workers, GenerateThumbnail(w) PROVE StoreInv'
  BY <1>2, StoreInvStore DEF GenerateThumbnail
<1>3. ASSUME NEW w \in Workers, Work(w) PROVE StoreInv'
  BY <1>2, <1>3, StoreInvWriter DEF Work, Take, Exhaust, ExtractMetadata, LoadThumbnail, GenerateFails,
     SkipFaces, DetectFaces, FacesNotAvailable, Count
<1>4. CASE (\E s \in StageNames, force \in BOOLEAN, limit \in Limits : Start(s, force, limit))
           \/ List \/ Stop \/ End \/ Source \/ (\E t \in Tasks : Row(t) \/ Listed(t))
           \/ Commit \/ FacesRetried
  BY <1>4, StoreInvWriter DEF Start, List, Stop, End, Source, Forward, Collect, GetBatch, SendLoaded,
     SourceEnds, Row, Listed, Commit, FacesRetried
<1>. QED  BY <1>1, <1>3, <1>4 DEF Next

\* FlushedMeansSaved: what was sent before Flush is committed when it returns,
\* although the writer may take the flush before the writes in its channel.
THEOREM FlushMeansSaved == Spec => FlushedMeansSaved
<1>1. StoreInv /\ [Next]_vars =>
          [flusher # NoFlush /\ flusher' = NoFlush => committed' >= flusher.sent]_storeVars
  <2>. SUFFICES ASSUME StoreInv, [Next]_vars, flusher # NoFlush, flusher' = NoFlush
                PROVE  committed' >= flusher.sent
    OBVIOUS
  <2>1. Flushed
    BY DEF Next, vars, storeVars, StoreWriter, Receive, ReceiveFlush, Drain, ReceiveClosed, Flush,
           CloseStore, Close, ClosePending, CloseFlushes, PoolCloses, Work, Take, Exhaust, ExtractMetadata,
           LoadThumbnail, GenerateThumbnail, GenerateFails, SkipFaces, DetectFaces, FacesNotAvailable,
           Count, Start, List, Stop, End, Source, Forward, Collect, GetBatch, SendLoaded,
           SourceEnds, Row, Listed, Commit, FacesRetried, StoreInv, NoFlush
  <2>2. received \in 0..Len(thumbWrites) /\ flusher.sent \in 0..Len(thumbWrites)
        /\ Len(thumbWrites) \in Nat
    BY DEF StoreInv
  <2>. QED  BY <2>1, <2>2 DEF Flushed, Pending
<1>. QED  BY <1>1, StoreInvInit, StoreInvNext, PTL DEF Spec, FlushedMeansSaved
----------------------------------------------------------------------------
(* The stages.                                                             *)

Data == {"metadata", "color", "embedding", "faces"}
Item == [file : Files, missing : SUBSET Data]
Task == [number : 0..MaxTasks, at : {"list", "run", "ended"}, stage : StageNames,
         force : BOOLEAN, limit : Nat, stopped : BOOLEAN, total : Nat, done : Nat,
         listed : SUBSET Files, tried : SUBSET Files]
Listing == [left : Seq(Files), found : Seq(Files), open : BOOLEAN]
WorkerLabels == {"take", "process", "count", "gone"}

\* The types of what the proof is about.
Types ==
    /\ task \in Task /\ (task.at # "ended" => task.number \in Tasks)
    /\ listing \in [Tasks -> Listing]
    /\ source \in [open : BOOLEAN, batch : Seq(Item), loaded : Seq(Item)]
    /\ ready \in Seq(Item)
    /\ worker \in [Workers -> [at : WorkerLabels, file : Nat, missing : SUBSET Data]]

\* What is committed was sent.
Sent ==
    /\ db = [f \in Files |-> db[f]]
    /\ \A f \in Files : saved[f] \subseteq db[f]

\* Only a stage that runs has a source, workers and files on the way to them.
Idle ==
    task.at # "run" =>
        /\ ~source.open /\ ready = <<>>
        /\ \A w \in Workers : worker[w].at = "gone"

\* A closed query has listed all its rows; a source that was not stopped has
\* passed all of them on, and a worker that was not stopped left none.
Finished ==
    /\ \A t \in Tasks : ~listing[t].open => listing[t].left = <<>>
    /\ task.at = "run" /\ ~Stopped =>
          /\ ~source.open => /\ Query.left = <<>> /\ Query.found = <<>>
                             /\ source.batch = <<>> /\ source.loaded = <<>>
          /\ \A w \in Workers : worker[w].at = "gone" => ~source.open /\ ready = <<>>

\* A listed file was tried, or is on its way.
FilesOf(items) == {e.file : e \in ToSet(items)}
OnTheWay ==
    ToSet(Query.left) \cup ToSet(Query.found)
        \cup FilesOf(source.batch) \cup FilesOf(source.loaded) \cup FilesOf(ready)
NoneLost == task.at = "run" => task.listed = task.tried \cup OnTheWay

\* Each file that is on its way, or with a worker, may still be counted.
Busy == {w \in Workers : worker[w].at \in {"process", "count"}}
Uncounted ==
    Len(Query.left) + Len(Query.found) + Len(source.batch) + Len(source.loaded)
        + Len(ready) + Cardinality(Busy)
Announced ==
    /\ task.at = "list" =>
          LimitedTo(task.limit, Cardinality(Candidates(task.stage, task.force))) <= task.total
    /\ task.at = "list" => task.done = 0 /\ task.tried = {}
    /\ task.at = "run" => task.done + Uncounted <= task.total

PInv ==
    /\ Types /\ Sent /\ Idle /\ Finished /\ NoneLost /\ Announced
    /\ NothingMissed
----------------------------------------------------------------------------
(* Facts about counts and sets.                                            *)

\* The files that a stage may have to process are finitely many.
LEMMA CandidatesCounted ==
    ASSUME NEW stage, NEW force
    PROVE  /\ IsFiniteSet(Candidates(stage, force))
           /\ Cardinality(Candidates(stage, force)) \in Nat
           /\ Candidates(stage, force) \in SUBSET Int
<1>1. Files \subseteq Nat /\ IsFiniteSet(Files)
  BY StagesAssumption
<1>2. Candidates(stage, force) \in SUBSET Files
  BY DEF Candidates
<1>3. IsFiniteSet(Candidates(stage, force))
  BY ONLY <1>1, <1>2, FS_Subset
<1>4. Cardinality(Candidates(stage, force)) \in Nat
  BY <1>3, FS_CardinalityType
<1>5. \A f \in Candidates(stage, force) : f \in Int
  <2>1. \A f \in Files : f \in Int
    BY <1>1
  <2>. QED  BY <1>2, <2>1
<1>. QED  BY <1>3, <1>4, <1>5

LEMMA LimitedCount ==
    ASSUME NEW limit \in Nat, NEW n \in Nat
    PROVE  /\ LimitedTo(limit, n) \in Nat /\ LimitedTo(limit, n) <= n
           /\ \A m \in Nat : m <= n => LimitedTo(limit, m) <= LimitedTo(limit, n)
  BY DEF LimitedTo

\* The files of a sequence of items that is appended to, or shortened.
LEMMA ItemsAppended ==
    ASSUME NEW s \in Seq(Item), NEW e \in Item
    PROVE  /\ Append(s, e) \in Seq(Item) /\ Append(s, e) # <<>>
           /\ Len(Append(s, e)) = Len(s) + 1 /\ Len(s) \in Nat
           /\ FilesOf(Append(s, e)) = FilesOf(s) \cup {e.file}
<1>1. /\ Append(s, e) \in Seq(Item) /\ Append(s, e) # <<>>
      /\ Len(Append(s, e)) = Len(s) + 1 /\ Len(s) \in Nat
      /\ ToSet(Append(s, e)) = ToSet(s) \cup {e}
  BY ONLY s \in Seq(Item), e \in Item, AppendElements, SMT
<1>. QED  BY <1>1 DEF FilesOf

LEMMA ItemsShortened ==
    ASSUME NEW s \in Seq(Item), s # <<>>
    PROVE  /\ Head(s) \in Item /\ Tail(s) \in Seq(Item)
           /\ Len(Tail(s)) = Len(s) - 1 /\ Len(s) \in Nat /\ Len(s) >= 1
           /\ FilesOf(s) = {Head(s).file} \cup FilesOf(Tail(s))
<1>1. /\ Head(s) \in Item /\ Tail(s) \in Seq(Item)
      /\ Len(Tail(s)) = Len(s) - 1 /\ Len(s) \in Nat /\ Len(s) >= 1
      /\ ToSet(s) = {Head(s)} \cup ToSet(Tail(s))
  BY ONLY s \in Seq(Item), s # <<>>, TailElements, SMT
<1>. QED  BY <1>1 DEF FilesOf

\* The workers that have a file, when one of them goes on to a step.
LEMMA BusyCounted == Types => IsFiniteSet(Busy) /\ Cardinality(Busy) \in Nat
<1>1. Busy \in SUBSET Workers /\ IsFiniteSet(Workers)
  BY StagesAssumption DEF Busy
<1>. QED  BY <1>1, FS_Subset, FS_CardinalityType

LEMMA BusyMoves ==
    ASSUME Types, NEW w \in Workers, NEW label \in WorkerLabels,
           \A v \in Workers : worker'[v].at = IF v = w THEN label ELSE worker[v].at
    PROVE  Cardinality(Busy') =
              IF label \in {"process", "count"}
              THEN IF w \in Busy THEN Cardinality(Busy) ELSE Cardinality(Busy) + 1
              ELSE IF w \in Busy THEN Cardinality(Busy) - 1 ELSE Cardinality(Busy)
<1>1. IsFiniteSet(Busy)
  BY BusyCounted
<1>2. CASE label \in {"process", "count"}
  <2>1. Busy' = Busy \cup {w}
    BY <1>2 DEF Busy
  <2>. QED  BY <1>1, <1>2, <2>1, FS_AddElement
<1>3. CASE label \notin {"process", "count"}
  <2>1. Busy' = Busy \ {w}
    BY <1>3 DEF Busy
  <2>. QED  BY <1>1, <1>3, <2>1, FS_RemoveElement
<1>. QED  BY <1>2, <1>3

\* What is on the way is counted by a number.
LEMMA UncountedNat == Types /\ task.number \in Tasks => Uncounted \in Nat
<1>. SUFFICES ASSUME Types, task.number \in Tasks PROVE Uncounted \in Nat
  OBVIOUS
<1>1. Query \in Listing
  BY DEF Types, Query
<1>2. /\ Len(Query.left) \in Nat /\ Len(Query.found) \in Nat
      /\ Len(source.batch) \in Nat /\ Len(source.loaded) \in Nat /\ Len(ready) \in Nat
  BY <1>1 DEF Types, Listing
<1>3. Cardinality(Busy) \in Nat
  BY BusyCounted
<1>4. \A a, b, c, d, e, g \in Nat : a + b + c + d + e + g \in Nat
  OBVIOUS
<1>. QED  BY <1>2, <1>3, <1>4, Zenon DEF Uncounted

----------------------------------------------------------------------------
(* The start of a task.                                                    *)

LEMMA PInvInit == Init => PInv
<1>. SUFFICES ASSUME Init PROVE PInv
  OBVIOUS
<1>. USE DEF Init
<1>1. MaxTasks \in Nat /\ MaxTasks > 0
  BY StagesAssumption
<1>2. Types
  <2>1. task \in Task /\ task.at = "ended"
    BY <1>1 DEF NoTask, Task, StageNames
  <2>2. listing \in [Tasks -> Listing] /\ ready \in Seq(Item)
    BY DEF NoListing, Listing
  <2>3. source \in [open : BOOLEAN, batch : Seq(Item), loaded : Seq(Item)]
    OBVIOUS
  <2>4. worker \in [Workers -> [at : WorkerLabels, file : Nat, missing : SUBSET Data]]
    BY DEF IdleWorker, WorkerLabels
  <2>. QED  BY <2>1, <2>2, <2>3, <2>4 DEF Types
<1>3. Sent /\ Idle /\ Finished /\ NoneLost /\ Announced /\ NothingMissed
  BY DEF Sent, Idle, Finished, NoneLost, Announced, NothingMissed, NoTask, NoListing, IdleWorker, Stopped
<1>. QED  BY <1>2, <1>3 DEF PInv

LEMMA StartKeeps ==
    ASSUME PInv, NEW stage \in StageNames, NEW force \in BOOLEAN, NEW limit \in Limits,
           Start(stage, force, limit)
    PROVE  PInv'
<1>. DEFINE n == LimitedTo(limit, Cardinality(Candidates(stage, force)))
<1>1. /\ task.at = "ended" /\ task.number < MaxTasks
      /\ task' = [NoTask EXCEPT !.number = task.number + 1, !.at = "list", !.stage = stage,
                                !.force = force, !.limit = limit, !.total = n]
      /\ UNCHANGED <<db, saved, listing, source, ready, worker>>
  BY DEF Start
<1>2. limit \in Nat /\ n \in Nat
  BY CandidatesCounted, LimitedCount, StagesAssumption
<1>3. task.number \in 0..MaxTasks /\ MaxTasks \in Nat
  BY StagesAssumption DEF PInv, Types, Task
<1>4. Candidates(stage, force)' = Candidates(stage, force)
  BY <1>1 DEF Candidates
<1>. HIDE DEF n
<1>5. /\ task'.number = task.number + 1 /\ task'.at = "list" /\ task'.stage = stage /\ task'.force = force
      /\ task'.limit = limit /\ task'.stopped = FALSE /\ task'.total = n /\ task'.done = 0
      /\ task'.listed = {} /\ task'.tried = {}
  BY <1>1 DEF NoTask
<1>6. task' \in Task /\ task'.number \in Tasks
  <2>1. task' = [number |-> task.number + 1, at |-> "list", stage |-> stage, force |-> force,
                 limit |-> limit, stopped |-> FALSE, total |-> n, done |-> 0,
                 listed |-> {}, tried |-> {}]
    BY <1>1 DEF NoTask
  <2>2. task.number + 1 \in 1..MaxTasks /\ task.number + 1 \in 0..MaxTasks
    BY <1>1, <1>3
  <2>. QED  BY <1>2, <2>1, <2>2 DEF Task, Tasks
<1>7. Types'
  BY <1>1, <1>5, <1>6 DEF PInv, Types
<1>8. Sent' /\ Idle' /\ Finished' /\ NoneLost'
  BY <1>1, <1>5 DEF PInv, Sent, Idle, Finished, NoneLost
<1>9. Announced'
  <2>1. LimitedTo(limit, Cardinality(Candidates(stage, force)'))  = n
    BY <1>4 DEF n
  <2>. QED  BY <1>2, <1>5, <2>1 DEF Announced, Candidates, LimitedTo
<1>10. NothingMissed'
  BY <1>2, <1>5 DEF NothingMissed
<1>. QED  BY <1>7, <1>8, <1>9, <1>10 DEF PInv

\* A query that starts.
LEMMA ListingOpened ==
    ASSUME NEW r
    PROVE  [NoListing EXCEPT !.left = r, !.open = TRUE] = [left |-> r, found |-> <<>>, open |-> TRUE]
<1>. DEFINE opened == [NoListing EXCEPT !.left = r, !.open = TRUE]
            none == <<>>
<1>1. NoListing = [left |-> none, found |-> none, open |-> FALSE]
  BY DEF NoListing
<1>2. opened = [NoListing EXCEPT !.left = r, !.open = TRUE]
  OBVIOUS
<1>. HIDE DEF none, opened
<1>3. opened = [left |-> r, found |-> none, open |-> TRUE]
  BY <1>1, <1>2
<1>. QED  BY <1>2, <1>3 DEF none

\* The listed rows are as many as were announced, or fewer.
LEMMA ListKeeps == ASSUME PInv, List PROVE PInv'
<1>. DEFINE C == Candidates(task.stage, task.force)
            all == Ascending(C)
            n == LimitedTo(task.limit, Cardinality(C))
            rows == SubSeq(all, 1, n)
<1>0. Types /\ Sent /\ Idle /\ Finished /\ Announced /\ task.at = "list"
  BY DEF PInv, List
<1>1. task \in Task /\ task.number \in Tasks /\ listing \in [Tasks -> Listing]
  BY <1>0 DEF Types
<1>2. /\ C \in SUBSET Files /\ Cardinality(C) \in Nat
      /\ all \in Seq(C) /\ Len(all) = Cardinality(C)
  <2>1. IsFiniteSet(C) /\ Cardinality(C) \in Nat /\ C \in SUBSET Int
    BY CandidatesCounted
  <2>2. C \in SUBSET Files
    BY DEF Candidates
  <2>. HIDE DEF C
  <2>3. all \in Seq(C) /\ Len(all) = Cardinality(C)
    BY ONLY <2>1, AscendingElements, SMT
  <2>. QED  BY <2>1, <2>2, <2>3
<1>3. n \in Nat /\ n <= Cardinality(C) /\ task.limit \in Nat
  BY <1>1, <1>2, LimitedCount DEF Task
<1>4. /\ task' = [task EXCEPT !.at = "run", !.listed = ToSet(rows)]
      /\ listing' = [listing EXCEPT ![task.number] =
                        [left |-> rows, found |-> <<>>, open |-> TRUE]]
      /\ source' = [open |-> TRUE, batch |-> <<>>, loaded |-> <<>>]
      /\ worker' = [w \in Workers |-> IdleWorker]
      /\ UNCHANGED <<db, saved, ready>>
  <2>1. LimitedTo(task.limit, Len(all)) = n
    <3>. HIDE DEF C, all
    <3>. QED  BY <1>2
  <2>. DEFINE listed == SubSeq(all, 1, LimitedTo(task.limit, Len(all)))
  <2>2. /\ task' = [task EXCEPT !.at = "run", !.listed = ToSet(listed)]
        /\ listing' = [listing EXCEPT ![task.number] = [NoListing EXCEPT !.left = listed, !.open = TRUE]]
        /\ source' = [open |-> TRUE, batch |-> <<>>, loaded |-> <<>>]
        /\ worker' = [w \in Workers |-> IdleWorker]
        /\ UNCHANGED <<db, saved, ready>>
    BY Zenon DEF List
  <2>3. listed = rows
    <3>. HIDE DEF C, all, n
    <3>. QED  BY <2>1
  <2>. HIDE DEF C, all, n, rows, listed
  <2>4. [NoListing EXCEPT !.left = rows, !.open = TRUE] = [left |-> rows, found |-> <<>>, open |-> TRUE]
    BY ListingOpened
  <2>. QED  BY <2>2, <2>3, <2>4
<1>5. n <= task.total /\ task.done = 0 /\ task.tried = {}
  BY <1>0 DEF Announced
<1>6. rows \in Seq(Files) /\ Len(rows) = n /\ ToSet(rows) \subseteq Files
  <2>. HIDE DEF C, all, n
  <2>1. \A i \in 1..n : all[i] \in Files
    <3>1. \A i \in 1..n : i \in 1..Len(all)
      BY <1>2, <1>3
    <3>2. \A i \in 1..Len(all) : all[i] \in C
      BY <1>2
    <3>. QED  BY <1>2, <3>1, <3>2
  <2>2. 1 \in Int /\ n \in Int /\ n - 1 + 1 = n /\ (~(1 <= n) => n = 0)
    BY <1>3
  <2>3. rows \in Seq(Files) /\ Len(rows) = n
    BY <2>1, <2>2, SubSeqProperties
  <2>4. ToSet(rows) \subseteq Files
    <3>. HIDE DEF rows
    <3>. QED  BY <2>3 DEF ToSet
  <2>. QED  BY <2>3, <2>4
<1>. HIDE DEF C, all, n, rows
<1>7. /\ task' \in Task /\ task'.at = "run" /\ task'.number = task.number /\ task'.listed = ToSet(rows)
      /\ task'.total = task.total /\ task'.done = 0 /\ task'.tried = {} /\ task'.stopped = task.stopped
  <2>. DEFINE L == ToSet(rows)
  <2>1. L \in SUBSET Files /\ task' = [task EXCEPT !.at = "run", !.listed = L]
    BY <1>4, <1>6
  <2>. HIDE DEF L
  <2>2. /\ task' \in Task /\ task'.at = "run" /\ task'.number = task.number /\ task'.listed = L
        /\ task'.total = task.total /\ task'.done = task.done /\ task'.tried = task.tried
        /\ task'.stopped = task.stopped
    BY <1>1, <2>1 DEF Task
  <2>. QED  BY <1>5, <2>2 DEF L
<1>8. /\ listing' \in [Tasks -> Listing]
      /\ \A t \in Tasks : listing'[t] = IF t = task.number
                                        THEN [left |-> rows, found |-> <<>>, open |-> TRUE]
                                        ELSE listing[t]
  <2>1. [left |-> rows, found |-> <<>>, open |-> TRUE] \in Listing
    BY <1>6 DEF Listing
  <2>. QED  BY <1>1, <1>4, <2>1
<1>9. worker' \in [Workers -> [at : WorkerLabels, file : Nat, missing : SUBSET Data]]
  BY <1>4 DEF IdleWorker, WorkerLabels
<1>10. ready = <<>>
  BY <1>0 DEF Idle
<1>11. Types'
  BY <1>1, <1>4, <1>7, <1>8, <1>9, <1>10 DEF Types
<1>12. Sent' /\ Idle'
  BY <1>0, <1>4, <1>7 DEF Sent, Idle
<1>13. Finished'
  <2>1. \A w \in Workers : worker'[w].at = "take"
    BY <1>4 DEF IdleWorker
  <2>2. source'.open = TRUE
    BY <1>4
  <2>. QED  BY <1>0, <1>8, <2>1, <2>2 DEF Finished
<1>14. Query' = [left |-> rows, found |-> <<>>, open |-> TRUE]
  BY <1>1, <1>7, <1>8 DEF Query
<1>15. /\ Query'.left = rows /\ Query'.found = <<>> /\ source'.batch = <<>> /\ source'.loaded = <<>>
       /\ ready' = <<>>
  BY <1>4, <1>10, <1>14
<1>16. NoneLost'
  <2>1. ToSet(<<>>) = {} /\ FilesOf(<<>>) = {}
    BY DEF ToSet, FilesOf
  <2>. QED  BY <1>7, <1>15, <2>1 DEF NoneLost, OnTheWay
<1>17. Cardinality(Busy') = 0
  <2>1. Busy' = {}
    BY <1>4 DEF Busy, IdleWorker
  <2>. QED  BY <2>1, FS_EmptySet
<1>18. Uncounted' = n
  <2>1. Len(<<>>) = 0 /\ n + 0 + 0 + 0 + 0 + 0 = n
    BY <1>3
  <2>. QED  BY <1>6, <1>15, <1>17, <2>1 DEF Uncounted
<1>19. Announced'
  BY <1>3, <1>5, <1>7, <1>18 DEF Announced
<1>20. NothingMissed'
  BY <1>1, <1>7 DEF NothingMissed, Task
<1>. QED  BY <1>11, <1>12, <1>13, <1>16, <1>19, <1>20 DEF PInv

----------------------------------------------------------------------------
(* The running stage.                                                      *)

\* A step of the stage that neither loses a file nor adds to the files that may
\* still be counted.
LEMMA Conserves ==
    ASSUME PInv, task.at = "run", task'.at = "run", task'.listed = task.listed,
           task'.total = task.total, Types', Sent', Finished',
           task'.tried \cup OnTheWay' = task.tried \cup OnTheWay,
           task'.done + Uncounted' <= task.done + Uncounted
    PROVE  PInv'
<1>1. Idle' /\ NoneLost'
  BY DEF PInv, Idle, NoneLost
<1>2. task.number \in Tasks /\ task'.number \in Tasks
  BY DEF PInv, Types
<1>3. Uncounted \in Nat /\ Uncounted' \in Nat
  <2>1. (Types /\ task.number \in Tasks => Uncounted \in Nat)'
    BY UncountedNat, PTL
  <2>. QED  BY <1>2, <2>1, UncountedNat DEF PInv
<1>4. task.done \in Nat /\ task'.done \in Nat /\ task.total \in Nat
  BY DEF PInv, Types, Task
<1>5. task.done + Uncounted <= task.total
  BY DEF PInv, Announced
<1>. HIDE DEF Uncounted
<1>6. task'.done + Uncounted' <= task'.total /\ task'.done <= task'.total
  BY <1>3, <1>4, <1>5
<1>. QED  BY <1>1, <1>6 DEF PInv, Announced, NothingMissed

LEMMA StopKeeps == ASSUME PInv, Stop PROVE PInv'
<1>1. /\ task.at = "run" /\ task' = [task EXCEPT !.stopped = TRUE]
      /\ UNCHANGED <<db, saved, listing, source, ready, worker>>
  BY DEF Stop
<1>2. task \in Task
  BY DEF PInv, Types
<1>3. /\ task' \in Task /\ task'.stopped /\ task'.at = "run" /\ task'.number = task.number
      /\ task'.listed = task.listed /\ task'.tried = task.tried /\ task'.done = task.done
      /\ task'.total = task.total
  BY <1>1, <1>2 DEF Task
<1>4. OnTheWay' = OnTheWay /\ Uncounted' = Uncounted
  BY <1>1, <1>3 DEF OnTheWay, Uncounted, Query, Busy
<1>5. Types' /\ Sent' /\ Finished'
  BY <1>1, <1>3 DEF PInv, Types, Sent, Finished, Stopped
<1>6. task.done + Uncounted <= task.done + Uncounted
  <2>1. task.done \in Nat /\ Uncounted \in Nat
    BY <1>1, <1>2, UncountedNat DEF PInv, Types, Task
  <2>. QED  BY <2>1
<1>. QED  BY <1>1, <1>3, <1>4, <1>5, <1>6, Conserves

\* A stage ends with no files on the way unless it was stopped: this needs a
\* worker.
LEMMA EndKeeps == ASSUME Workers # {}, PInv, End PROVE PInv'
<1>1. /\ task.at = "run" /\ task' = [task EXCEPT !.at = "ended"] /\ ready' = <<>>
      /\ \A w \in Workers : worker[w].at = "gone"
      /\ ~source.open
      /\ UNCHANGED <<db, saved, listing, source, worker>>
  BY DEF End
<1>2. task \in Task
  BY DEF PInv, Types
<1>3. /\ task' \in Task /\ task'.stopped = task.stopped /\ task'.at = "ended"
      /\ task'.listed = task.listed /\ task'.tried = task.tried /\ task'.done = task.done
      /\ task'.total = task.total
  BY <1>1, <1>2 DEF Task
<1>4. Types'
  BY <1>1, <1>3 DEF PInv, Types
<1>5. Sent' /\ Idle' /\ Finished' /\ NoneLost' /\ Announced'
  BY <1>1, <1>3 DEF PInv, Sent, Idle, Finished, NoneLost, Announced
<1>6. ~task.stopped => task.tried = task.listed
  <2>. SUFFICES ASSUME ~task.stopped PROVE task.tried = task.listed
    OBVIOUS
  <2>1. /\ Query.left = <<>> /\ Query.found = <<>>
        /\ source.batch = <<>> /\ source.loaded = <<>> /\ ready = <<>>
    BY <1>1 DEF PInv, Finished, Stopped
  <2>2. OnTheWay = {}
    BY <2>1 DEF OnTheWay, ToSet, FilesOf
  <2>. QED  BY <1>1, <2>2 DEF PInv, NoneLost
<1>7. task.done <= task.total
  BY DEF PInv, NothingMissed
<1>. QED  BY <1>3, <1>4, <1>5, <1>6, <1>7 DEF PInv, NothingMissed

\* A commit leaves no more files to process than before.
LEMMA CommitKeeps == ASSUME PInv, Commit PROVE PInv'
<1>1. saved' = db /\ UNCHANGED <<db, task, listing, source, ready, worker>>
  BY DEF Commit
<1>2. Types' /\ Sent' /\ Idle' /\ Finished' /\ NoneLost' /\ NothingMissed'
  BY <1>1 DEF PInv, Types, Sent, Idle, Finished, NoneLost, NothingMissed, OnTheWay, Query, Stopped
<1>3. Announced'
  <2>. DEFINE C == Candidates(task.stage, task.force)
              D == {f \in Files : task.force \/ ~(Needs(task.stage) \subseteq db[f])}
  <2>1. Candidates(task.stage, task.force)' = D
    BY <1>1 DEF Candidates, Needs, Embedding
  <2>2. D \in SUBSET C
    BY DEF Candidates, PInv, Sent
  <2>3. IsFiniteSet(C) /\ Cardinality(C) \in Nat
    BY CandidatesCounted
  <2>. HIDE DEF C, D
  <2>4. Cardinality(D) \in Nat /\ Cardinality(D) <= Cardinality(C)
    <3>1. IsFiniteSet(D) /\ Cardinality(D) <= Cardinality(C)
      BY ONLY <2>2, <2>3, FS_Subset
    <3>. QED  BY <3>1, FS_CardinalityType
  <2>5. task.limit \in Nat /\ task.total \in Nat
    BY DEF PInv, Types, Task
  <2>6. /\ LimitedTo(task.limit, Cardinality(D)) \in Nat
        /\ LimitedTo(task.limit, Cardinality(C)) \in Nat
        /\ LimitedTo(task.limit, Cardinality(D)) <= LimitedTo(task.limit, Cardinality(C))
    BY <2>3, <2>4, <2>5 DEF LimitedTo
  <2>7. task.at = "list" => LimitedTo(task.limit, Cardinality(D)) <= task.total
    <3>1. task.at = "list" => LimitedTo(task.limit, Cardinality(C)) <= task.total
      BY DEF PInv, Announced, C
    <3>. QED  BY <2>5, <2>6, <3>1
  <2>8. Uncounted' = Uncounted
    BY <1>1 DEF Uncounted, Query, Busy
  <2>9. task'.at = "list" => LimitedTo(task'.limit, Cardinality(Candidates(task.stage, task.force)')) <= task'.total
    BY <1>1, <2>1, <2>7
  <2>10. LimitedTo(task.limit, Cardinality(Candidates(task.stage, task.force)))' <= task.total
          \/ task.at # "list"
    BY <1>1, <2>9 DEF LimitedTo
  <2>. QED  BY <1>1, <2>8, <2>10 DEF PInv, Announced
<1>. QED  BY <1>2, <1>3 DEF PInv

\* Nothing of a stage changes.
LEMMA OthersKeep == ASSUME PInv, UNCHANGED <<db, saved, task, listing, source, ready, worker>> PROVE PInv'
  BY DEF PInv, Types, Sent, Idle, Finished, NoneLost, Announced, NothingMissed, OnTheWay, Uncounted,
         Query, Stopped, Busy, Candidates, Needs, Embedding

----------------------------------------------------------------------------
(* The query and the source.                                               *)

\* A step of a query that keeps what the stage that runs still has to read.
LEMMA QueryKeeps ==
    ASSUME PInv, UNCHANGED <<db, saved, task, source, ready, worker>>, Types', Finished',
           task.at = "run" =>
               /\ ToSet(Query'.left) \cup ToSet(Query'.found) = ToSet(Query.left) \cup ToSet(Query.found)
               /\ Len(Query'.left) + Len(Query'.found) = Len(Query.left) + Len(Query.found)
    PROVE  PInv'
<1>1. Sent' /\ Idle' /\ NothingMissed'
  BY DEF PInv, Sent, Idle, NothingMissed
<1>2. CASE task.at = "run"
  <2>1. OnTheWay' = OnTheWay
    BY <1>2 DEF OnTheWay
  <2>2. Uncounted' = Uncounted
    BY <1>2 DEF Uncounted, Busy
  <2>3. NoneLost'
    BY <2>1 DEF PInv, NoneLost
  <2>4. Announced'
    BY <1>2, <2>2 DEF PInv, Announced
  <2>. QED  BY <1>1, <2>3, <2>4 DEF PInv
<1>3. CASE task.at # "run"
  BY <1>1, <1>3 DEF PInv, NoneLost, Announced, Candidates, Needs, Embedding, LimitedTo
<1>. QED  BY <1>2, <1>3

LEMMA RowKeeps == ASSUME PInv, NEW t \in Tasks, Row(t) PROVE PInv'
<1>. DEFINE left == listing[t].left
            found == listing[t].found
            q == [left |-> Tail(left), found |-> Append(found, Head(left)), open |-> listing[t].open]
<1>1. /\ left # <<>> /\ UNCHANGED <<db, saved, task, source, ready, worker>>
      /\ listing' = [listing EXCEPT ![t].left = Tail(@), ![t].found = Append(@, Head(listing[t].left))]
  BY DEF Row
<1>2. listing \in [Tasks -> Listing] /\ listing[t] \in Listing
  BY DEF PInv, Types
<1>3. left \in Seq(Files) /\ found \in Seq(Files) /\ listing[t].open \in BOOLEAN
  BY <1>2 DEF Listing
<1>4. /\ \A u \in Tasks : listing'[u] = IF u = t THEN q ELSE listing[u]
      /\ listing' = [u \in Tasks |-> listing'[u]]
  <2>. DEFINE tail == Tail(left)
              more == Append(found, Head(left))
  <2>1. listing' = [listing EXCEPT ![t].left = tail, ![t].found = more]
    BY <1>1
  <2>. HIDE DEF tail, more
  <2>2. listing[t] = [left |-> left, found |-> found, open |-> listing[t].open]
    BY <1>2 DEF Listing
  <2>3. listing'[t] = [left |-> tail, found |-> more, open |-> listing[t].open]
    BY <1>2, <2>1, <2>2
  <2>4. /\ \A u \in Tasks : u # t => listing'[u] = listing[u]
        /\ listing' = [u \in Tasks |-> listing'[u]]
    BY <1>2, <2>1
  <2>. QED  BY <2>3, <2>4 DEF tail, more
<1>. HIDE DEF left, found
<1>5. /\ Head(left) \in Files /\ Tail(left) \in Seq(Files)
      /\ Len(Tail(left)) = Len(left) - 1 /\ Len(left) \in Nat /\ Len(left) >= 1
      /\ ToSet(left) = {Head(left)} \cup ToSet(Tail(left))
  BY ONLY <1>1, <1>3, TailElements, SMT
<1>6. /\ Append(found, Head(left)) \in Seq(Files)
      /\ Len(Append(found, Head(left))) = Len(found) + 1 /\ Len(found) \in Nat
      /\ ToSet(Append(found, Head(left))) = ToSet(found) \cup {Head(left)}
  BY ONLY <1>3, <1>5, AppendElements, SMT
<1>7. /\ q \in Listing /\ q.left = Tail(left) /\ q.found = Append(found, Head(left))
      /\ q.open = listing[t].open
  BY <1>3, <1>5, <1>6 DEF Listing
<1>. HIDE DEF q
<1>8. listing' \in [Tasks -> Listing]
  BY <1>2, <1>4, <1>7
<1>9. Types'
  BY <1>1, <1>8 DEF PInv, Types
<1>10. /\ ToSet(q.left) \cup ToSet(q.found) = ToSet(left) \cup ToSet(found)
       /\ Len(q.left) + Len(q.found) = Len(left) + Len(found)
  BY <1>5, <1>6, <1>7
<1>11. task.at = "run" => Query' = IF task.number = t THEN q ELSE Query
  BY <1>1, <1>4 DEF PInv, Types, Query
<1>12. Finished'
  <2>1. \A u \in Tasks : ~listing'[u].open => listing'[u].left = <<>>
    BY <1>1, <1>4, <1>7 DEF PInv, Finished, left
  <2>2. task.at = "run" /\ ~Stopped /\ ~source.open => task.number # t
    BY <1>1 DEF PInv, Finished, Query, left
  <2>. QED  BY <1>1, <1>11, <2>1, <2>2 DEF PInv, Finished, Stopped
<1>13. task.at = "run" /\ task.number = t => Query.left = left /\ Query.found = found
  BY DEF Query, left, found
<1>. QED  BY <1>1, <1>9, <1>10, <1>11, <1>12, <1>13, QueryKeeps

LEMMA ListedKeeps == ASSUME PInv, NEW t \in Tasks, Listed(t) PROVE PInv'
<1>1. /\ listing[t].left = <<>> /\ UNCHANGED <<db, saved, task, source, ready, worker>>
      /\ listing' = [listing EXCEPT ![t].open = FALSE]
  BY DEF Listed
<1>2. listing \in [Tasks -> Listing] /\ listing[t] \in Listing
  BY DEF PInv, Types
<1>3. /\ listing' \in [Tasks -> Listing]
      /\ \A u \in Tasks : listing'[u].left = listing[u].left /\ listing'[u].found = listing[u].found
      /\ \A u \in Tasks : u # t => listing'[u] = listing[u]
  BY <1>1, <1>2 DEF Listing
<1>4. Types'
  BY <1>1, <1>3 DEF PInv, Types
<1>5. task.at = "run" => Query'.left = Query.left /\ Query'.found = Query.found
  BY <1>1, <1>3 DEF PInv, Types, Query
<1>6. Finished'
  BY <1>1, <1>3, <1>5 DEF PInv, Finished, Stopped
<1>. QED  BY <1>1, <1>4, <1>5, <1>6, QueryKeeps

\* While the source is open the stage runs, and only a stopped worker is gone.
LEMMA SourceRuns ==
    ASSUME PInv, source.open
    PROVE  /\ task.at = "run" /\ task \in Task /\ task.number \in Tasks
           /\ Query \in Listing /\ Query.left \in Seq(Files) /\ Query.found \in Seq(Files)
           /\ source.batch \in Seq(Item) /\ source.loaded \in Seq(Item) /\ ready \in Seq(Item)
           /\ Stopped \/ \A w \in Workers : worker[w].at # "gone"
<1>1. task.at = "run" /\ Types
  BY DEF PInv, Idle
<1>2. task \in Task /\ task.number \in Tasks /\ Query \in Listing
  BY <1>1 DEF Types, Query
<1>3. Query.left \in Seq(Files) /\ Query.found \in Seq(Files)
  BY <1>2 DEF Listing
<1>. QED  BY <1>1, <1>2, <1>3 DEF PInv, Types, Finished

\* A step of the source that leaves it open.
LEMMA SourceKeeps ==
    ASSUME PInv, source.open, source'.open, UNCHANGED <<db, saved, task, worker>>,
           listing' \in [Tasks -> Listing],
           \A t \in Tasks : listing'[t].left = listing[t].left /\ listing'[t].open = listing[t].open,
           source' \in [open : BOOLEAN, batch : Seq(Item), loaded : Seq(Item)], ready' \in Seq(Item),
           ToSet(Query'.found) \cup FilesOf(source'.batch) \cup FilesOf(source'.loaded)
                   \cup FilesOf(ready')
               = ToSet(Query.found) \cup FilesOf(source.batch) \cup FilesOf(source.loaded)
                   \cup FilesOf(ready),
           Len(Query'.found) + Len(source'.batch) + Len(source'.loaded) + Len(ready')
               = Len(Query.found) + Len(source.batch) + Len(source.loaded) + Len(ready)
    PROVE  PInv'
<1>1. /\ task.at = "run" /\ task \in Task /\ task.number \in Tasks
      /\ Query.left \in Seq(Files) /\ Query.found \in Seq(Files)
      /\ source.batch \in Seq(Item) /\ source.loaded \in Seq(Item) /\ ready \in Seq(Item)
      /\ Stopped \/ \A w \in Workers : worker[w].at # "gone"
  BY SourceRuns
<1>2. Types' /\ Sent'
  BY <1>1 DEF PInv, Types, Sent
<1>3. Finished'
  BY <1>1 DEF PInv, Finished, Stopped
<1>4. Query'.left = Query.left /\ Query' \in Listing
  BY <1>1 DEF Query
<1>5. OnTheWay' = OnTheWay
  BY <1>4 DEF OnTheWay
<1>6. Uncounted' = Uncounted
  <2>. DEFINE a == Len(Query.left)
              b == Len(Query.found)
              c == Len(source.batch)
              d == Len(source.loaded)
              e == Len(ready)
              b1 == Len(Query'.found)
              c1 == Len(source'.batch)
              d1 == Len(source'.loaded)
              e1 == Len(ready')
              g == Cardinality(Busy)
  <2>1. a \in Nat /\ b \in Nat /\ c \in Nat /\ d \in Nat /\ e \in Nat
    BY <1>1
  <2>2. b1 \in Nat /\ c1 \in Nat /\ d1 \in Nat /\ e1 \in Nat
    BY <1>4 DEF Listing
  <2>3. g \in Nat /\ Busy' = Busy
    BY BusyCounted DEF PInv, Busy
  <2>4. Uncounted = a + b + c + d + e + g /\ Uncounted' = a + b1 + c1 + d1 + e1 + g
    BY <1>4, <2>3 DEF Uncounted
  <2>5. b1 + c1 + d1 + e1 = b + c + d + e
    OBVIOUS
  <2>. HIDE DEF a, b, c, d, e, b1, c1, d1, e1, g
  <2>. QED  BY <2>1, <2>2, <2>3, <2>4, <2>5
<1>7. task.done + Uncounted <= task.done + Uncounted
  <2>1. task.done \in Nat /\ Uncounted \in Nat
    BY <1>1, UncountedNat DEF PInv, Task
  <2>. QED  BY <2>1
<1>. QED  BY <1>1, <1>2, <1>3, <1>5, <1>6, <1>7, Conserves

\* A row that was listed is taken from the query's channel.
LEMMA RowTaken ==
    ASSUME PInv, source.open, Query.found # <<>>, TakeRow, UNCHANGED task
    PROVE  /\ listing' \in [Tasks -> Listing]
           /\ \A t \in Tasks : listing'[t].left = listing[t].left /\ listing'[t].open = listing[t].open
           /\ Head(Query.found) \in Files
           /\ ToSet(Query.found) = {Head(Query.found)} \cup ToSet(Query'.found)
           /\ Len(Query'.found) = Len(Query.found) - 1
           /\ Len(Query.found) \in Nat /\ Len(Query'.found) \in Nat
<1>. DEFINE found == Query.found
            tail == Tail(found)
<1>1. task.number \in Tasks /\ Query \in Listing /\ found \in Seq(Files)
      /\ listing \in [Tasks -> Listing]
  BY SourceRuns DEF PInv, Types
<1>2. listing' = [listing EXCEPT ![task.number].found = tail]
  BY DEF TakeRow, Query
<1>. HIDE DEF found
<1>3. /\ Head(found) \in Files /\ tail \in Seq(Files)
      /\ Len(tail) = Len(found) - 1 /\ Len(found) \in Nat /\ Len(found) >= 1
      /\ ToSet(found) = {Head(found)} \cup ToSet(tail)
  <2>1. found # <<>>
    BY DEF found
  <2>. QED  BY ONLY <1>1, <2>1, TailElements, SMT
<1>. HIDE DEF tail
<1>4. /\ listing' \in [Tasks -> Listing]
      /\ \A t \in Tasks : listing'[t].left = listing[t].left /\ listing'[t].open = listing[t].open
      /\ listing'[task.number].found = tail
  BY <1>1, <1>2, <1>3 DEF Listing
<1>5. Query'.found = tail
  BY <1>4 DEF Query
<1>6. Len(tail) \in Nat
  BY <1>3
<1>. QED  BY <1>3, <1>4, <1>5, <1>6 DEF found

LEMMA SourceKeepsInv == ASSUME PInv, Source PROVE PInv'
<1>1. CASE Forward
  <2>. DEFINE e == [file |-> Head(Query.found), missing |-> {}]
              more == Append(ready, e)
  <2>1. /\ source.open /\ Query.found # <<>> /\ ready' = more /\ TakeRow
        /\ UNCHANGED <<db, saved, task, source, worker>>
    BY <1>1 DEF Forward
  <2>2. /\ listing' \in [Tasks -> Listing]
        /\ \A t \in Tasks : listing'[t].left = listing[t].left /\ listing'[t].open = listing[t].open
        /\ Head(Query.found) \in Files
        /\ ToSet(Query.found) = {Head(Query.found)} \cup ToSet(Query'.found)
        /\ Len(Query'.found) = Len(Query.found) - 1
        /\ Len(Query.found) \in Nat /\ Len(Query'.found) \in Nat
    BY <2>1, RowTaken
  <2>3. e \in Item /\ e.file = Head(Query.found)
    BY <2>2 DEF Item
  <2>4. /\ ready \in Seq(Item) /\ source.batch \in Seq(Item) /\ source.loaded \in Seq(Item)
        /\ source \in [open : BOOLEAN, batch : Seq(Item), loaded : Seq(Item)]
    BY DEF PInv, Types
  <2>. HIDE DEF e
  <2>5. /\ more \in Seq(Item) /\ Len(more) = Len(ready) + 1 /\ Len(ready) \in Nat
        /\ FilesOf(more) = FilesOf(ready) \cup {e.file}
    BY ONLY <2>3, <2>4, ItemsAppended, SMT
  <2>. HIDE DEF more
  <2>6. Len(source.batch) \in Nat /\ Len(source.loaded) \in Nat
    BY <2>4
  <2>7. Len(Query'.found) + Len(source'.batch) + Len(source'.loaded) + Len(ready')
               = Len(Query.found) + Len(source.batch) + Len(source.loaded) + Len(ready)
    <3>1. /\ Len(Query'.found) = Len(Query.found) - 1 /\ Len(ready') = Len(ready) + 1
          /\ Len(source'.batch) = Len(source.batch) /\ Len(source'.loaded) = Len(source.loaded)
      BY <2>1, <2>2, <2>5, <2>6
    <3>2. /\ Len(Query.found) \in Nat /\ Len(source.batch) \in Nat
          /\ Len(source.loaded) \in Nat /\ Len(ready) \in Nat
      BY <2>1, <2>2, <2>5, <2>6
    <3>. DEFINE a == Len(Query.found)
                b == Len(source.batch)
                c == Len(source.loaded)
                d == Len(ready)
                a1 == Len(Query'.found)
                b1 == Len(source'.batch)
                c1 == Len(source'.loaded)
                d1 == Len(ready')
    <3>3. a \in Nat /\ b \in Nat /\ c \in Nat /\ d \in Nat
      BY <3>2
    <3>4. a1 = a - 1 /\ d1 = d + 1 /\ b1 = b /\ c1 = c
      BY <3>1
    <3>. HIDE DEF a, b, c, d, a1, b1, c1, d1
    <3>5. a1 + b1 + c1 + d1 = a + b + c + d
      BY <3>3, <3>4
    <3>. QED  BY <3>5 DEF a, b, c, d, a1, b1, c1, d1
  <2>8. ToSet(Query'.found) \cup FilesOf(source'.batch) \cup FilesOf(source'.loaded) \cup FilesOf(ready')
          = ToSet(Query.found) \cup FilesOf(source.batch) \cup FilesOf(source.loaded) \cup FilesOf(ready)
    BY <2>1, <2>2, <2>3, <2>5
  <2>9. ready' \in Seq(Item) /\ source'.open
        /\ source' \in [open : BOOLEAN, batch : Seq(Item), loaded : Seq(Item)]
    BY <2>1, <2>4, <2>5
  <2>. QED  BY <2>1, <2>2, <2>7, <2>8, <2>9, SourceKeeps
<1>2. CASE Collect
  <2>. DEFINE e == Entry(Head(Query.found))
              more == Append(source.batch, e)
  <2>1. /\ source.open /\ Query.found # <<>> /\ TakeRow
        /\ source' = [source EXCEPT !.batch = more]
        /\ UNCHANGED <<db, saved, task, ready, worker>>
    BY <1>2 DEF Collect
  <2>2. /\ listing' \in [Tasks -> Listing]
        /\ \A t \in Tasks : listing'[t].left = listing[t].left /\ listing'[t].open = listing[t].open
        /\ Head(Query.found) \in Files
        /\ ToSet(Query.found) = {Head(Query.found)} \cup ToSet(Query'.found)
        /\ Len(Query'.found) = Len(Query.found) - 1
        /\ Len(Query.found) \in Nat /\ Len(Query'.found) \in Nat
    BY <2>1, RowTaken
  <2>3. e \in Item /\ e.file = Head(Query.found)
    <3>1. Needs(task.stage) \subseteq Data
      BY DEF PInv, Types, Task, StageNames, Needs, Embedding, Data
    <3>. QED  BY <2>2, <3>1 DEF Item, Entry
  <2>4. /\ ready \in Seq(Item) /\ source.batch \in Seq(Item) /\ source.loaded \in Seq(Item)
        /\ source \in [open : BOOLEAN, batch : Seq(Item), loaded : Seq(Item)]
    BY DEF PInv, Types
  <2>. HIDE DEF e
  <2>5. /\ more \in Seq(Item) /\ Len(more) = Len(source.batch) + 1 /\ Len(source.batch) \in Nat
        /\ FilesOf(more) = FilesOf(source.batch) \cup {e.file}
    BY ONLY <2>3, <2>4, ItemsAppended, SMT
  <2>. HIDE DEF more
  <2>6. Len(ready) \in Nat /\ Len(source.loaded) \in Nat
    BY <2>4
  <2>7. /\ source' \in [open : BOOLEAN, batch : Seq(Item), loaded : Seq(Item)]
        /\ source'.open /\ source'.batch = more /\ source'.loaded = source.loaded
    BY <2>1, <2>4, <2>5
  <2>8. Len(Query'.found) + Len(source'.batch) + Len(source'.loaded) + Len(ready')
               = Len(Query.found) + Len(source.batch) + Len(source.loaded) + Len(ready)
    <3>1. /\ Len(Query'.found) = Len(Query.found) - 1 /\ Len(ready') = Len(ready)
          /\ Len(source'.batch) = Len(source.batch) + 1 /\ Len(source'.loaded) = Len(source.loaded)
      BY <2>1, <2>2, <2>5, <2>6, <2>7
    <3>2. /\ Len(Query.found) \in Nat /\ Len(source.batch) \in Nat
          /\ Len(source.loaded) \in Nat /\ Len(ready) \in Nat
      BY <2>1, <2>2, <2>5, <2>6, <2>7
    <3>. DEFINE a == Len(Query.found)
                b == Len(source.batch)
                c == Len(source.loaded)
                d == Len(ready)
                a1 == Len(Query'.found)
                b1 == Len(source'.batch)
                c1 == Len(source'.loaded)
                d1 == Len(ready')
    <3>3. a \in Nat /\ b \in Nat /\ c \in Nat /\ d \in Nat
      BY <3>2
    <3>4. a1 = a - 1 /\ b1 = b + 1 /\ c1 = c /\ d1 = d
      BY <3>1
    <3>. HIDE DEF a, b, c, d, a1, b1, c1, d1
    <3>5. a1 + b1 + c1 + d1 = a + b + c + d
      BY <3>3, <3>4
    <3>. QED  BY <3>5 DEF a, b, c, d, a1, b1, c1, d1
  <2>9. ToSet(Query'.found) \cup FilesOf(source'.batch) \cup FilesOf(source'.loaded) \cup FilesOf(ready')
          = ToSet(Query.found) \cup FilesOf(source.batch) \cup FilesOf(source.loaded) \cup FilesOf(ready)
    BY <2>1, <2>2, <2>3, <2>5, <2>7
  <2>10. ready' \in Seq(Item)
    BY <2>1, <2>4
  <2>. QED  BY <2>1, <2>2, <2>7, <2>8, <2>9, <2>10, SourceKeeps
<1>3. CASE GetBatch
  <2>1. /\ source.open /\ source.loaded = <<>>
        /\ source' = [source EXCEPT !.batch = <<>>, !.loaded = source.batch]
        /\ UNCHANGED <<db, saved, task, listing, ready, worker>>
    BY <1>3 DEF GetBatch
  <2>2. /\ ready \in Seq(Item) /\ source.batch \in Seq(Item) /\ listing \in [Tasks -> Listing]
        /\ source \in [open : BOOLEAN, batch : Seq(Item), loaded : Seq(Item)]
    BY DEF PInv, Types
  <2>3. Query'.found = Query.found
    BY <2>1 DEF Query
  <2>4. /\ source'.open /\ source'.batch = <<>> /\ source'.loaded = source.batch
        /\ source' \in [open : BOOLEAN, batch : Seq(Item), loaded : Seq(Item)]
    BY <2>1, <2>2
  <2>5. FilesOf(<<>>) = {} /\ Len(<<>>) = 0
    BY DEF FilesOf, ToSet
  <2>6. Len(source.batch) \in Nat /\ Len(Query.found) \in Nat /\ Len(ready) \in Nat
    BY <2>1, <2>2, SourceRuns
  <2>7. Len(Query'.found) + Len(source'.batch) + Len(source'.loaded) + Len(ready')
               = Len(Query.found) + Len(source.batch) + Len(source.loaded) + Len(ready)
    BY <2>1, <2>3, <2>4, <2>5, <2>6
  <2>8. ToSet(Query'.found) \cup FilesOf(source'.batch) \cup FilesOf(source'.loaded) \cup FilesOf(ready')
          = ToSet(Query.found) \cup FilesOf(source.batch) \cup FilesOf(source.loaded) \cup FilesOf(ready)
    BY <2>1, <2>3, <2>4, <2>5
  <2>. QED  BY <2>1, <2>2, <2>4, <2>7, <2>8, SourceKeeps
<1>4. CASE SendLoaded
  <2>. DEFINE e == Head(source.loaded)
              tail == Tail(source.loaded)
              more == Append(ready, e)
  <2>1. /\ source.open /\ source.loaded # <<>> /\ ready' = more
        /\ source' = [source EXCEPT !.loaded = tail]
        /\ UNCHANGED <<db, saved, task, listing, worker>>
    BY <1>4 DEF SendLoaded
  <2>2. /\ ready \in Seq(Item) /\ source.batch \in Seq(Item) /\ source.loaded \in Seq(Item)
        /\ source \in [open : BOOLEAN, batch : Seq(Item), loaded : Seq(Item)]
        /\ listing \in [Tasks -> Listing]
    BY DEF PInv, Types
  <2>3. /\ e \in Item /\ tail \in Seq(Item)
        /\ Len(tail) = Len(source.loaded) - 1 /\ Len(source.loaded) \in Nat /\ Len(source.loaded) >= 1
        /\ FilesOf(source.loaded) = {e.file} \cup FilesOf(tail)
    BY ONLY <2>1, <2>2, ItemsShortened, SMT
  <2>. HIDE DEF e, tail
  <2>4. /\ more \in Seq(Item) /\ Len(more) = Len(ready) + 1 /\ Len(ready) \in Nat
        /\ FilesOf(more) = FilesOf(ready) \cup {e.file}
    BY ONLY <2>2, <2>3, ItemsAppended, SMT
  <2>. HIDE DEF more
  <2>5. Query'.found = Query.found
    BY <2>1 DEF Query
  <2>6. /\ source'.open /\ source'.batch = source.batch /\ source'.loaded = tail
        /\ source' \in [open : BOOLEAN, batch : Seq(Item), loaded : Seq(Item)]
    BY <2>1, <2>2, <2>3
  <2>7. Len(source.batch) \in Nat /\ Len(Query.found) \in Nat
    BY <2>1, <2>2, SourceRuns
  <2>8. Len(Query'.found) + Len(source'.batch) + Len(source'.loaded) + Len(ready')
               = Len(Query.found) + Len(source.batch) + Len(source.loaded) + Len(ready)
    <3>1. /\ Len(Query'.found) = Len(Query.found) /\ Len(ready') = Len(ready) + 1
          /\ Len(source'.batch) = Len(source.batch) /\ Len(source'.loaded) = Len(source.loaded) - 1
      BY <2>1, <2>3, <2>4, <2>5, <2>6, <2>7
    <3>2. /\ Len(Query.found) \in Nat /\ Len(source.batch) \in Nat
          /\ Len(source.loaded) \in Nat /\ Len(ready) \in Nat
      BY <2>1, <2>3, <2>4, <2>5, <2>6, <2>7
    <3>. DEFINE a == Len(Query.found)
                b == Len(source.batch)
                c == Len(source.loaded)
                d == Len(ready)
                a1 == Len(Query'.found)
                b1 == Len(source'.batch)
                c1 == Len(source'.loaded)
                d1 == Len(ready')
    <3>3. a \in Nat /\ b \in Nat /\ c \in Nat /\ d \in Nat
      BY <3>2
    <3>4. a1 = a /\ c1 = c - 1 /\ d1 = d + 1 /\ b1 = b
      BY <3>1
    <3>. HIDE DEF a, b, c, d, a1, b1, c1, d1
    <3>5. a1 + b1 + c1 + d1 = a + b + c + d
      BY <3>3, <3>4
    <3>. QED  BY <3>5 DEF a, b, c, d, a1, b1, c1, d1
  <2>9. ToSet(Query'.found) \cup FilesOf(source'.batch) \cup FilesOf(source'.loaded) \cup FilesOf(ready')
          = ToSet(Query.found) \cup FilesOf(source.batch) \cup FilesOf(source.loaded) \cup FilesOf(ready)
    BY <2>1, <2>3, <2>4, <2>5, <2>6
  <2>10. ready' \in Seq(Item)
    BY <2>1, <2>4
  <2>. QED  BY <2>1, <2>2, <2>6, <2>8, <2>9, <2>10, SourceKeeps
<1>5. CASE SourceEnds
  <2>1. /\ source.open
        /\ \/ Exhausted /\ source.batch = <<>> /\ source.loaded = <<>>
           \/ Stopped
        /\ source' = [source EXCEPT !.open = FALSE]
        /\ UNCHANGED <<db, saved, task, listing, ready, worker>>
    BY <1>5 DEF SourceEnds
  <2>2. /\ task.at = "run" /\ task \in Task /\ task.number \in Tasks
        /\ Stopped \/ \A w \in Workers : worker[w].at # "gone"
    BY <2>1, SourceRuns
  <2>3. source \in [open : BOOLEAN, batch : Seq(Item), loaded : Seq(Item)]
    BY DEF PInv, Types
  <2>4. /\ source' \in [open : BOOLEAN, batch : Seq(Item), loaded : Seq(Item)]
        /\ source'.open = FALSE /\ source'.batch = source.batch /\ source'.loaded = source.loaded
    BY <2>1, <2>3
  <2>5. Query' = Query
    BY <2>1 DEF Query
  <2>6. Types' /\ Sent'
    BY <2>1, <2>4 DEF PInv, Types, Sent
  <2>7. Finished'
    <3>1. Exhausted => Query.left = <<>> /\ Query.found = <<>>
      BY <2>2 DEF PInv, Finished, Exhausted, Query
    <3>. QED  BY <2>1, <2>2, <2>4, <2>5, <3>1 DEF PInv, Finished, Stopped
  <2>8. OnTheWay' = OnTheWay /\ Uncounted' = Uncounted
    BY <2>1, <2>4, <2>5 DEF OnTheWay, Uncounted, Busy
  <2>9. task.done + Uncounted <= task.done + Uncounted
    <3>1. task.done \in Nat /\ Uncounted \in Nat
      BY <2>2, UncountedNat DEF PInv, Task
    <3>. QED  BY <3>1
  <2>. QED  BY <2>1, <2>2, <2>6, <2>7, <2>8, <2>9, Conserves
<1>. QED  BY <1>1, <1>2, <1>3, <1>4, <1>5 DEF Source

----------------------------------------------------------------------------
(* The workers.                                                            *)

LEMMA TakeKeeps == ASSUME PInv, NEW w \in Workers, Take(w) PROVE PInv'
<1>. DEFINE e == Head(ready)
            tail == Tail(ready)
<1>1. /\ worker[w].at = "take" /\ ready # <<>> /\ ready' = tail
      /\ worker' = [worker EXCEPT ![w] = [at |-> "process", file |-> e.file, missing |-> e.missing]]
      /\ task' = [task EXCEPT !.tried = @ \cup {e.file}]
      /\ UNCHANGED <<db, saved, listing, source>>
  BY DEF Take
<1>2. task.at = "run"
  BY <1>1 DEF PInv, Idle
<1>3. /\ task \in Task /\ task.number \in Tasks /\ ready \in Seq(Item)
      /\ worker \in [Workers -> [at : WorkerLabels, file : Nat, missing : SUBSET Data]]
  BY <1>2 DEF PInv, Types
<1>4. /\ e \in Item /\ tail \in Seq(Item)
      /\ Len(tail) = Len(ready) - 1 /\ Len(ready) \in Nat /\ Len(ready) >= 1
      /\ FilesOf(ready) = {e.file} \cup FilesOf(tail)
  BY ONLY <1>1, <1>3, ItemsShortened, SMT
<1>. HIDE DEF e, tail
<1>5. e.file \in Files /\ e.file \in Nat /\ e.missing \in SUBSET Data
  BY <1>4, StagesAssumption DEF Item
<1>6. /\ task' \in Task /\ task'.at = "run" /\ task'.number = task.number
      /\ task'.listed = task.listed /\ task'.total = task.total /\ task'.done = task.done
      /\ task'.stopped = task.stopped /\ task'.tried = task.tried \cup {e.file}
  <2>. DEFINE tried == task.tried \cup {e.file}
  <2>1. task' = [task EXCEPT !.tried = tried]
    BY <1>1
  <2>2. tried \in SUBSET Files
    BY <1>3, <1>5 DEF Task
  <2>. HIDE DEF tried
  <2>3. /\ task' \in Task /\ task'.at = task.at /\ task'.number = task.number
        /\ task'.listed = task.listed /\ task'.total = task.total /\ task'.done = task.done
        /\ task'.stopped = task.stopped /\ task'.tried = tried
    BY <1>3, <2>1, <2>2 DEF Task
  <2>. QED  BY <1>2, <2>3 DEF tried
<1>7. /\ worker' \in [Workers -> [at : WorkerLabels, file : Nat, missing : SUBSET Data]]
      /\ \A v \in Workers : worker'[v].at = IF v = w THEN "process" ELSE worker[v].at
  BY <1>1, <1>3, <1>5 DEF WorkerLabels
<1>8. Types' /\ Sent'
  BY <1>1, <1>4, <1>6, <1>7 DEF PInv, Types, Sent
<1>9. Query' = Query
  BY <1>1, <1>6 DEF Query
<1>10. Finished'
  BY <1>1, <1>2, <1>6, <1>7, <1>9 DEF PInv, Finished, Stopped
<1>11. task'.tried \cup OnTheWay' = task.tried \cup OnTheWay
  BY <1>1, <1>4, <1>6, <1>9 DEF OnTheWay
<1>12. task'.done + Uncounted' <= task.done + Uncounted
  <2>1. Cardinality(Busy') = Cardinality(Busy) + 1
    <3>1. "process" \in WorkerLabels /\ w \notin Busy
      BY <1>1 DEF WorkerLabels, Busy
    <3>. QED  BY <1>7, <3>1, BusyMoves DEF PInv
  <2>. DEFINE a == Len(Query.left)
              b == Len(Query.found)
              c == Len(source.batch)
              d == Len(source.loaded)
              r == Len(ready)
              g == Cardinality(Busy)
  <2>2. a \in Nat /\ b \in Nat /\ c \in Nat /\ d \in Nat
    BY <1>3 DEF PInv, Types, Query, Listing
  <2>3. r \in Nat /\ g \in Nat /\ Len(ready') = r - 1
    BY <1>1, <1>4, BusyCounted DEF PInv
  <2>4. Uncounted = a + b + c + d + r + g /\ Uncounted' = a + b + c + d + (r - 1) + (g + 1)
    BY <1>1, <1>9, <2>1, <2>3 DEF Uncounted
  <2>. HIDE DEF a, b, c, d, r, g
  <2>5. Uncounted' = Uncounted /\ Uncounted \in Nat
    BY <2>2, <2>3, <2>4
  <2>6. task.done \in Nat /\ task'.done = task.done
    BY <1>3, <1>6 DEF Task
  <2>. QED  BY <2>5, <2>6
<1>. QED  BY <1>2, <1>6, <1>8, <1>10, <1>11, <1>12, Conserves

LEMMA ExhaustKeeps == ASSUME PInv, NEW w \in Workers, Exhaust(w) PROVE PInv'
<1>1. /\ worker[w].at = "take" /\ ready = <<>> /\ ~source.open
      /\ worker' = [worker EXCEPT ![w].at = "gone"]
      /\ UNCHANGED <<db, saved, task, listing, source, ready>>
  BY DEF Exhaust
<1>2. task.at = "run"
  BY <1>1 DEF PInv, Idle
<1>3. /\ task \in Task /\ task.number \in Tasks
      /\ worker \in [Workers -> [at : WorkerLabels, file : Nat, missing : SUBSET Data]]
  BY <1>2 DEF PInv, Types
<1>4. /\ worker' \in [Workers -> [at : WorkerLabels, file : Nat, missing : SUBSET Data]]
      /\ \A v \in Workers : worker'[v].at = IF v = w THEN "gone" ELSE worker[v].at
  BY <1>1, <1>3 DEF WorkerLabels
<1>5. Types' /\ Sent'
  BY <1>1, <1>4 DEF PInv, Types, Sent
<1>6. Query' = Query
  BY <1>1 DEF Query
<1>7. Finished'
  BY <1>1, <1>4, <1>6 DEF PInv, Finished, Stopped
<1>8. Cardinality(Busy') = Cardinality(Busy)
  <2>1. Busy' = Busy
    BY <1>1, <1>4 DEF Busy
  <2>. QED  BY <2>1
<1>9. OnTheWay' = OnTheWay /\ Uncounted' = Uncounted
  BY <1>1, <1>6, <1>8 DEF OnTheWay, Uncounted
<1>10. task.done + Uncounted <= task.done + Uncounted
  <2>1. task.done \in Nat /\ Uncounted \in Nat
    BY <1>3, UncountedNat DEF PInv, Task
  <2>. QED  BY <2>1
<1>. QED  BY <1>1, <1>2, <1>5, <1>7, <1>9, <1>10, Conserves

\* A worker that has a file writes what it found, if anything, and goes on: it
\* counts the file once, when it lets go of it.
LEMMA WorkerGoes ==
    ASSUME PInv, NEW w \in Busy, NEW label \in {"take", "count", "gone"},
           GoesTo(w, label), UNCHANGED <<saved, listing, source, ready>>,
           label = "gone" => Stopped,
           UNCHANGED task \/ (Counted /\ label # "count"),
           UNCHANGED db \/ \E data : Wrote(w, data)
    PROVE  PInv'
<1>1. w \in Workers /\ worker[w].at \in {"process", "count"}
  BY DEF Busy
<1>2. task.at = "run"
  BY <1>1 DEF PInv, Idle
<1>3. /\ task \in Task /\ task.number \in Tasks /\ task.done \in Nat
      /\ worker \in [Workers -> [at : WorkerLabels, file : Nat, missing : SUBSET Data]]
  BY <1>2 DEF PInv, Types, Task
<1>4. /\ worker' \in [Workers -> [at : WorkerLabels, file : Nat, missing : SUBSET Data]]
      /\ \A v \in Workers : worker'[v].at = IF v = w THEN label ELSE worker[v].at
  BY <1>1, <1>3 DEF WorkerLabels, GoesTo
<1>5. /\ task' \in Task /\ task'.at = "run" /\ task'.number = task.number
      /\ task'.listed = task.listed /\ task'.total = task.total /\ task'.tried = task.tried
      /\ task'.stopped = task.stopped
      /\ task'.done = task.done \/ (task'.done = task.done + 1 /\ label # "count")
  BY <1>2, <1>3 DEF Counted, Task
<1>6. Sent'
  <2>1. UNCHANGED db \/ \E data : Wrote(w, data)
    OBVIOUS
  <2>2. CASE UNCHANGED db
    BY <2>2 DEF PInv, Sent
  <2>3. ASSUME NEW data, Wrote(w, data) PROVE Sent'
    BY <2>3 DEF PInv, Sent, Wrote
  <2>. QED  BY <2>1, <2>2, <2>3
<1>7. Types'
  BY <1>3, <1>4, <1>5 DEF PInv, Types
<1>8. Query' = Query
  BY <1>5 DEF Query
<1>9. Finished'
  BY <1>2, <1>4, <1>5, <1>8 DEF PInv, Finished, Stopped
<1>10. OnTheWay' = OnTheWay
  BY <1>8 DEF OnTheWay
<1>11. task'.done + Uncounted' <= task.done + Uncounted
  <2>. DEFINE n == Len(Query.left) + Len(Query.found) + Len(source.batch) + Len(source.loaded) + Len(ready)
              g == Cardinality(Busy)
  <2>1. label \in WorkerLabels /\ "count" \in {"process", "count"}
        /\ (label # "count" => label \notin {"process", "count"})
    BY DEF WorkerLabels
  <2>2. Cardinality(Busy') = IF label = "count" THEN g ELSE g - 1
    BY <1>1, <1>4, <2>1, BusyMoves DEF PInv
  <2>3. g \in Nat
    BY BusyCounted DEF PInv
  <2>4. n \in Nat
    <3>1. /\ Len(Query.left) \in Nat /\ Len(Query.found) \in Nat
          /\ Len(source.batch) \in Nat /\ Len(source.loaded) \in Nat /\ Len(ready) \in Nat
      BY <1>3 DEF PInv, Types, Query, Listing
    <3>2. \A a, b, c, d, e \in Nat : a + b + c + d + e \in Nat
      OBVIOUS
    <3>. QED  BY <3>1, <3>2, Zenon
  <2>5. Uncounted = n + g /\ Uncounted' = n + Cardinality(Busy')
    BY <1>8 DEF Uncounted
  <2>. HIDE DEF n, g
  <2>. QED  BY <1>3, <1>5, <2>2, <2>3, <2>4, <2>5
<1>. QED  BY <1>2, <1>5, <1>6, <1>7, <1>9, <1>10, <1>11, Conserves

LEMMA WorkKeeps == ASSUME PInv, NEW w \in Workers, Work(w) PROVE PInv'
<1>1. CASE Take(w)
  BY <1>1, TakeKeeps
<1>2. CASE Exhaust(w)
  BY <1>2, ExhaustKeeps
<1>3. CASE ExtractMetadata(w)
  <2>1. w \in Busy
    BY <1>3 DEF ExtractMetadata, Processes, Busy
  <2>. QED  BY <1>3, <2>1, WorkerGoes DEF ExtractMetadata
<1>4. CASE LoadThumbnail(w)
  <2>1. w \in Busy
    BY <1>4 DEF LoadThumbnail, Processes, Busy
  <2>. QED  BY <1>4, <2>1, WorkerGoes DEF LoadThumbnail, ExtractContents
<1>5. CASE GenerateThumbnail(w)
  <2>1. w \in Busy
    BY <1>5 DEF GenerateThumbnail, Processes, Busy
  <2>. QED  BY <1>5, <2>1, WorkerGoes DEF GenerateThumbnail, ExtractContents
<1>6. CASE GenerateFails(w) \/ SkipFaces(w) \/ DetectFaces(w) \/ FacesNotAvailable(w)
  <2>1. w \in Busy
    BY <1>6 DEF GenerateFails, SkipFaces, DetectFaces, FacesNotAvailable, Processes, Busy
  <2>. QED  BY <1>6, <2>1, WorkerGoes DEF GenerateFails, SkipFaces, DetectFaces, FacesNotAvailable
<1>7. CASE Count(w)
  <2>1. w \in Busy
    BY <1>7 DEF Count, Busy
  <2>. QED  BY <1>7, <2>1, WorkerGoes DEF Count
<1>. QED  BY <1>1, <1>2, <1>3, <1>4, <1>5, <1>6, <1>7 DEF Work

----------------------------------------------------------------------------
(* The theorem.                                                            *)

LEMMA PInvNext == ASSUME Workers # {}, PInv, [Next]_vars PROVE PInv'
<1>1. CASE UNCHANGED vars \/ FacesRetried \/ ((StoreWriter \/ Flush) /\ UNCHANGED stageVars) \/ CloseStore
  BY <1>1, OthersKeep DEF vars, stageVars, FacesRetried, CloseStore
<1>2. CASE \E s \in StageNames, force \in BOOLEAN, limit \in Limits : Start(s, force, limit)
  BY <1>2, StartKeeps
<1>3. CASE List \/ Stop \/ End \/ Source \/ Commit
  BY <1>3, ListKeeps, StopKeeps, EndKeeps, SourceKeepsInv, CommitKeeps
<1>4. CASE \E t \in Tasks : Row(t) \/ Listed(t)
  BY <1>4, RowKeeps, ListedKeeps
<1>5. CASE \E w \in Workers : Work(w)
  BY <1>5, WorkKeeps
<1>. QED  BY <1>1, <1>2, <1>3, <1>4, <1>5 DEF Next

\* NothingMissed: a stage that was not stopped has tried every file it listed,
\* through the batches, the channels and the workers, and it never counts more
\* files than it announced.  A stage has workers: with none of them configured
\* it would end at once.
THEOREM NoFileMissed == ASSUME Workers # {} PROVE Spec => []NothingMissed
<1>1. PInv /\ [Next]_vars => PInv'
  BY PInvNext
<1>2. PInv => NothingMissed
  BY DEF PInv
<1>. QED  BY <1>1, <1>2, PInvInit, PTL DEF Spec
=============================================================================
