------------------------------ MODULE FileScan ------------------------------
(***************************************************************************)
(* The files stage, RunFiles and walkFiles of                              *)
(* internal/image/pipeline/files.go, as a client of the index database:    *)
(* it walks a task's directories, adds a row for every file it meets,      *)
(* deletes the rows of the files it did not meet and marks the directory   *)
(* as indexed, while files come and go and the task may be stopped.        *)
(*                                                                         *)
(* The walk is godirwalk's: it visits every file that is there during the  *)
(* whole walk, no file that never is, and may visit or miss the others.    *)
(* A directory that cannot be read has no files.                           *)
(***************************************************************************)
EXTENDS Database

CONSTANTS
    Scanner,        \* the goroutine that runs the task
    TaskDirs,       \* t.Dirs
    Under,          \* the files below a directory: a function on Dirs
    Matches,        \* the files whose prefix is LIKE 'dir%': another one
    Limits,         \* values of t.MaxPhotos, 0 for no limit
    Thumbnailed,    \* files that have a thumbnail when they have a row
    MayStop,        \* whether the task's context may be cancelled
    MaxScans,       \* bound: scans started
    MaxChanges      \* bound: files created or removed

ASSUME FileScanAssumption ==
    /\ Scanner \in Clients
    /\ TaskDirs \in Seq(Dirs) \ {<<>>}
    /\ Under \in [Dirs -> SUBSET Files]
    /\ Matches \in [Dirs -> SUBSET Files]
    /\ \A d \in Dirs : Under[d] \subseteq Matches[d]
    /\ Thumbnailed \subseteq Files
    /\ Limits \subseteq Nat /\ MaxScans \in Nat /\ MaxChanges \in Nat
    /\ MayStop \in BOOLEAN

VARIABLES
    pc,             \* where RunFiles is
    maxPhotos,      \* the task's limit
    pos,            \* the position in TaskDirs of the directory it scans
    path,           \* {} or the file it has received
    walked,         \* the files the walker has handed over
    indexed,        \* RunFiles' set of files
    stale,          \* the rest of ListNonexistent's result
    thumbnails,     \* the files the thumbnail store has committed thumbnails of
    thumbDeletes,   \* deletions sent to the store, not committed yet
    stopped,        \* whether the task's context is cancelled
    disk,           \* the files there are
    kept,           \* history: the files that have been there since the
                    \* scan of the directory began
    seen,           \* history: the files that have been there at some time
    scans, changes  \* bounds

taskVars == <<maxPhotos, scans>>
scanVars == <<pc, pos, path, walked, indexed, stale, thumbnails, thumbDeletes>>
diskVars == <<disk, kept, seen>>
vars == <<dbVars, scanVars, diskVars, stopped, taskVars, changes>>

Dir == TaskDirs[pos]

Init ==
    /\ \E rows \in SUBSET Files : InitDatabase(rows) /\ thumbnails = rows \cap Thumbnailed
    /\ disk \in SUBSET Files
    /\ kept = {} /\ seen = {}
    /\ pc = "idle"
    /\ pos = 0
    /\ path = {}
    /\ walked = {}
    /\ indexed = {}
    /\ stale = {} /\ thumbDeletes = {}
    /\ stopped = FALSE
    /\ maxPhotos = 0
    /\ scans = 0 /\ changes = 0

----------------------------------------------------------------------------
(* The world: files come and go, and StopTask cancels the context.         *)

Change ==
    /\ changes < MaxChanges
    /\ changes' = changes + 1
    /\ \E f \in Files :
          disk' = IF f \in disk THEN disk \ {f} ELSE disk \cup {f}
    /\ kept' = kept \cap disk'
    /\ seen' = seen \cup disk'
    /\ UNCHANGED <<dbVars, scanVars, stopped, taskVars>>

Stop ==
    /\ MayStop
    /\ pc # "idle"
    /\ stopped' = TRUE
    /\ UNCHANGED <<dbVars, scanVars, diskVars, taskVars, changes>>

----------------------------------------------------------------------------
(* RunFiles.                                                               *)

\* The next directory of the task, or the end of it.
NextDir ==
    IF pos < Len(TaskDirs)
    THEN /\ pos' = pos + 1
         /\ pc' = "walk"
         /\ walked' = {} /\ indexed' = {}
         /\ kept' = disk /\ seen' = disk
    ELSE /\ pc' = "idle"
         /\ UNCHANGED <<pos, walked, indexed, kept, seen>>

\* processTask starts a task whose context is its own.
Start ==
    /\ pc = "idle"
    /\ scans < MaxScans
    /\ scans' = scans + 1
    /\ maxPhotos' \in Limits
    /\ stopped' = FALSE
    /\ pos' = 1
    /\ pc' = "walk"
    /\ walked' = {} /\ indexed' = {}
    /\ kept' = disk /\ seen' = disk
    /\ UNCHANGED <<dbVars, path, stale, thumbnails, thumbDeletes, disk, changes>>

LimitReached == maxPhotos > 0 /\ Cardinality(walked) >= maxPhotos
Unvisited == (seen \cap Under[Dir]) \ walked

\* The walker hands a file over, even when the context is cancelled: its
\* select may take either case.
WalkFile ==
    /\ pc = "walk"
    /\ ~LimitReached
    /\ \E f \in Unvisited : path' = {f} /\ walked' = walked \cup {f}
    /\ pc' = "check"
    /\ UNCHANGED <<dbVars, diskVars, pos, indexed, stale, thumbnails, thumbDeletes, stopped,
                   taskVars, changes>>

\* The walker closes its channel: it has visited everything, reached the limit,
\* or found the context cancelled when it had a file to hand over.
WalkEnds ==
    /\ pc = "walk"
    /\ \/ kept \cap Under[Dir] \subseteq walked
       \/ LimitReached
       \/ stopped /\ Unvisited # {}
    /\ pc' = "barrier"
    /\ UNCHANGED <<dbVars, diskVars, pos, path, walked, indexed, stale, thumbnails, thumbDeletes,
                   stopped, taskVars, changes>>

\* A file has been received: the context is checked first.
Check ==
    /\ pc = "check"
    /\ pc' = IF stopped THEN "idle" ELSE "write"
    /\ path' = IF stopped THEN {} ELSE path
    /\ UNCHANGED <<dbVars, diskVars, pos, walked, indexed, stale, thumbnails, thumbDeletes,
                   stopped, taskVars, changes>>

\* Faulty variant: a file that has a row already is skipped.
WriteNewOnly ==
    /\ pc = "write"
    /\ \E f \in path :
          IF f \in saved.rows
          THEN UNCHANGED <<pending, indexed>>
          ELSE Send([type |-> "append", file |-> f]) /\ indexed' = indexed \cup {f}
    /\ path' = {}
    /\ pc' = "walk"
    /\ UNCHANGED <<locked, flushing, db, saved, barriers, answered, compaction,
                   compactors, diskVars, pos, walked, stale, thumbnails, thumbDeletes, stopped,
                   taskVars, changes>>

Write ==
    /\ pc = "write"
    /\ \E f \in path :
          /\ Send([type |-> "append", file |-> f])
          /\ indexed' = indexed \cup {f}
    /\ path' = {}
    /\ pc' = "walk"
    /\ UNCHANGED <<locked, flushing, db, saved, barriers, answered, compaction,
                   compactors, diskVars, pos, walked, stale, thumbnails, thumbDeletes, stopped,
                   taskVars, changes>>

\* What the sends below leave alone.
SendOnly ==
    UNCHANGED <<locked, flushing, db, saved, barriers, answered, compaction,
                compactors, diskVars, pos, path, walked, indexed, stopped,
                taskVars, changes>>

\* CommitBarrier: before the listing, and at the end of the directory.
SendBarrier ==
    /\ pc \in {"barrier", "sync"}
    /\ Send([type |-> "barrier", from |-> Scanner])
    /\ pc' = IF pc = "barrier" THEN "committing" ELSE "syncing"
    /\ UNCHANGED <<stale, thumbnails, thumbDeletes>>
    /\ SendOnly

\* ... and the receive from it.  ListNonexistent then waits for the writer to
\* release the transaction's mutex.
Committed ==
    /\ pc = "committing"
    /\ Scanner \in answered
    /\ answered' = answered \ {Scanner}
    /\ pc' = "wait"
    /\ UNCHANGED <<pending, locked, flushing, db, saved, barriers, compaction, compactors,
                   diskVars, pos, path, walked, indexed, stale, thumbnails, thumbDeletes, stopped,
                   taskVars, changes>>

WaitForCommit ==
    /\ pc = "wait"
    /\ Unlocked
    /\ pc' = "list"
    /\ UNCHANGED <<dbVars, diskVars, pos, path, walked, indexed, stale, thumbnails, thumbDeletes,
                   stopped, taskVars, changes>>

ListIdPaths == saved.rows \cap Matches[Dir]

\* The rows whose path matches the directory and is not in the set.
ListNonexistent ==
    /\ pc = "list"
    /\ stale' = ListIdPaths \ indexed
    /\ pc' = "delete"
    /\ UNCHANGED <<dbVars, diskVars, pos, path, walked, indexed, thumbnails, thumbDeletes, stopped,
                   taskVars, changes>>

\* The row's deletion goes to the writer, the thumbnail's, if there is one, to the
\* thumbnail store.
Delete ==
    /\ pc = "delete"
    /\ \E f \in stale :
          /\ Send([type |-> "delete", file |-> f])
          /\ stale' = stale \ {f}
          /\ thumbDeletes' = thumbDeletes \cup ({f} \cap thumbnails)
    /\ UNCHANGED <<pc, thumbnails>>
    /\ SendOnly

\* Faulty variant: the directory's second barrier is left out.
SetIndexedUnsynced ==
    /\ pc = "delete" /\ stale = {}
    /\ Send([type |-> "index", dir |-> Dir])
    /\ NextDir
    /\ UNCHANGED <<locked, flushing, db, saved, barriers, answered, compaction,
                   compactors, path, stale, thumbnails, thumbDeletes, disk, stopped, taskVars, changes>>

SetIndexed ==
    /\ pc = "delete" /\ stale = {}
    /\ Send([type |-> "index", dir |-> Dir])
    /\ pc' = "sync"
    /\ UNCHANGED <<stale, thumbnails, thumbDeletes>>
    /\ SendOnly

Synced ==
    /\ pc = "syncing"
    /\ Scanner \in answered
    /\ answered' = answered \ {Scanner}
    /\ NextDir
    /\ UNCHANGED <<pending, locked, flushing, db, saved, barriers, compaction, compactors,
                   path, stale, thumbnails, thumbDeletes, disk, stopped, taskVars, changes>>

----------------------------------------------------------------------------
(* The thumbnail store's goroutine: it executes the deletions sent to it   *)
(* and commits some of them at a time.  Nobody waits for that.  Deletions  *)
(* of different files commute, so their order in its channel is left out;  *)
(* so is its capacity of 100, since the goroutine waits for nobody.        *)

CommitThumbDeletes ==
    /\ \E done \in (SUBSET thumbDeletes) \ {{}} :
          /\ thumbnails' = thumbnails \ done
          /\ thumbDeletes' = thumbDeletes \ done
    /\ UNCHANGED <<dbVars, pc, pos, path, walked, indexed, stale, diskVars, stopped,
                   taskVars, changes>>

----------------------------------------------------------------------------
Scan ==
    \/ WalkFile \/ WalkEnds \/ Check \/ Write
    \/ SendBarrier \/ Committed \/ WaitForCommit \/ ListNonexistent
    \/ Delete \/ SetIndexed \/ Synced

WriterStep == Writer /\ UNCHANGED <<scanVars, diskVars, stopped, taskVars, changes>>

Next == Start \/ Scan \/ Change \/ Stop \/ WriterStep \/ CommitThumbDeletes

Spec == Init /\ [][Next]_vars

\* The scanning goroutine and the writer run; nobody is obliged to start a scan.
\* The ticker's case of the writer's select is not starved by the other one,
\* since select picks a ready case at random.
Fairness ==
    /\ WF_vars(Scan)
    /\ WF_dbVars(Handle)
    /\ SF_dbVars(Tick)
    /\ WF_dbVars(Unlock)

FairSpec == Spec /\ Fairness

----------------------------------------------------------------------------
(* Properties.                                                             *)

\* The writer, the scan and the files hold well-formed state.
TypeOK ==
    /\ Len(pending) <= Capacity
    /\ \A i \in DOMAIN pending : pending[i].type \in {"append", "delete", "index", "barrier"}
    /\ locked \in BOOLEAN /\ flushing \in BOOLEAN
    /\ \A d \in {db, saved} : d.rows \subseteq Files /\ d.indexed \subseteq Dirs
    /\ barriers \cup answered \subseteq {Scanner}
    /\ pc \in {"idle", "walk", "check", "write", "barrier", "committing", "wait",
               "list", "delete", "sync", "syncing"}
    /\ pos \in 0..Len(TaskDirs)
    /\ maxPhotos \in Limits \cup {0}
    /\ path \subseteq walked
    /\ walked \cup indexed \cup stale \cup thumbnails \cup thumbDeletes \cup disk \subseteq Files
    /\ kept \subseteq disk
    /\ scans > 0 => disk \subseteq seen

\* A commit barrier is answered only when every write sent before it is
\* committed, whatever the ticker and the channel's capacity: RunFiles, the only
\* sender here, finds nothing left to write.
AnsweredMeansSaved ==
    Scanner \in answered => pending = <<>> /\ saved = db

\* "New files are added, missing files are removed, and the directory is marked
\* as indexed": when RunFiles leaves a directory, readers see a row for every
\* file that stayed (unless the scan was stopped or limited), no row of a file
\* that never was there, no thumbnail without a row but those whose deletion is
\* on its way to the thumbnail store, and the directory as indexed.
Complete == ~stopped /\ ~LimitReached
Reconciled ==
    /\ Complete => kept \cap Under[Dir] \subseteq saved.rows
    /\ saved.rows \cap Under[Dir] \subseteq seen
    /\ thumbnails \cap Under[Dir] \subseteq saved.rows \cup thumbDeletes
    /\ Dir \in saved.indexed
ScanReconciles ==
    [][ pc \notin {"idle", "check"} /\ (pc' = "idle" \/ pos' # pos) => Reconciled ]_vars

\* "Missing files are removed", and only those: a file that has been there since
\* the scan of the directory began, below it or elsewhere, does not lose its row.
KeepsExisting ==
    [][ (saved.rows \ saved'.rows) \cap kept = {} ]_vars

\* The same of a scan that runs to its end: not stopped, and within its limit.
CompleteScanKeeps ==
    [][ Complete => (saved.rows \ saved'.rows) \cap kept = {} ]_vars

\* Every scan ends, stopped or not: the writer's ticker answers its barriers and
\* makes room in the channel.
ScanEnds == (pc # "idle") ~> (pc = "idle")
=============================================================================
