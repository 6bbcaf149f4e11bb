------------------------------ MODULE Database ------------------------------
(***************************************************************************)
(* The index database: internal/image/database.go.  One writer goroutine   *)
(* (writePendingInfosSqlite) owns a connection, takes writes off the       *)
(* pending channel and commits them on a ticker; everybody else reads the  *)
(* committed state through a connection pool, so what a reader sees is     *)
(* saved and what the writer sees is db.                                   *)
(*                                                                         *)
(* This module has the writer's actions and the operators its clients send *)
(* with; FileScan and Tagging add the clients.  A file stands for its path *)
(* and its row id, which are one-to-one as long as a deleted file is not   *)
(* added again.                                                            *)
(***************************************************************************)
EXTENDS Naturals, Sequences, Bags, FiniteSets

CONSTANTS
    Files,          \* image ids
    Dirs,           \* indexed directories
    Tags,           \* tag names
    Clients,        \* goroutines that wait for the writer
    Capacity,       \* of the pending channel: 10000 in the code
    Keep,           \* versions of a tag that are never pruned: 10 in the code
    Failing         \* types of writes whose first SQL statement may fail
                    \* (a deletion goes on with the next statement)

Types == {"append", "delete", "index", "barrier", "addTag", "addTagId",
          "addTagIds", "removeTagIds", "invertTagIds", "compact"}

ASSUME DatabaseAssumption ==
    /\ Files \subseteq Nat /\ IsFiniteSet(Files)
    /\ Capacity \in Nat \ {0}
    /\ Keep \in Nat \ {0}
    /\ Failing \subseteq Types \ {"barrier", "delete"}

VARIABLES
    pending,        \* the channel of writes
    locked,         \* inTransaction, and transactionMutex held by the writer
    flushing,       \* committed, but the mutex is not released yet
    db,             \* the database inside the writer's transaction
    saved,          \* the committed database
    barriers,       \* clients whose commit barrier the writer has received
    answered,       \* clients whose Done channel is closed
    compaction,     \* pendingCompactionTags
    compactors      \* goroutines of CompactTag that have yet to send

dbVars == <<pending, locked, flushing, db, saved, barriers, answered,
            compaction, compactors>>

(***************************************************************************)
(* The tables: rows is infos, indexed is dirs, tags is tag, where a tag    *)
(* version's id is its position, and ranges is infos_tag.                  *)
(***************************************************************************)
Contents(rows) == [rows |-> rows, indexed |-> {}, tags |-> <<>>, ranges |-> {}]

InitDatabase(rows) ==
    /\ pending = <<>>
    /\ locked = FALSE
    /\ flushing = FALSE
    /\ db = Contents(rows)
    /\ saved = db
    /\ barriers = {}
    /\ answered = {}
    /\ compaction = {}
    /\ compactors = EmptyBag

Covers(r, f) == r.low <= f /\ f <= r.high

\* getTagImageIds
ImageIds(d, v) == {f \in Files : \E r \in d.ranges : r.version = v /\ Covers(r, f)}

\* GetTagByName, GetTagId, getTagId
Active(d, name) ==
    {v \in DOMAIN d.tags : d.tags[v].name = name /\ d.tags[v].status = "active"}

\* The maximal runs of a set of ids, as a range tree lists them.
Runs(v, ids) ==
    {[version |-> v, low |-> run[1], high |-> run[2]] :
        run \in {p \in ids \X ids :
            /\ p[1] <= p[2]
            /\ p[1]..p[2] \subseteq ids
            /\ p[1] - 1 \notin ids
            /\ p[2] + 1 \notin ids}}

\* insertTag
TagAdded(d, name) ==
    [d EXCEPT !.tags = Append(@, [name |-> name, status |-> "active"])]

\* addTagVersion, deleteOldTags (which of the versions beyond the last Keep it
\* deletes depends on their dates: pruned), deactivateTags, cleanUpTagRanges
\* and the new version's ranges.
Prunable(d, name) ==
    {v \in DOMAIN d.tags :
        /\ d.tags[v].name = name
        /\ d.tags[v].status # "gone"
        /\ Cardinality({w \in DOMAIN d.tags : w > v /\ d.tags[w].name = name}) + 1 >= Keep}

\* Faulty variant: the older versions stay active.
VersionAddedOnly(d, name, ids, pruned) ==
    LET new == Len(d.tags) + 1
    IN  [TagAdded(d, name) EXCEPT !.ranges = @ \cup Runs(new, ids)]

\* Faulty variant: the ranges of pruned versions are left behind.
VersionAddedUncleaned(d, name, ids, pruned) ==
    LET new == Len(d.tags) + 1
        Status(v) == IF v \in pruned THEN "gone"
                     ELSE IF d.tags[v].name = name THEN "old" ELSE d.tags[v].status
        older == [v \in DOMAIN d.tags |-> [d.tags[v] EXCEPT !.status = Status(v)]]
    IN  [d EXCEPT !.tags = Append(older, [name |-> name, status |-> "active"]),
                  !.ranges = @ \cup Runs(new, ids)]

VersionAdded(d, name, ids, pruned) ==
    LET new == Len(d.tags) + 1
        Status(v) == IF v \in pruned THEN "gone"
                     ELSE IF d.tags[v].name = name /\ d.tags[v].status # "gone" THEN "old"
                     ELSE d.tags[v].status
        older == [v \in DOMAIN d.tags |-> [d.tags[v] EXCEPT !.status = Status(v)]]
    IN  [d EXCEPT !.tags = Append(older, [name |-> name, status |-> "active"]),
                  !.ranges = {r \in @ : r.version \notin pruned} \cup Runs(new, ids)]

\* Faulty variant: what follows the deleted file in a range is lost.
SplitBelow(r, f) == {s \in {[r EXCEPT !.high = f - 1]} : s.low <= s.high}

\* A range without one of its files.
Split(r, f) ==
    {s \in {[r EXCEPT !.high = f - 1], [r EXCEPT !.low = f + 1]} : s.low <= s.high}

\* The ranges to split are read through the pool: committed ones.
Deleted(d, committed, f) ==
    LET hit == {r \in committed.ranges : Covers(r, f)}
    IN  [d EXCEPT !.rows = @ \ {f},
                  !.ranges = (@ \ hit) \cup UNION {Split(r, f) : r \in hit}]

----------------------------------------------------------------------------
(* Clients.                                                                *)

CanSend == Len(pending) < Capacity
Send(w) == CanSend /\ pending' = Append(pending, w)

\* WaitForCommit takes the read lock and releases it.
Unlocked == ~locked

----------------------------------------------------------------------------
(* The writer.  Receive(types) is the head of the loop, which opens a      *)
(* transaction unless there is one.                                        *)

Receive(types) ==
    /\ ~flushing
    /\ pending # <<>>
    /\ Head(pending).type \in types
    /\ pending' = Tail(pending)
    /\ locked' = TRUE
    /\ UNCHANGED flushing

\* AppendPath: INSERT OR IGNORE
HandleAppend ==
    /\ Receive({"append"})
    /\ db' = [db EXCEPT !.rows = @ \cup {Head(pending).file}]
    /\ UNCHANGED <<saved, barriers, answered, compaction, compactors>>

HandleDelete ==
    /\ Receive({"delete"})
    /\ db' = Deleted(db, saved, Head(pending).file)
    /\ UNCHANGED <<saved, barriers, answered, compaction, compactors>>

HandleIndex ==
    /\ Receive({"index"})
    /\ db' = [db EXCEPT !.indexed = @ \cup {Head(pending).dir}]
    /\ UNCHANGED <<saved, barriers, answered, compaction, compactors>>

\* Faulty variant: the barrier is closed as soon as it is received.
HandleBarrierAtOnce ==
    /\ Receive({"barrier"})
    /\ answered' = answered \cup {Head(pending).from}
    /\ UNCHANGED <<db, saved, barriers, compaction, compactors>>

HandleBarrier ==
    /\ Receive({"barrier"})
    /\ barriers' = barriers \cup {Head(pending).from}
    /\ UNCHANGED <<db, saved, answered, compaction, compactors>>

\* Faulty variant: a tag that is there already is not answered for.
HandleAddTagNewOnly ==
    /\ Receive({"addTag"})
    /\ LET w == Head(pending)
       IN  IF Active(db, w.tag) = {}
           THEN db' = TagAdded(db, w.tag) /\ answered' = answered \cup {w.from}
           ELSE UNCHANGED <<db, answered>>
    /\ UNCHANGED <<saved, barriers, compaction, compactors>>

\* AddTag
HandleAddTag ==
    /\ Receive({"addTag"})
    /\ LET w == Head(pending)
       IN  /\ db' = IF Active(db, w.tag) = {} THEN TagAdded(db, w.tag) ELSE db
           /\ answered' = answered \cup {w.from}
    /\ UNCHANGED <<saved, barriers, compaction, compactors>>

\* AddTagId: the range is added to the active version in place, to be merged
\* with the others later.
HandleAddTagId ==
    /\ Receive({"addTagId"})
    /\ LET w == Head(pending)
           d == IF Active(db, w.tag) = {} THEN TagAdded(db, w.tag) ELSE db
       IN  \E v \in Active(d, w.tag) :
              /\ db' = [d EXCEPT !.ranges = @ \cup {[version |-> v, low |-> w.file, high |-> w.file]}]
              /\ compaction' = compaction \cup {v}
    /\ UNCHANGED <<saved, barriers, answered, compactors>>

\* The ids of the version given by the caller, changed as it asks.
Changed(w) ==
    LET ids == ImageIds(db, w.version)
    IN  CASE w.type = "addTagIds"    -> ids \cup w.files
          [] w.type = "removeTagIds" -> ids \ w.files
          [] w.type = "invertTagIds" -> (ids \ w.files) \cup (w.files \ ids)
          [] w.type = "compact"      -> ids

\* Clients that wait for the answer to w; a compaction's goroutine ends there.
Waiting(w) == IF w.type = "compact" THEN {} ELSE {w.from}

\* Faulty variant: the answer is sent before the transaction is committed.
HandleTagIdsUncommitted ==
    /\ Receive({"addTagIds", "removeTagIds", "invertTagIds", "compact"})
    /\ LET w == Head(pending)
       IN  /\ db.tags[w.version].status # "gone"
           /\ \E pruned \in SUBSET Prunable(db, db.tags[w.version].name) :
                 db' = VersionAdded(db, db.tags[w.version].name, Changed(w), pruned)
           /\ answered' = answered \cup Waiting(w)
    /\ UNCHANGED <<saved, barriers, compaction, compactors>>

\* AddTagIds, RemoveTagIds, InvertTagIds and CompactTagIds: a new version of the
\* tag, committed at once (commitRestart), then the answer.
HandleTagIds ==
    /\ Receive({"addTagIds", "removeTagIds", "invertTagIds", "compact"})
    /\ LET w == Head(pending)
       IN  /\ db.tags[w.version].status # "gone"
           /\ \E pruned \in SUBSET Prunable(db, db.tags[w.version].name) :
                 db' = VersionAdded(db, db.tags[w.version].name, Changed(w), pruned)
           /\ saved' = db'
           /\ answered' = answered \cup barriers \cup Waiting(w)
           /\ barriers' = {}
    /\ UNCHANGED <<compaction, compactors>>

\* The version given by the caller has been pruned: nothing is returned by
\* addTagVersion, and nobody is answered.
HandleGone ==
    /\ Receive({"addTagIds", "removeTagIds", "invertTagIds", "compact"})
    /\ db.tags[Head(pending).version].status = "gone"
    /\ UNCHANGED <<db, saved, barriers, answered, compaction, compactors>>

\* The SQL statement fails: the error is logged and nobody is answered.
HandleFails ==
    /\ Receive(Failing)
    /\ UNCHANGED <<db, saved, barriers, answered, compaction, compactors>>

\* The ticker: pending compactions are started first, and the commit waits for
\* a later tick.
StartCompaction ==
    /\ locked /\ ~flushing
    /\ compaction # {}
    /\ compactors' = compactors (+) SetToBag(compaction)
    /\ compaction' = {}
    /\ UNCHANGED <<pending, locked, flushing, db, saved, barriers, answered>>

\* Faulty variant: the barriers are kept for another commit.
CommitOnly ==
    /\ locked /\ ~flushing
    /\ compaction = {}
    /\ saved' = db
    /\ flushing' = TRUE
    /\ UNCHANGED <<pending, locked, db, barriers, answered, compaction, compactors>>

Commit ==
    /\ locked /\ ~flushing
    /\ compaction = {}
    /\ saved' = db
    /\ answered' = answered \cup barriers
    /\ barriers' = {}
    /\ flushing' = TRUE
    /\ UNCHANGED <<pending, locked, db, compaction, compactors>>

Unlock ==
    /\ flushing
    /\ flushing' = FALSE
    /\ locked' = FALSE
    /\ UNCHANGED <<pending, db, saved, barriers, answered, compaction, compactors>>

\* The goroutine of CompactTag.
SendCompaction ==
    \E v \in BagToSet(compactors) :
        /\ Send([type |-> "compact", version |-> v])
        /\ compactors' = compactors (-) SetToBag({v})
        /\ UNCHANGED <<locked, flushing, db, saved, barriers, answered, compaction>>

Handle ==
    \/ HandleAppend \/ HandleDelete \/ HandleIndex \/ HandleBarrier
    \/ HandleAddTag \/ HandleAddTagId \/ HandleTagIds \/ HandleGone \/ HandleFails
Tick == StartCompaction \/ Commit
Writer == Handle \/ Tick \/ Unlock \/ SendCompaction
=============================================================================
