--------------------------- MODULE FileScanProofs ---------------------------
(***************************************************************************)
(* Proofs about the file scan and the index database's writer, for any     *)
(* files, directories, limits and capacity of the channel: a commit        *)
(* barrier means saved, and a scan reconciles the rows with the files.     *)
(***************************************************************************)
EXTENDS FileScan, SequenceLemmas

----------------------------------------------------------------------------
(* The inductive invariant.                                                *)

\* What the scan sends, and the tables it fills: it has no tags.
Writes ==
    [type : {"append", "delete"}, file : Files] \cup [type : {"index"}, dir : Dirs]
        \cup [type : {"barrier"}, from : {Scanner}]
Tables == [rows : SUBSET Files, indexed : SUBSET Dirs, tags : {<<>>}, ranges : {{}}]

Stored ==
    /\ pending \in Seq(Writes)
    /\ db \in Tables /\ saved \in Tables
    /\ compaction = {} /\ compactors = EmptyBag

\* What the writes on their way are about.
OfType(type) == {w \in ToSet(pending) : w.type = type}
Appends == {w.file : w \in OfType("append")}
Deletes == {w.file : w \in OfType("delete")}
Indexes == {w.dir : w \in OfType("index")}

\* The scan waits for one barrier at a time, which is the last of its writes.
Waits == pc \in {"committing", "syncing"}
Barriers ==
    /\ answered # {} => Waits /\ pending = <<>> /\ barriers = {} /\ saved = db
    /\ barriers # {} => Waits /\ pending = <<>>
    /\ \A i \in 1..Len(pending) : pending[i].type = "barrier" =>
          Waits /\ i = Len(pending) /\ barriers = {} /\ answered = {}

\* A file that was walked is indexed, or on its way from the walker.
Scanned ==
    /\ scans \in Nat
    /\ pc # "idle" =>
          pos \in 1..Len(TaskDirs) /\ walked = indexed \cup path /\ walked \subseteq seen /\ scans > 0
    /\ IF pc \in {"check", "write"} THEN \E f \in Files : path = {f} ELSE path = {}

\* The scan adds rows first, then lists what is committed, then removes.
Walking == pc \in {"idle", "walk", "check", "write", "barrier", "committing"}
Removing == pc \in {"delete", "sync", "syncing"}
Phases ==
    /\ Walking => Deletes = {} /\ Indexes = {}
    /\ pc \in {"wait", "list"} => pending = <<>> /\ saved = db
    /\ Removing => Appends = {}
    /\ pc \in {"sync", "syncing"} => stale = {}

\* A walk that ended by itself has met every file that stayed.
Walked == pc \in {"barrier", "committing", "wait", "list", "delete", "sync", "syncing"}
WalkedAll == Walked /\ Complete => kept \cap Under[Dir] \subseteq walked

SInv == TypeOK /\ Stored /\ Barriers /\ Scanned /\ Phases /\ WalkedAll

\* No row of an indexed file, or of one whose thumbnail stays, is lost, and what is
\* not indexed is removed.
RowsKept ==
    /\ thumbnails \ thumbDeletes \subseteq db.rows
    /\ (thumbnails \ thumbDeletes) \cap Deletes = {}
    /\ indexed \subseteq db.rows \cup Appends
    /\ Removing => /\ indexed \cap (stale \cup Deletes) = {}
                   /\ db.rows \cap Under[Dir] \subseteq indexed \cup stale \cup Deletes
    /\ pc \in {"sync", "syncing"} => Dir \in db.indexed \cup Indexes

\* A complete scan removes no row of a file that is there.
NoneRemoved ==
    /\ Walking => saved.rows \subseteq db.rows
    /\ Removing /\ Complete => kept \cap ((saved.rows \ db.rows) \cup stale \cup Deletes) = {}

----------------------------------------------------------------------------
(* Writes that are sent and received.                                      *)

LEMMA WriteSent ==
    ASSUME pending \in Seq(Writes), NEW w \in Writes, Send(w)
    PROVE  /\ pending' \in Seq(Writes) /\ Len(pending') = Len(pending) + 1 /\ Len(pending') <= Capacity
           /\ pending'[Len(pending')] = w
           /\ \A i \in 1..Len(pending) : pending'[i] = pending[i]
           /\ Appends' = Appends \cup (IF w.type = "append" THEN {w.file} ELSE {})
           /\ Deletes' = Deletes \cup (IF w.type = "delete" THEN {w.file} ELSE {})
           /\ Indexes' = Indexes \cup (IF w.type = "index" THEN {w.dir} ELSE {})
<1>1. pending' = Append(pending, w) /\ Len(pending) < Capacity /\ Capacity \in Nat
  BY DatabaseAssumption DEF Send, CanSend
<1>2. /\ pending' \in Seq(Writes) /\ Len(pending') = Len(pending) + 1 /\ Len(pending) \in Nat
      /\ ToSet(pending') = ToSet(pending) \cup {w}
  BY ONLY <1>1, pending \in Seq(Writes), w \in Writes, AppendElements, SMT
<1>3. pending'[Len(pending')] = w /\ \A i \in 1..Len(pending) : pending'[i] = pending[i]
  BY <1>1, <1>2
<1>4. \A type : OfType(type)' = OfType(type) \cup (IF w.type = type THEN {w} ELSE {})
  BY <1>2 DEF OfType
<1>5. Appends' = Appends \cup (IF w.type = "append" THEN {w.file} ELSE {})
  BY <1>4 DEF Appends
<1>6. Deletes' = Deletes \cup (IF w.type = "delete" THEN {w.file} ELSE {})
  BY <1>4 DEF Deletes
<1>7. Indexes' = Indexes \cup (IF w.type = "index" THEN {w.dir} ELSE {})
  BY <1>4 DEF Indexes
<1>. QED  BY <1>1, <1>2, <1>3, <1>5, <1>6, <1>7

LEMMA WriteReceived ==
    ASSUME pending \in Seq(Writes), NEW types, Receive(types), NEW w, w = Head(pending)
    PROVE  /\ w \in Writes /\ w.type \in types /\ w = pending[1] /\ pending # <<>>
           /\ pending' \in Seq(Writes) /\ Len(pending') = Len(pending) - 1 /\ Len(pending) \in Nat
           /\ 1 \in 1..Len(pending)
           /\ \A i \in 1..Len(pending') : i + 1 \in 1..Len(pending) /\ pending'[i] = pending[i + 1]
           /\ Appends = Appends' \cup (IF w.type = "append" THEN {w.file} ELSE {})
           /\ Deletes = Deletes' \cup (IF w.type = "delete" THEN {w.file} ELSE {})
           /\ Indexes = Indexes' \cup (IF w.type = "index" THEN {w.dir} ELSE {})
<1>1. pending # <<>> /\ pending' = Tail(pending) /\ w.type \in types
  BY DEF Receive
<1>2. /\ w \in Writes /\ pending' \in Seq(Writes)
      /\ Len(pending') = Len(pending) - 1 /\ Len(pending) \in Nat /\ Len(pending) >= 1
      /\ ToSet(pending) = {w} \cup ToSet(pending')
  BY ONLY <1>1, pending \in Seq(Writes), w = Head(pending), TailElements, SMT
<1>3. /\ w = pending[1]
      /\ \A i \in 1..Len(pending') : i + 1 \in 1..Len(pending) /\ pending'[i] = pending[i + 1]
  BY <1>1, <1>2
<1>4. \A type : OfType(type) = OfType(type)' \cup (IF w.type = type THEN {w} ELSE {})
  BY <1>2 DEF OfType
<1>5. Appends = Appends' \cup (IF w.type = "append" THEN {w.file} ELSE {})
  BY <1>4 DEF Appends
<1>6. Deletes = Deletes' \cup (IF w.type = "delete" THEN {w.file} ELSE {})
  BY <1>4 DEF Deletes
<1>7. Indexes = Indexes' \cup (IF w.type = "index" THEN {w.dir} ELSE {})
  BY <1>4 DEF Indexes
<1>8. 1 \in 1..Len(pending)
  BY <1>2
<1>. QED  BY <1>1, <1>2, <1>3, <1>5, <1>6, <1>7, <1>8

\* With no writes on their way.
LEMMA NonePending == pending = <<>> => Appends = {} /\ Deletes = {} /\ Indexes = {} /\ Len(pending) = 0
  BY DEF Appends, Deletes, Indexes, OfType, ToSet

\* The step changes no write.
LEMMA PendingKept ==
    UNCHANGED pending => Appends' = Appends /\ Deletes' = Deletes /\ Indexes' = Indexes
  BY DEF Appends, Deletes, Indexes, OfType

\* The types of the writes, as TypeOK states them.
LEMMA WriteTypes ==
    ASSUME pending \in Seq(Writes)
    PROVE  \A i \in DOMAIN pending : pending[i].type \in {"append", "delete", "index", "barrier"}
<1>1. \A i \in DOMAIN pending : pending[i] \in Writes
  OBVIOUS
<1>. QED  BY <1>1 DEF Writes

----------------------------------------------------------------------------
(* The writer.                                                             *)

\* Only five kinds of its steps are possible: the scan has no tags.
LEMMA WriterSteps ==
    ASSUME SInv, Writer
    PROVE  HandleAppend \/ HandleDelete \/ HandleIndex \/ HandleBarrier \/ HandleFails \/ Commit \/ Unlock
<1>1. ~HandleAddTag /\ ~HandleAddTagId /\ ~HandleTagIds /\ ~HandleGone
  <2>1. \A w \in Writes : w.type \notin {"addTag", "addTagId", "addTagIds", "removeTagIds", "invertTagIds",
                                         "compact"}
    BY DEF Writes
  <2>2. \A types : Receive(types) => Head(pending) \in Writes /\ Head(pending).type \in types
    BY DEF SInv, Stored, Receive
  <2>. QED  BY <2>1, <2>2 DEF HandleAddTag, HandleAddTagId, HandleTagIds, HandleGone
<1>2. ~StartCompaction
  BY DEF SInv, Stored, StartCompaction
<1>3. ~SendCompaction
  <2>1. BagToSet(EmptyBag) = {}
    BY DEF BagToSet, EmptyBag, SetToBag
  <2>. QED  BY <2>1 DEF SInv, Stored, SendCompaction
<1>. QED  BY <1>1, <1>2, <1>3 DEF Writer, Handle, Tick

\* What it does to the tables.
LEMMA AppendDb ==
    ASSUME db \in Tables, NEW f \in Files
    PROVE  LET d == [db EXCEPT !.rows = @ \cup {f}]
           IN  d \in Tables /\ d.rows = db.rows \cup {f} /\ d.indexed = db.indexed
  BY DEF Tables

LEMMA IndexDb ==
    ASSUME db \in Tables, NEW dir \in Dirs
    PROVE  LET d == [db EXCEPT !.indexed = @ \cup {dir}]
           IN  d \in Tables /\ d.rows = db.rows /\ d.indexed = db.indexed \cup {dir}
  BY DEF Tables

LEMMA DeleteDb ==
    ASSUME db \in Tables, saved \in Tables, NEW f \in Files
    PROVE  LET d == Deleted(db, saved, f)
           IN  d \in Tables /\ d.rows = db.rows \ {f} /\ d.indexed = db.indexed
<1>. DEFINE rows == db.rows \ {f}
            hit == {r \in saved.ranges : Covers(r, f)}
            rest == (db.ranges \ hit) \cup UNION {Split(r, f) : r \in hit}
<1>1. rest = {} /\ rows \in SUBSET Files
  BY DEF Tables
<1>2. Deleted(db, saved, f) = [db EXCEPT !.rows = rows, !.ranges = rest]
  BY DEF Deleted
<1>. HIDE DEF rows, hit, rest
<1>3. /\ Deleted(db, saved, f) \in Tables /\ Deleted(db, saved, f).rows = rows
      /\ Deleted(db, saved, f).indexed = db.indexed
  BY <1>1, <1>2 DEF Tables
<1>. QED  BY <1>3 DEF rows

\* What a write does when the writer takes it: only that, or nothing if it fails.
Others == <<scanVars, diskVars, stopped, taskVars, changes>>
LEMMA HandleDoes ==
    ASSUME SInv, NEW w, w = Head(pending),
           HandleAppend \/ HandleDelete \/ HandleIndex \/ HandleBarrier \/ HandleFails
    PROVE  /\ Receive({w.type}) /\ w \in Writes
           /\ db' \in Tables /\ UNCHANGED <<saved, answered, compaction, compactors>>
           /\ \/ w.type = "append" /\ db'.rows = db.rows \cup {w.file} /\ db'.indexed = db.indexed
              \/ w.type = "delete" /\ db'.rows = db.rows \ {w.file} /\ db'.indexed = db.indexed
              \/ w.type = "index" /\ db'.rows = db.rows /\ db'.indexed = db.indexed \cup {w.dir}
              \/ w.type \in {"barrier"} \cup Failing /\ UNCHANGED db
           /\ UNCHANGED barriers \/ (w.type = "barrier" /\ barriers' = {Scanner})
<1>1. pending \in Seq(Writes) /\ db \in Tables /\ saved \in Tables /\ barriers \subseteq {Scanner}
  BY DEF SInv, Stored, TypeOK
<1>2. \A types : Receive(types) => Receive({w.type}) /\ w \in Writes /\ w.type \in types
  BY <1>1 DEF Receive
<1>3. /\ \A v \in Writes : v.type \in {"append", "delete"} => v.file \in Files
      /\ \A v \in Writes : v.type = "index" => v.dir \in Dirs
      /\ \A v \in Writes : v.type = "barrier" => v.from = Scanner
  BY DEF Writes
<1>4. CASE HandleAppend
  <2>1. /\ Receive({"append"}) /\ db' = [db EXCEPT !.rows = @ \cup {w.file}]
        /\ UNCHANGED <<saved, barriers, answered, compaction, compactors>>
    BY <1>4 DEF HandleAppend
  <2>2. w.type = "append" /\ w \in Writes /\ w.file \in Files
    BY <1>2, <1>3, <2>1
  <2>. QED  BY <1>1, <2>1, <2>2, AppendDb
<1>5. CASE HandleDelete
  <2>1. /\ Receive({"delete"}) /\ db' = Deleted(db, saved, w.file)
        /\ UNCHANGED <<saved, barriers, answered, compaction, compactors>>
    BY <1>5 DEF HandleDelete
  <2>2. w.type = "delete" /\ w \in Writes /\ w.file \in Files
    BY <1>2, <1>3, <2>1
  <2>. QED  BY <1>1, <2>1, <2>2, DeleteDb
<1>6. CASE HandleIndex
  <2>1. /\ Receive({"index"}) /\ db' = [db EXCEPT !.indexed = @ \cup {w.dir}]
        /\ UNCHANGED <<saved, barriers, answered, compaction, compactors>>
    BY <1>6 DEF HandleIndex
  <2>2. w.type = "index" /\ w \in Writes /\ w.dir \in Dirs
    BY <1>2, <1>3, <2>1
  <2>. QED  BY <1>1, <2>1, <2>2, IndexDb
<1>7. CASE HandleBarrier
  <2>1. /\ Receive({"barrier"}) /\ barriers' = barriers \cup {w.from}
        /\ UNCHANGED <<db, saved, answered, compaction, compactors>>
    BY <1>7 DEF HandleBarrier
  <2>2. Receive({w.type}) /\ w \in Writes /\ w.type = "barrier" /\ w.from = Scanner
    BY <1>2, <1>3, <2>1
  <2>3. barriers' = {Scanner}
    BY <1>1, <2>1, <2>2
  <2>. QED  BY <1>1, <2>1, <2>2, <2>3
<1>8. CASE HandleFails
  <2>1. /\ Receive(Failing) /\ UNCHANGED db
        /\ UNCHANGED <<saved, barriers, answered, compaction, compactors>>
    BY <1>8 DEF HandleFails
  <2>2. Receive({w.type}) /\ w \in Writes /\ w.type \in Failing
    BY <1>2, <2>1
  <2>. QED  BY <1>1, <2>1, <2>2
<1>. QED  BY <1>4, <1>5, <1>6, <1>7, <1>8

\* The parts that a step of the writer leaves alone.
LEMMA WalkKept ==
    ASSUME SInv, UNCHANGED Others PROVE Scanned' /\ WalkedAll'
  BY DEF SInv, Scanned, WalkedAll, Walked, Complete, LimitReached, Dir, Others, scanVars, diskVars, taskVars

LEMMA HandleKeeps ==
    ASSUME SInv, UNCHANGED Others,
           HandleAppend \/ HandleDelete \/ HandleIndex \/ HandleBarrier \/ HandleFails
    PROVE  SInv'
<1>. DEFINE w == Head(pending)
<1>1. /\ Receive({w.type}) /\ w \in Writes
      /\ db' \in Tables /\ UNCHANGED <<saved, answered, compaction, compactors>>
      /\ UNCHANGED barriers \/ (w.type = "barrier" /\ barriers' = {Scanner})
  BY HandleDoes
<1>2. /\ pending \in Seq(Writes) /\ saved \in Tables /\ compaction = {} /\ compactors = EmptyBag
      /\ barriers \cup answered \subseteq {Scanner} /\ Len(pending) <= Capacity /\ locked \in BOOLEAN
      /\ flushing \in BOOLEAN
  BY DEF SInv, Stored, TypeOK
<1>3. /\ w = pending[1] /\ pending # <<>>
      /\ pending' \in Seq(Writes) /\ Len(pending') = Len(pending) - 1 /\ Len(pending) \in Nat
      /\ 1 \in 1..Len(pending)
      /\ \A i \in 1..Len(pending') : i + 1 \in 1..Len(pending) /\ pending'[i] = pending[i + 1]
      /\ Appends' \subseteq Appends /\ Deletes' \subseteq Deletes /\ Indexes' \subseteq Indexes
  BY <1>1, <1>2, WriteReceived
<1>. HIDE DEF w
<1>4. locked' = TRUE /\ flushing' = flushing
  BY <1>1 DEF Receive
<1>5. Stored'
  BY <1>1, <1>2, <1>3 DEF Stored
<1>6. TypeOK'
  <2>1. /\ \A i \in DOMAIN pending' : pending'[i].type \in {"append", "delete", "index", "barrier"}
        /\ Len(pending') <= Capacity
    <3>1. \A i \in DOMAIN pending' : pending'[i] \in Writes
      BY <1>3
    <3>2. Capacity \in Nat
      BY DatabaseAssumption
    <3>. QED  BY <1>2, <1>3, <3>1, <3>2 DEF Writes
  <2>2. \A d \in {db', saved'} : d.rows \subseteq Files /\ d.indexed \subseteq Dirs
    BY <1>1, <1>2 DEF Tables
  <2>3. barriers' \cup answered' \subseteq {Scanner}
    BY <1>1, <1>2
  <2>4. locked' \in BOOLEAN /\ flushing' \in BOOLEAN
    BY <1>2, <1>4
  <2>. QED  BY <2>1, <2>2, <2>3, <2>4 DEF SInv, TypeOK, Others, scanVars, diskVars, taskVars
<1>7. barriers = {} /\ answered = {}
  BY <1>3 DEF SInv, Barriers
<1>8. Barriers'
  <2>1. \A i \in 1..Len(pending) : pending[i].type = "barrier" => Waits /\ i = Len(pending)
    BY DEF SInv, Barriers
  <2>2. CASE w.type = "barrier"
    <3>1. Len(pending) = 1 /\ Waits
      BY <1>3, <2>1, <2>2
    <3>2. pending' = <<>> /\ 1..Len(pending') = {}
      BY <1>3, <3>1
    <3>. QED  BY <1>1, <1>7, <3>1, <3>2 DEF Barriers, Waits, Others, scanVars
  <2>3. CASE w.type # "barrier"
    <3>1. barriers' = {} /\ answered' = {}
      BY <1>1, <1>7, <2>3
    <3>2. ASSUME NEW i \in 1..Len(pending'), pending'[i].type = "barrier"
          PROVE  Waits' /\ i = Len(pending')
      <4>1. i + 1 \in 1..Len(pending) /\ pending[i + 1].type = "barrier"
        BY <1>3, <3>2
      <4>2. Waits /\ i + 1 = Len(pending)
        BY <2>1, <4>1
      <4>3. i \in Int
        OBVIOUS
      <4>. QED  BY <1>3, <4>2, <4>3 DEF Waits, Others, scanVars
    <3>. QED  BY <3>1, <3>2 DEF Barriers
  <2>. QED  BY <2>2, <2>3
<1>9. Phases'
  BY <1>3 DEF SInv, Phases, Walking, Removing, Others, scanVars
<1>. QED  BY <1>5, <1>6, <1>8, <1>9, WalkKept DEF SInv

\* A commit answers the barrier only when all the writes before it are in the
\* transaction.
LEMMA CommitScanKeeps == ASSUME SInv, UNCHANGED Others, Commit PROVE SInv'
<1>1. /\ saved' = db /\ answered' = answered \cup barriers /\ barriers' = {} /\ flushing' = TRUE
      /\ UNCHANGED <<pending, locked, db, compaction, compactors>>
  BY DEF Commit
<1>2. Stored' /\ TypeOK'
  BY <1>1 DEF SInv, Stored, TypeOK, Others, scanVars, diskVars, taskVars
<1>3. Barriers'
  BY <1>1 DEF SInv, Barriers, Waits, Others, scanVars
<1>4. Phases'
  BY <1>1, PendingKept DEF SInv, Phases, Walking, Removing, Others, scanVars
<1>. QED  BY <1>2, <1>3, <1>4, WalkKept DEF SInv

LEMMA UnlockKeeps == ASSUME SInv, UNCHANGED Others, Unlock PROVE SInv'
<1>1. /\ flushing' = FALSE /\ locked' = FALSE
      /\ UNCHANGED <<pending, db, saved, barriers, answered, compaction, compactors>>
  BY DEF Unlock
<1>2. Stored' /\ TypeOK'
  BY <1>1 DEF SInv, Stored, TypeOK, Others, scanVars, diskVars, taskVars
<1>3. Barriers'
  BY <1>1 DEF SInv, Barriers, Waits, Others, scanVars
<1>4. Phases'
  BY <1>1, PendingKept DEF SInv, Phases, Walking, Removing, Others, scanVars
<1>. QED  BY <1>2, <1>3, <1>4, WalkKept DEF SInv

----------------------------------------------------------------------------
(* The scan.                                                               *)

\* What TypeOK says of the writer and of the scan.
DbTypes ==
    /\ Len(pending) <= Capacity
    /\ \A i \in DOMAIN pending : pending[i].type \in {"append", "delete", "index", "barrier"}
    /\ locked \in BOOLEAN /\ flushing \in BOOLEAN
    /\ \A d \in {db, saved} : d.rows \subseteq Files /\ d.indexed \subseteq Dirs
    /\ barriers \cup answered \subseteq {Scanner}
Steps == {"idle", "walk", "check", "write", "barrier", "committing", "wait", "list", "delete", "sync", "syncing"}
ScanTypes ==
    /\ pc \in Steps
    /\ pos \in 0..Len(TaskDirs)
    /\ maxPhotos \in Limits \cup {0}
    /\ path \subseteq walked
    /\ walked \cup indexed \cup stale \cup thumbnails \cup thumbDeletes \cup disk \subseteq Files
    /\ kept \subseteq disk
    /\ scans > 0 => disk \subseteq seen

LEMMA TypeParts == TypeOK <=> DbTypes /\ ScanTypes
  BY DEF TypeOK, DbTypes, ScanTypes, Steps

\* The directories of a task, and the one that is scanned.
LEMMA Directories ==
    /\ TaskDirs \in Seq(Dirs) /\ Len(TaskDirs) \in Nat /\ 1 \in 1..Len(TaskDirs)
    /\ SInv /\ pc # "idle" =>
          Dir \in Dirs /\ Under[Dir] \subseteq Files /\ Matches[Dir] \subseteq Files
<1>1. TaskDirs \in Seq(Dirs) /\ TaskDirs # <<>>
  BY FileScanAssumption
<1>2. Len(TaskDirs) \in Nat /\ 1 \in 1..Len(TaskDirs)
  BY <1>1, EmptySeq
<1>3. SInv /\ pc # "idle" => Dir \in Dirs
  BY <1>1 DEF SInv, Scanned, Dir
<1>. QED  BY <1>1, <1>2, <1>3, FileScanAssumption

\* A write is sent: never while the scan waits for a barrier.
LEMMA SendKeeps ==
    ASSUME SInv, NEW w \in Writes, Send(w), ~Waits, w.type = "barrier" => Waits',
           UNCHANGED <<locked, flushing, db, saved, barriers, answered, compaction, compactors>>
    PROVE  Stored' /\ Barriers' /\ DbTypes'
<1>1. /\ pending \in Seq(Writes) /\ db \in Tables /\ saved \in Tables /\ DbTypes
      /\ Len(pending) \in Nat
  BY TypeParts DEF SInv, Stored
<1>2. /\ pending' \in Seq(Writes) /\ Len(pending') = Len(pending) + 1 /\ Len(pending') <= Capacity
      /\ pending'[Len(pending')] = w
      /\ \A i \in 1..Len(pending) : pending'[i] = pending[i]
  BY <1>1, WriteSent
<1>3. Stored'
  BY <1>2 DEF SInv, Stored
<1>4. DbTypes'
  <2>1. \A i \in DOMAIN pending' : pending'[i] \in Writes
    BY <1>2
  <2>. QED  BY <1>1, <1>2, <2>1 DEF DbTypes, Writes
<1>5. /\ barriers = {} /\ answered = {}
      /\ \A i \in 1..Len(pending) : pending[i].type # "barrier"
  BY DEF SInv, Barriers
<1>6. Barriers'
  <2>1. ASSUME NEW i \in 1..Len(pending'), pending'[i].type = "barrier"
        PROVE  Waits' /\ i = Len(pending')
    <3>1. i \in 1..Len(pending) \/ i = Len(pending')
      BY <1>1, <1>2
    <3>. QED  BY <1>2, <1>5, <2>1, <3>1
  <2>. QED  BY <1>5, <2>1 DEF Barriers
<1>. QED  BY <1>3, <1>4, <1>6

\* A step that touches neither the writer's state nor, while there is a barrier,
\* the place where the scan is.
LEMMA StoreKept ==
    ASSUME SInv, UNCHANGED dbVars, Waits => Waits'
    PROVE  Stored' /\ Barriers' /\ DbTypes'
<1>1. DbTypes /\ Stored /\ Barriers
  BY TypeParts DEF SInv
<1>2. UNCHANGED <<pending, locked, flushing, db, saved, barriers, answered, compaction, compactors>>
  BY DEF dbVars
<1>3. Stored' /\ DbTypes'
  BY <1>1, <1>2 DEF Stored, DbTypes
<1>4. Barriers'
  BY <1>1, <1>2 DEF Barriers
<1>. QED  BY <1>3, <1>4

\* Which writes are on their way does not change.
LEMMA PhasesKept ==
    ASSUME SInv, UNCHANGED pending, pc \in {"idle", "walk", "check", "barrier"},
           pc' \in {"idle", "walk", "check", "write", "barrier"}
    PROVE  Phases'
<1>1. Deletes' = {} /\ Indexes' = {}
  BY PendingKept DEF SInv, Phases, Walking
<1>. QED  BY <1>1 DEF Phases, Walking, Removing

\* A task starts at its first directory.
LEMMA StartKeepsScan == ASSUME SInv, Start PROVE SInv'
<1>1. /\ pc = "idle" /\ maxPhotos' \in Limits /\ pos' = 1 /\ pc' = "walk" /\ scans' = scans + 1
      /\ walked' = {} /\ indexed' = {} /\ kept' = disk /\ seen' = disk
      /\ UNCHANGED <<dbVars, pending, path, stale, thumbnails, thumbDeletes, disk>>
  BY DEF Start, dbVars
<1>2. Stored' /\ Barriers' /\ DbTypes'
  BY <1>1, StoreKept DEF Waits
<1>3. path = {} /\ ScanTypes /\ scans \in Nat
  BY <1>1, TypeParts DEF SInv, Scanned
<1>4. 1 \in 0..Len(TaskDirs) /\ 1 \in 1..Len(TaskDirs)
  BY Directories
<1>5. ScanTypes'
  BY <1>1, <1>3, <1>4 DEF ScanTypes, Steps
<1>6. Scanned'
  BY <1>1, <1>3, <1>4 DEF Scanned
<1>7. Phases'
  BY <1>1, PhasesKept
<1>8. WalkedAll'
  BY <1>1 DEF WalkedAll, Walked
<1>9. TypeOK'
  BY <1>2, <1>5 DEF TypeOK, DbTypes, ScanTypes, Steps
<1>. QED  BY <1>2, <1>6, <1>7, <1>8, <1>9 DEF SInv

\* A file comes or goes, and the task is stopped.
LEMMA ChangeKeeps == ASSUME SInv, Change PROVE SInv'
<1>1. /\ kept' = kept \cap disk' /\ seen' = seen \cup disk' /\ disk' \subseteq Files
      /\ UNCHANGED <<dbVars, pending, scanVars, stopped, taskVars>>
  <2>1. disk \subseteq Files
    BY DEF SInv, TypeOK
  <2>. QED  BY <2>1 DEF Change, dbVars
<1>2. UNCHANGED <<pc, pos, path, walked, indexed, stale, thumbnails, thumbDeletes, maxPhotos, scans>>
  BY <1>1 DEF scanVars, taskVars
<1>3. Stored' /\ Barriers' /\ DbTypes'
  BY <1>1, <1>2, StoreKept DEF Waits
<1>4. ScanTypes'
  BY <1>1, <1>2, TypeParts DEF SInv, ScanTypes
<1>5. Scanned'
  BY <1>1, <1>2 DEF SInv, Scanned
<1>6. Phases'
  BY <1>1, <1>2, PendingKept DEF SInv, Phases, Walking, Removing, Stored, Barriers, dbVars
<1>7. WalkedAll'
  BY <1>1, <1>2 DEF SInv, WalkedAll, Walked, Complete, LimitReached, Dir
<1>8. TypeOK'
  BY <1>3, <1>4 DEF TypeOK, DbTypes, ScanTypes, Steps
<1>. QED  BY <1>3, <1>5, <1>6, <1>7, <1>8 DEF SInv

LEMMA StopKeepsScan == ASSUME SInv, Stop PROVE SInv'
<1>1. /\ stopped' = TRUE /\ UNCHANGED <<dbVars, scanVars, diskVars, taskVars, db, saved, pending>>
  BY DEF Stop, dbVars
<1>2. UNCHANGED <<pc, pos, path, walked, indexed, stale, thumbnails, thumbDeletes, maxPhotos, scans, disk, kept, seen>>
  BY <1>1 DEF scanVars, taskVars, diskVars
<1>3. Stored' /\ Barriers' /\ DbTypes'
  BY <1>1, <1>2, StoreKept DEF Waits
<1>4. ScanTypes'
  BY <1>1, <1>2, TypeParts DEF SInv, ScanTypes
<1>5. Scanned'
  BY <1>1, <1>2 DEF SInv, Scanned
<1>6. Phases'
  BY <1>1, <1>2, PendingKept DEF SInv, Phases, Walking, Removing
<1>7. WalkedAll'
  BY <1>1 DEF WalkedAll, Complete
<1>8. TypeOK'
  BY <1>3, <1>4 DEF TypeOK, DbTypes, ScanTypes, Steps
<1>. QED  BY <1>3, <1>5, <1>6, <1>7, <1>8 DEF SInv

LEMMA WalkFileKeeps == ASSUME SInv, WalkFile PROVE SInv'
<1>1. PICK f \in Unvisited : path' = {f} /\ walked' = walked \cup {f}
  BY DEF WalkFile
<1>2. /\ pc = "walk" /\ pc' = "check"
      /\ UNCHANGED <<dbVars, pending, disk, kept, seen, pos, indexed, stale, thumbnails, thumbDeletes, maxPhotos, scans>>
  BY DEF WalkFile, diskVars, taskVars, dbVars
<1>3. f \in Files /\ f \in seen
  BY <1>1, <1>2, Directories DEF Unvisited
<1>4. Stored' /\ Barriers' /\ DbTypes'
  BY <1>2, StoreKept DEF Waits
<1>5. ScanTypes'
  BY <1>1, <1>2, <1>3, TypeParts DEF SInv, ScanTypes, Steps
<1>6. Scanned'
  BY <1>1, <1>2, <1>3 DEF SInv, Scanned
<1>7. Phases'
  BY <1>2, PhasesKept
<1>8. WalkedAll'
  BY <1>2 DEF WalkedAll, Walked
<1>9. TypeOK'
  BY <1>4, <1>5 DEF TypeOK, DbTypes, ScanTypes, Steps
<1>. QED  BY <1>4, <1>6, <1>7, <1>8, <1>9 DEF SInv

LEMMA WalkEndsKeeps == ASSUME SInv, WalkEnds PROVE SInv'
<1>1. /\ pc = "walk" /\ pc' = "barrier"
      /\ UNCHANGED <<dbVars, pending, disk, kept, seen, pos, path, walked, indexed, stale, thumbnails, thumbDeletes, stopped,
                     maxPhotos, scans>>
      /\ kept \cap Under[Dir] \subseteq walked \/ LimitReached \/ stopped
  BY DEF WalkEnds, diskVars, taskVars, dbVars
<1>2. Stored' /\ Barriers' /\ DbTypes'
  BY <1>1, StoreKept DEF Waits
<1>3. ScanTypes'
  BY <1>1, TypeParts DEF SInv, ScanTypes, Steps
<1>4. Scanned'
  BY <1>1 DEF SInv, Scanned
<1>5. Phases'
  BY <1>1, PhasesKept
<1>6. WalkedAll'
  BY <1>1 DEF WalkedAll, Complete, LimitReached, Dir
<1>7. TypeOK'
  BY <1>2, <1>3 DEF TypeOK, DbTypes, ScanTypes, Steps
<1>. QED  BY <1>2, <1>4, <1>5, <1>6, <1>7 DEF SInv

LEMMA CheckKeeps == ASSUME SInv, Check PROVE SInv'
<1>1. /\ pc = "check" /\ pc' = (IF stopped THEN "idle" ELSE "write")
      /\ path' = (IF stopped THEN {} ELSE path)
      /\ UNCHANGED <<dbVars, pending, disk, kept, seen, pos, walked, indexed, stale, thumbnails, thumbDeletes, stopped,
                     maxPhotos, scans>>
  BY DEF Check, diskVars, taskVars, dbVars
<1>2. Stored' /\ Barriers' /\ DbTypes'
  BY <1>1, StoreKept DEF Waits
<1>3. ScanTypes'
  BY <1>1, TypeParts DEF SInv, ScanTypes, Steps
<1>4. Scanned'
  BY <1>1 DEF SInv, Scanned
<1>5. Phases'
  BY <1>1, PhasesKept
<1>6. WalkedAll'
  BY <1>1 DEF WalkedAll, Walked
<1>7. TypeOK'
  BY <1>2, <1>3 DEF TypeOK, DbTypes, ScanTypes, Steps
<1>. QED  BY <1>2, <1>4, <1>5, <1>6, <1>7 DEF SInv

LEMMA WriteKeeps == ASSUME SInv, Write PROVE SInv'
<1>1. PICK f \in path : Send([type |-> "append", file |-> f]) /\ indexed' = indexed \cup {f}
  BY DEF Write
<1>. DEFINE w == [type |-> "append", file |-> f]
<1>2. /\ pc = "write" /\ path' = {} /\ pc' = "walk"
      /\ UNCHANGED <<locked, flushing, db, saved, barriers, answered, compaction, compactors, disk, kept, seen,
                     pos, walked, stale, thumbnails, thumbDeletes, stopped, maxPhotos, scans>>
  BY DEF Write, diskVars, taskVars
<1>3. path = {f} /\ f \in Files /\ walked = indexed \cup {f}
  BY <1>1, <1>2 DEF SInv, Scanned
<1>4. w \in Writes /\ w.type = "append"
  BY <1>3 DEF Writes
<1>5. Send(w)
  BY <1>1
<1>. HIDE DEF w
<1>6. Stored' /\ Barriers' /\ DbTypes'
  BY <1>2, <1>4, <1>5, SendKeeps DEF Waits
<1>7. ScanTypes'
  BY <1>1, <1>2, <1>3, TypeParts DEF SInv, ScanTypes, Steps
<1>8. Scanned'
  BY <1>1, <1>2, <1>3 DEF SInv, Scanned
<1>9. Phases'
  <2>1. Deletes' = Deletes /\ Indexes' = Indexes
    BY <1>4, <1>5, WriteSent DEF SInv, Stored
  <2>. QED  BY <1>2, <2>1 DEF SInv, Phases, Walking, Removing
<1>10. WalkedAll'
  BY <1>2 DEF WalkedAll, Walked
<1>11. TypeOK'
  BY <1>6, <1>7 DEF TypeOK, DbTypes, ScanTypes, Steps
<1>. QED  BY <1>6, <1>8, <1>9, <1>10, <1>11 DEF SInv

LEMMA SendBarrierKeeps == ASSUME SInv, SendBarrier PROVE SInv'
<1>. DEFINE w == [type |-> "barrier", from |-> Scanner]
<1>1. /\ pc \in {"barrier", "sync"} /\ pc' = IF pc = "barrier" THEN "committing" ELSE "syncing"
      /\ Send(w)
      /\ UNCHANGED <<locked, flushing, db, saved, barriers, answered, compaction, compactors, disk, kept, seen,
                     pos, path, walked, indexed, stale, thumbnails, thumbDeletes, stopped, maxPhotos, scans>>
  BY DEF SendBarrier, SendOnly, diskVars, taskVars
<1>2. w \in Writes /\ w.type = "barrier"
  BY DEF Writes
<1>. HIDE DEF w
<1>3. Stored' /\ Barriers' /\ DbTypes'
  BY <1>1, <1>2, SendKeeps DEF Waits
<1>4. ScanTypes'
  BY <1>1, TypeParts DEF SInv, ScanTypes, Steps
<1>5. Scanned'
  BY <1>1 DEF SInv, Scanned
<1>6. Phases'
  <2>1. Appends' = Appends /\ Deletes' = Deletes /\ Indexes' = Indexes
    BY <1>1, <1>2, WriteSent DEF SInv, Stored
  <2>. QED  BY <1>1, <2>1 DEF SInv, Phases, Walking, Removing
<1>7. WalkedAll'
  BY <1>1 DEF SInv, WalkedAll, Walked, Complete, LimitReached, Dir
<1>8. TypeOK'
  BY <1>3, <1>4 DEF TypeOK, DbTypes, ScanTypes, Steps
<1>. QED  BY <1>3, <1>5, <1>6, <1>7, <1>8 DEF SInv

\* The answer to a barrier is received: nothing is on its way.
LEMMA BarrierAnswered ==
    ASSUME SInv, Scanner \in answered, answered' = answered \ {Scanner},
           UNCHANGED <<pending, locked, flushing, db, saved, barriers, compaction, compactors>>
    PROVE  /\ Stored' /\ Barriers' /\ DbTypes' /\ pending = <<>> /\ pending' = <<>> /\ saved = db
           /\ saved' = db' /\ UNCHANGED db
           /\ Appends' = {} /\ Deletes' = {} /\ Indexes' = {} /\ Appends = {} /\ Deletes = {} /\ Indexes = {}
<1>1. pending = <<>> /\ barriers = {} /\ saved = db
  BY DEF SInv, Barriers
<1>2. answered' = {}
  BY TypeParts DEF SInv, DbTypes
<1>3. Stored'
  BY DEF SInv, Stored
<1>4. Barriers'
  BY <1>1, <1>2, NonePending DEF Barriers
<1>5. DbTypes'
  BY <1>2, TypeParts DEF SInv, DbTypes
<1>. QED  BY <1>1, <1>3, <1>4, <1>5, NonePending, PendingKept

LEMMA CommittedKeeps == ASSUME SInv, Committed PROVE SInv'
<1>1. /\ pc = "committing" /\ pc' = "wait" /\ Scanner \in answered /\ answered' = answered \ {Scanner}
      /\ UNCHANGED <<pending, locked, flushing, db, saved, barriers, compaction, compactors, disk, kept, seen,
                     pos, path, walked, indexed, stale, thumbnails, thumbDeletes, stopped, maxPhotos, scans>>
  BY DEF Committed, diskVars, taskVars
<1>2. Stored' /\ Barriers' /\ DbTypes' /\ pending' = <<>> /\ saved' = db'
  BY <1>1, BarrierAnswered
<1>3. ScanTypes'
  BY <1>1, TypeParts DEF SInv, ScanTypes, Steps
<1>4. Scanned'
  BY <1>1 DEF SInv, Scanned
<1>5. Phases'
  BY <1>1, <1>2 DEF Phases, Walking, Removing
<1>6. WalkedAll'
  BY <1>1 DEF SInv, WalkedAll, Walked, Complete, LimitReached, Dir
<1>7. TypeOK'
  BY <1>2, <1>3 DEF TypeOK, DbTypes, ScanTypes, Steps
<1>. QED  BY <1>2, <1>4, <1>5, <1>6, <1>7 DEF SInv

LEMMA WaitForCommitKeeps == ASSUME SInv, WaitForCommit PROVE SInv'
<1>1. /\ pc = "wait" /\ pc' = "list"
      /\ UNCHANGED <<dbVars, pending, saved, db, disk, kept, seen, pos, path, walked, indexed, stale, thumbnails, thumbDeletes,
                     stopped, maxPhotos, scans>>
  BY DEF WaitForCommit, diskVars, taskVars, dbVars
<1>2. Stored' /\ Barriers' /\ DbTypes'
  BY <1>1, StoreKept DEF Waits
<1>3. ScanTypes'
  BY <1>1, TypeParts DEF SInv, ScanTypes, Steps
<1>4. Scanned'
  BY <1>1 DEF SInv, Scanned
<1>5. Phases'
  BY <1>1 DEF SInv, Phases, Walking, Removing
<1>6. WalkedAll'
  BY <1>1 DEF SInv, WalkedAll, Walked, Complete, LimitReached, Dir
<1>7. TypeOK'
  BY <1>2, <1>3 DEF TypeOK, DbTypes, ScanTypes, Steps
<1>. QED  BY <1>2, <1>4, <1>5, <1>6, <1>7 DEF SInv

LEMMA ListKeepsScan == ASSUME SInv, ListNonexistent PROVE SInv'
<1>1. /\ pc = "list" /\ pc' = "delete" /\ stale' = ListIdPaths \ indexed
      /\ UNCHANGED <<dbVars, pending, disk, kept, seen, pos, path, walked, indexed, thumbnails, thumbDeletes, stopped,
                     maxPhotos, scans>>
  BY DEF ListNonexistent, diskVars, taskVars, dbVars
<1>2. Stored' /\ Barriers' /\ DbTypes'
  BY <1>1, StoreKept DEF Waits
<1>3. ScanTypes'
  <2>1. stale' \subseteq Files
    BY <1>1 DEF ListIdPaths, SInv, Stored, Tables
  <2>. QED  BY <1>1, <2>1, TypeParts DEF SInv, ScanTypes, Steps
<1>4. Scanned'
  BY <1>1 DEF SInv, Scanned
<1>5. Phases'
  <2>1. Appends' = {}
    BY <1>1, NonePending, PendingKept DEF SInv, Phases
  <2>. QED  BY <1>1, <2>1 DEF Phases, Walking, Removing
<1>6. WalkedAll'
  BY <1>1 DEF SInv, WalkedAll, Walked, Complete, LimitReached, Dir
<1>7. TypeOK'
  BY <1>2, <1>3 DEF TypeOK, DbTypes, ScanTypes, Steps
<1>. QED  BY <1>2, <1>4, <1>5, <1>6, <1>7 DEF SInv

LEMMA DeleteKeeps == ASSUME SInv, Delete PROVE SInv'
<1>1. PICK f \in stale : /\ Send([type |-> "delete", file |-> f])
                         /\ stale' = stale \ {f} /\ UNCHANGED thumbnails
                         /\ thumbDeletes' = thumbDeletes \cup ({f} \cap thumbnails)
  BY DEF Delete
<1>. DEFINE w == [type |-> "delete", file |-> f]
<1>2. /\ pc = "delete" /\ pc' = pc
      /\ UNCHANGED <<locked, flushing, db, saved, barriers, answered, compaction, compactors, disk, kept, seen,
                     pos, path, walked, indexed, stopped, maxPhotos, scans>>
  BY DEF Delete, SendOnly, diskVars, taskVars
<1>3. w \in Writes /\ w.type = "delete"
  BY <1>1 DEF Writes, SInv, TypeOK
<1>4. Send(w)
  BY <1>1
<1>. HIDE DEF w
<1>5. Stored' /\ Barriers' /\ DbTypes'
  BY <1>2, <1>3, <1>4, SendKeeps DEF Waits
<1>6. ScanTypes'
  BY <1>1, <1>2, TypeParts DEF SInv, ScanTypes, Steps
<1>7. Scanned'
  BY <1>2 DEF SInv, Scanned
<1>8. Phases'
  <2>1. Appends' = Appends
    BY <1>3, <1>4, WriteSent DEF SInv, Stored
  <2>. QED  BY <1>2, <2>1 DEF SInv, Phases, Walking, Removing
<1>9. WalkedAll'
  BY <1>2 DEF SInv, WalkedAll, Walked, Complete, LimitReached, Dir
<1>10. TypeOK'
  BY <1>5, <1>6 DEF TypeOK, DbTypes, ScanTypes, Steps
<1>. QED  BY <1>5, <1>7, <1>8, <1>9, <1>10 DEF SInv

LEMMA SetIndexedKeeps == ASSUME SInv, SetIndexed PROVE SInv'
<1>. DEFINE w == [type |-> "index", dir |-> Dir]
<1>1. /\ pc = "delete" /\ pc' = "sync" /\ stale = {} /\ Send(w)
      /\ UNCHANGED <<locked, flushing, db, saved, barriers, answered, compaction, compactors, disk, kept, seen,
                     pos, path, walked, indexed, stale, thumbnails, thumbDeletes, stopped, maxPhotos, scans>>
  BY DEF SetIndexed, SendOnly, diskVars, taskVars
<1>2. w \in Writes /\ w.type = "index"
  BY <1>1, Directories DEF Writes
<1>. HIDE DEF w
<1>3. Stored' /\ Barriers' /\ DbTypes'
  BY <1>1, <1>2, SendKeeps DEF Waits
<1>4. ScanTypes'
  BY <1>1, TypeParts DEF SInv, ScanTypes, Steps
<1>5. Scanned'
  BY <1>1 DEF SInv, Scanned
<1>6. Phases'
  <2>1. Appends' = Appends
    BY <1>1, <1>2, WriteSent DEF SInv, Stored
  <2>. QED  BY <1>1, <2>1 DEF SInv, Phases, Walking, Removing
<1>7. WalkedAll'
  BY <1>1 DEF SInv, WalkedAll, Walked, Complete, LimitReached, Dir
<1>8. TypeOK'
  BY <1>3, <1>4 DEF TypeOK, DbTypes, ScanTypes, Steps
<1>. QED  BY <1>3, <1>5, <1>6, <1>7, <1>8 DEF SInv

\* A directory is left for the next one, or the task ends.
LEMMA SyncedKeeps == ASSUME SInv, Synced PROVE SInv'
<1>1. /\ pc = "syncing" /\ Scanner \in answered /\ answered' = answered \ {Scanner} /\ NextDir
      /\ UNCHANGED <<pending, locked, flushing, db, saved, barriers, compaction, compactors,
                     path, stale, thumbnails, thumbDeletes, disk, stopped, maxPhotos, scans>>
  BY DEF Synced, taskVars
<1>2. /\ Stored' /\ Barriers' /\ DbTypes' /\ Deletes' = {} /\ Indexes' = {}
  BY <1>1, BarrierAnswered
<1>3. path = {} /\ ScanTypes /\ scans > 0 /\ scans \in Nat /\ pos \in 1..Len(TaskDirs)
  BY <1>1, TypeParts DEF SInv, Scanned
<1>4. \/ /\ pos < Len(TaskDirs) /\ pos' = pos + 1 /\ pc' = "walk" /\ walked' = {} /\ indexed' = {}
         /\ kept' = disk /\ seen' = disk
      \/ pc' = "idle" /\ UNCHANGED <<pos, walked, indexed, kept, seen>>
  BY <1>1 DEF NextDir
<1>5. Len(TaskDirs) \in Nat
  BY Directories
<1>6. ScanTypes'
  BY <1>1, <1>3, <1>4, <1>5 DEF ScanTypes, Steps
<1>7. Scanned'
  <2>1. UNCHANGED <<path, scans>>
    BY <1>1
  <2>2. CASE pc' = "walk"
    <3>1. pos' \in 1..Len(TaskDirs) /\ walked' = {} /\ indexed' = {}
      BY <1>3, <1>4, <1>5, <2>2
    <3>. QED  BY <1>3, <2>1, <2>2, <3>1 DEF Scanned
  <2>3. CASE pc' = "idle"
    BY <1>3, <2>1, <2>3 DEF Scanned
  <2>. QED  BY <1>4, <2>2, <2>3
<1>8. Phases'
  BY <1>2, <1>4 DEF Phases, Walking, Removing
<1>9. WalkedAll'
  BY <1>4 DEF WalkedAll, Walked
<1>10. TypeOK'
  BY <1>2, <1>6 DEF TypeOK, DbTypes, ScanTypes, Steps
<1>. QED  BY <1>2, <1>7, <1>8, <1>9, <1>10 DEF SInv

\* The thumbnail store commits deletions.
LEMMA CommitThumbsKeeps == ASSUME SInv, CommitThumbDeletes PROVE SInv'
<1>1. /\ UNCHANGED <<dbVars, pending, pc, pos, path, walked, indexed, stale, diskVars, stopped, taskVars>>
      /\ thumbnails' \subseteq thumbnails /\ thumbDeletes' \subseteq thumbDeletes
  BY DEF CommitThumbDeletes, dbVars
<1>2. UNCHANGED <<disk, kept, seen, maxPhotos, scans>>
  BY <1>1 DEF diskVars, taskVars
<1>3. Stored' /\ Barriers' /\ DbTypes'
  BY <1>1, StoreKept DEF Waits
<1>4. ScanTypes'
  BY <1>1, <1>2, TypeParts DEF SInv, ScanTypes
<1>5. Scanned'
  BY <1>1, <1>2 DEF SInv, Scanned
<1>6. Phases'
  BY <1>1, PendingKept DEF SInv, Phases, Walking, Removing, dbVars
<1>7. WalkedAll'
  BY <1>1, <1>2 DEF SInv, WalkedAll, Walked, Complete, LimitReached, Dir
<1>8. TypeOK'
  BY <1>3, <1>4 DEF TypeOK, DbTypes, ScanTypes, Steps
<1>. QED  BY <1>3, <1>5, <1>6, <1>7, <1>8 DEF SInv

----------------------------------------------------------------------------
(* The theorems about every scan, limited, stopped or failing.             *)

LEMMA SInvInit == Init => SInv
<1>. SUFFICES ASSUME Init PROVE SInv
  OBVIOUS
<1>1. PICK rows \in SUBSET Files : InitDatabase(rows) /\ thumbnails = rows \cap Thumbnailed
  BY DEF Init
<1>2. db = [rows |-> rows, indexed |-> {}, tags |-> <<>>, ranges |-> {}] /\ saved = db /\ pending = <<>>
      /\ locked = FALSE /\ flushing = FALSE /\ barriers = {} /\ answered = {} /\ compaction = {}
      /\ compactors = EmptyBag
  BY <1>1 DEF InitDatabase, Contents
<1>3. pc = "idle" /\ pos = 0 /\ path = {} /\ walked = {} /\ indexed = {} /\ stale = {} /\ thumbDeletes = {} /\ maxPhotos = 0
      /\ scans = 0 /\ disk \subseteq Files /\ kept = {} /\ seen = {}
  BY DEF Init
<1>4. db \in Tables
  BY <1>2 DEF Tables
<1>5. Stored
  BY <1>2, <1>4 DEF Stored
<1>6. Barriers /\ Phases
  BY <1>2, <1>3, NonePending DEF Barriers, Phases, Walking, Removing
<1>7. Scanned /\ WalkedAll
  BY <1>3 DEF Scanned, WalkedAll, Walked
<1>8. DbTypes
  <2>1. Len(pending) = 0 /\ DOMAIN pending = {} /\ Capacity \in Nat
    BY <1>2, DatabaseAssumption
  <2>2. db.rows \subseteq Files /\ db.indexed \subseteq Dirs /\ saved = db
    BY <1>2, <1>4 DEF Tables
  <2>3. barriers \cup answered \subseteq {Scanner}
    BY <1>2
  <2>4. \A d \in {db, saved} : d.rows \subseteq Files /\ d.indexed \subseteq Dirs
    BY <2>2
  <2>5. Len(pending) <= Capacity
    BY <2>1
  <2>. QED  BY <1>2, <2>1, <2>3, <2>4, <2>5, Zenon DEF DbTypes
<1>9. ScanTypes
  BY <1>1, <1>3, Directories DEF ScanTypes, Steps
<1>. QED  BY <1>5, <1>6, <1>7, <1>8, <1>9, TypeParts DEF SInv

LEMMA SInvNext == SInv /\ [Next]_vars => SInv'
<1>. SUFFICES ASSUME SInv, [Next]_vars PROVE SInv'
  OBVIOUS
<1>1. CASE Start \/ Change \/ Stop
  BY <1>1, StartKeepsScan, ChangeKeeps, StopKeepsScan
<1>2. CASE Scan
  BY <1>2, WalkFileKeeps, WalkEndsKeeps, CheckKeeps, WriteKeeps, SendBarrierKeeps, CommittedKeeps,
     WaitForCommitKeeps, ListKeepsScan, DeleteKeeps, SetIndexedKeeps, SyncedKeeps DEF Scan
<1>3. CASE WriterStep
  <2>1. Writer /\ UNCHANGED Others
    BY <1>3 DEF WriterStep, Others
  <2>. QED  BY <2>1, WriterSteps, HandleKeeps, CommitScanKeeps, UnlockKeeps
<1>4. CASE UNCHANGED vars
  <2>1. UNCHANGED Others /\ UNCHANGED dbVars /\ UNCHANGED pending
    BY <1>4 DEF vars, Others, dbVars
  <2>2. Stored' /\ Barriers' /\ DbTypes'
    BY <2>1, StoreKept DEF Waits, Others, scanVars
  <2>3. ScanTypes' /\ Phases'
    BY <2>1, TypeParts, PendingKept
       DEF SInv, ScanTypes, Phases, Walking, Removing, Others, scanVars, diskVars, taskVars, dbVars
  <2>4. TypeOK'
    BY <2>2, <2>3 DEF TypeOK, DbTypes, ScanTypes, Steps
  <2>. QED  BY <2>1, <2>2, <2>3, <2>4, WalkKept DEF SInv
<1>. QED  BY <1>1, <1>2, <1>3, <1>4, CommitThumbsKeeps DEF Next

\* TypeOK: the writer, the scan and the files hold well-formed state.
THEOREM TypesOK == Spec => []TypeOK
<1>1. SInv => TypeOK
  BY DEF SInv
<1>. QED  BY <1>1, SInvInit, SInvNext, PTL DEF Spec

\* AnsweredMeansSaved: the answer to a commit barrier finds every write sent
\* before it in the committed tables, whatever the ticker does.
THEOREM BarrierMeansSaved == Spec => []AnsweredMeansSaved
<1>1. SInv => AnsweredMeansSaved
  BY DEF SInv, Barriers, AnsweredMeansSaved
<1>. QED  BY <1>1, SInvInit, SInvNext, PTL DEF Spec

----------------------------------------------------------------------------
(* The rows, when the writer's statements do not fail.                     *)

WritesSucceed == Failing \cap {"append", "index"} = {}

\* Every step is in one of the three phases.
LEMMA PhaseOf == SInv => Walking \/ pc \in {"wait", "list"} \/ Removing
  BY DEF SInv, TypeOK, Walking, Removing

\* A step of the writer.
LEMMA RowsWritten ==
    ASSUME SInv, RowsKept, WritesSucceed, UNCHANGED Others,
           HandleAppend \/ HandleDelete \/ HandleIndex \/ HandleBarrier \/ HandleFails
    PROVE  RowsKept'
<1>. DEFINE w == Head(pending)
<1>1. /\ Receive({w.type}) /\ w \in Writes
      /\ \/ w.type = "append" /\ db'.rows = db.rows \cup {w.file} /\ db'.indexed = db.indexed
         \/ w.type = "delete" /\ db'.rows = db.rows \ {w.file} /\ db'.indexed = db.indexed
         \/ w.type = "index" /\ db'.rows = db.rows /\ db'.indexed = db.indexed \cup {w.dir}
         \/ w.type \in {"barrier"} \cup Failing /\ UNCHANGED db
  BY HandleDoes
<1>2. pending # <<>>
      /\ Appends = Appends' \cup (IF w.type = "append" THEN {w.file} ELSE {})
      /\ Deletes = Deletes' \cup (IF w.type = "delete" THEN {w.file} ELSE {})
      /\ Indexes = Indexes' \cup (IF w.type = "index" THEN {w.dir} ELSE {})
  BY <1>1, WriteReceived DEF SInv, Stored
<1>. HIDE DEF w
<1>3. w.type \in {"append", "delete", "index", "barrier"}
  BY <1>1 DEF Writes
<1>4. UNCHANGED <<pc, indexed, stale, thumbnails, thumbDeletes>> /\ Dir' = Dir
  BY DEF Others, scanVars, Dir
<1>5. /\ Removing' <=> Removing
      /\ (Walking => Deletes = {}) /\ (Removing => Appends = {}) /\ (Walking \/ Removing)
      /\ pc \in {"sync", "syncing"} => Removing
  BY <1>2, <1>4, PhaseOf DEF SInv, Phases, Walking, Removing
<1>6. CASE w.type = "append"
  <2>1. ~Removing /\ Deletes' = Deletes /\ Appends = Appends' \cup {w.file}
    BY <1>2, <1>5, <1>6
  <2>2. db'.rows = db.rows \cup {w.file}
    BY <1>1, <1>6 DEF WritesSucceed
  <2>. QED  BY <1>4, <1>5, <2>1, <2>2 DEF RowsKept
<1>7. CASE w.type = "delete"
  <2>1. Removing /\ Appends = {} /\ Appends' = {} /\ Deletes = Deletes' \cup {w.file} /\ Indexes' = Indexes
    BY <1>2, <1>5, <1>7
  <2>2. db'.rows = db.rows \ {w.file} /\ db'.indexed = db.indexed
    <3>1. w.type \notin Failing
      BY <1>7, DatabaseAssumption
    <3>. QED  BY <1>1, <1>7, <3>1
  <2>. QED  BY <1>4, <1>5, <2>1, <2>2 DEF RowsKept
<1>8. CASE w.type = "index"
  <2>1. Dir \in db'.indexed \cup Indexes' \/ pc \notin {"sync", "syncing"}
    BY <1>1, <1>2, <1>8 DEF RowsKept, WritesSucceed
  <2>2. db'.rows = db.rows
    BY <1>1, <1>8 DEF WritesSucceed
  <2>. QED  BY <1>2, <1>4, <1>5, <1>8, <2>1, <2>2 DEF RowsKept
<1>9. CASE w.type = "barrier"
  <2>1. UNCHANGED db
    BY <1>1, <1>9
  <2>. QED  BY <1>2, <1>4, <1>5, <1>9, <2>1 DEF RowsKept
<1>. QED  BY <1>3, <1>6, <1>7, <1>8, <1>9

\* A step of the scan.
LEMMA RowsScanned == ASSUME SInv, RowsKept, Scan PROVE RowsKept'
<1>0. pending \in Seq(Writes)
  BY DEF SInv, Stored
<1>1. CASE WalkFile \/ WalkEnds \/ Check \/ WaitForCommit
  <2>1. /\ UNCHANGED <<db, pending, indexed, thumbnails, thumbDeletes>>
        /\ pc' \notin {"delete", "sync", "syncing"}
    BY <1>1 DEF WalkFile, WalkEnds, Check, WaitForCommit, dbVars
  <2>. QED  BY <2>1, PendingKept DEF RowsKept, Removing
<1>2. CASE Write
  <2>1. PICK f \in path : Send([type |-> "append", file |-> f]) /\ indexed' = indexed \cup {f}
    BY <1>2 DEF Write
  <2>. DEFINE w == [type |-> "append", file |-> f]
  <2>2. pc = "write" /\ pc' = "walk" /\ UNCHANGED <<db, thumbnails, thumbDeletes>> /\ f \in Files
    BY <1>2, <2>1 DEF Write, SInv, Scanned
  <2>3. w \in Writes /\ w.type = "append" /\ w.file = f /\ Send(w)
    BY <2>1, <2>2 DEF Writes
  <2>. HIDE DEF w
  <2>4. Appends' = Appends \cup {f} /\ Deletes' = Deletes
    BY <1>0, <2>3, WriteSent
  <2>. QED  BY <2>1, <2>2, <2>4 DEF RowsKept, Removing
<1>3. CASE SendBarrier
  <2>. DEFINE w == [type |-> "barrier", from |-> Scanner]
  <2>0. w \in Writes /\ w.type = "barrier"
    BY DEF Writes
  <2>1. /\ Send(w) /\ UNCHANGED <<db, stale, thumbnails, thumbDeletes, indexed, pos>>
        /\ pc \in {"barrier", "sync"} /\ pc' = IF pc = "barrier" THEN "committing" ELSE "syncing"
    BY <1>3 DEF SendBarrier, SendOnly
  <2>. HIDE DEF w
  <2>2. Appends' = Appends /\ Deletes' = Deletes /\ Indexes' = Indexes
    BY <1>0, <2>0, <2>1, WriteSent
  <2>. QED  BY <2>1, <2>2 DEF RowsKept, Removing, Dir
<1>4. CASE Committed
  <2>1. UNCHANGED <<db, pending, indexed, thumbnails, thumbDeletes>> /\ pc' = "wait"
    BY <1>4 DEF Committed
  <2>. QED  BY <2>1, PendingKept DEF RowsKept, Removing
<1>5. CASE ListNonexistent
  <2>1. /\ pc = "list" /\ pc' = "delete" /\ stale' = ListIdPaths \ indexed
        /\ UNCHANGED <<db, saved, pending, pos, indexed, thumbnails, thumbDeletes>>
    BY <1>5 DEF ListNonexistent, dbVars
  <2>2. saved = db /\ Deletes = {} /\ UNCHANGED <<Appends, Deletes, Indexes>>
    BY <2>1, NonePending, PendingKept DEF SInv, Phases
  <2>3. Dir \in Dirs /\ Under[Dir] \subseteq Matches[Dir] /\ Dir' = Dir
    BY <2>1, Directories, FileScanAssumption DEF Dir
  <2>. QED  BY <2>1, <2>2, <2>3 DEF RowsKept, Removing, ListIdPaths
<1>6. CASE Delete
  <2>1. PICK f \in stale : /\ Send([type |-> "delete", file |-> f])
                           /\ stale' = stale \ {f} /\ UNCHANGED thumbnails
                         /\ thumbDeletes' = thumbDeletes \cup ({f} \cap thumbnails)
    BY <1>6 DEF Delete
  <2>. DEFINE w == [type |-> "delete", file |-> f]
  <2>2. pc = "delete" /\ pc' = pc /\ UNCHANGED <<db, indexed, pos>> /\ f \in Files
    BY <1>6, <2>1 DEF Delete, SendOnly, SInv, TypeOK
  <2>3. w \in Writes /\ w.type = "delete" /\ w.file = f /\ Send(w)
    BY <2>1, <2>2 DEF Writes
  <2>. HIDE DEF w
  <2>4. Appends' = Appends /\ Deletes' = Deletes \cup {f}
    BY <1>0, <2>3, WriteSent
  <2>5. Dir' = Dir
    BY <2>2 DEF Dir
  <2>. QED  BY <2>1, <2>2, <2>4, <2>5 DEF RowsKept, Removing
<1>7. CASE SetIndexed
  <2>. DEFINE w == [type |-> "index", dir |-> Dir]
  <2>1. /\ pc = "delete" /\ pc' = "sync" /\ Send(w)
        /\ UNCHANGED <<db, indexed, pos, stale, thumbnails, thumbDeletes>>
    BY <1>7 DEF SetIndexed, SendOnly
  <2>2. w \in Writes /\ w.type = "index" /\ w.dir = Dir
    BY <2>1, Directories DEF Writes
  <2>. HIDE DEF w
  <2>3. Appends' = Appends /\ Deletes' = Deletes /\ Indexes' = Indexes \cup {Dir}
    BY <1>0, <2>1, <2>2, WriteSent
  <2>4. Dir' = Dir
    BY <2>1 DEF Dir
  <2>. QED  BY <2>1, <2>3, <2>4 DEF RowsKept, Removing
<1>8. CASE Synced
  <2>1. /\ pc' \in {"walk", "idle"} /\ indexed' \in {indexed, {}}
        /\ UNCHANGED <<db, pending, thumbnails, thumbDeletes>>
    BY <1>8 DEF Synced, NextDir
  <2>. QED  BY <2>1, PendingKept DEF RowsKept, Removing
<1>. QED  BY <1>1, <1>2, <1>3, <1>4, <1>5, <1>6, <1>7, <1>8 DEF Scan

LEMMA RowsKeptInit == Init => RowsKept
<1>. SUFFICES ASSUME Init PROVE RowsKept
  OBVIOUS
<1>1. PICK rows \in SUBSET Files : InitDatabase(rows) /\ thumbnails = rows \cap Thumbnailed
  BY DEF Init
<1>2. pending = <<>> /\ thumbnails \subseteq db.rows /\ pc = "idle" /\ indexed = {}
  BY <1>1 DEF Init, InitDatabase, Contents
<1>. QED  BY <1>2, NonePending DEF RowsKept, Removing

LEMMA RowsKeptNext == ASSUME WritesSucceed PROVE SInv /\ RowsKept /\ [Next]_vars => RowsKept'
<1>. SUFFICES ASSUME SInv, RowsKept, [Next]_vars PROVE RowsKept'
  OBVIOUS
<1>1. CASE Start
  <2>1. UNCHANGED <<db, pending, thumbnails, thumbDeletes>> /\ indexed' = {} /\ pc' = "walk"
    BY <1>1 DEF Start, dbVars
  <2>. QED  BY <2>1, PendingKept DEF RowsKept, Removing
<1>2. CASE Change \/ Stop \/ UNCHANGED vars
  <2>1. UNCHANGED <<db, pending, thumbnails, thumbDeletes, indexed, stale, pc, pos>>
    BY <1>2 DEF Change, Stop, vars, dbVars, scanVars
  <2>. QED  BY <2>1, PendingKept DEF RowsKept, Removing, Dir
<1>3. CASE WriterStep
  <2>1. Writer /\ UNCHANGED Others
    BY <1>3 DEF WriterStep, Others
  <2>2. CASE Commit \/ Unlock
    <3>1. UNCHANGED <<db, pending, thumbnails, thumbDeletes, indexed, stale, pc, pos>>
      BY <2>1, <2>2 DEF Commit, Unlock, Others, scanVars
    <3>. QED  BY <3>1, PendingKept DEF RowsKept, Removing, Dir
  <2>. QED  BY <2>1, <2>2, WriterSteps, RowsWritten
<1>4. CASE CommitThumbDeletes
  <2>1. /\ UNCHANGED <<db, pending, indexed, stale, pc, pos>>
        /\ thumbnails' \ thumbDeletes' \subseteq thumbnails \ thumbDeletes
    BY <1>4 DEF CommitThumbDeletes, dbVars
  <2>. QED  BY <2>1, PendingKept DEF RowsKept, Removing, Dir
<1>. QED  BY <1>1, <1>2, <1>3, <1>4, RowsScanned DEF Next

\* ScanReconciles: when a directory is left, its new files have rows, the rows
\* of files that never were there are gone, and it is marked as indexed.  This
\* needs the writer's statements to succeed.  The thumbnails that have no row are
\* those whose deletion the thumbnail store has yet to commit.
THEOREM ScansReconcile == ASSUME WritesSucceed PROVE Spec => ScanReconciles
<1>1. SInv /\ RowsKept /\ [Next]_vars =>
         [pc \notin {"idle", "check"} /\ (pc' = "idle" \/ pos' # pos) => Reconciled]_vars
  <2>. SUFFICES ASSUME SInv, RowsKept, Next, pc \notin {"idle", "check"}, pc' = "idle" \/ pos' # pos
                PROVE  Reconciled
    BY DEF vars, scanVars
  <2>1. Synced
    BY DEF Next, Start, Scan, WalkFile, WalkEnds, Check, Write, SendBarrier, SendOnly, Committed,
           WaitForCommit, ListNonexistent, Delete, SetIndexed, Change, Stop, WriterStep, CommitThumbDeletes,
           scanVars
  <2>2. /\ pc = "syncing" /\ saved = db /\ Appends = {} /\ Deletes = {} /\ Indexes = {}
    BY <2>1, NonePending DEF Synced, SInv, Barriers
  <2>3. stale = {} /\ walked = indexed /\ walked \subseteq seen
    BY <2>2 DEF SInv, Phases, Scanned
  <2>4. Complete => kept \cap Under[Dir] \subseteq walked
    BY <2>2 DEF SInv, WalkedAll, Walked
  <2>. QED  BY <2>2, <2>3, <2>4 DEF Reconciled, RowsKept, Removing
<1>. QED  BY <1>1, SInvInit, SInvNext, RowsKeptInit, RowsKeptNext, PTL DEF Spec, ScanReconciles

----------------------------------------------------------------------------
(* The files that stay.                                                    *)

\* No directory's name is a pattern that matches the files of another.
NoWildcards == \A d \in Dirs : Matches[d] = Under[d]

LEMMA NoneRemovedWriter == ASSUME SInv, NoneRemoved, WriterStep PROVE NoneRemoved'
<1>1. Writer /\ UNCHANGED Others
  BY DEF WriterStep, Others
<1>2. /\ UNCHANGED <<pc, indexed, stale, kept>> /\ Complete' = Complete
      /\ Walking' = Walking /\ Removing' = Removing
  BY <1>1 DEF Others, scanVars, diskVars, taskVars, Complete, LimitReached, Walking, Removing
<1>3. CASE Commit
  <2>1. saved' = db /\ UNCHANGED <<db, pending>>
    BY <1>3 DEF Commit
  <2>. QED  BY <1>2, <2>1, PendingKept DEF NoneRemoved
<1>4. CASE Unlock
  <2>1. UNCHANGED <<saved, db, pending>>
    BY <1>4 DEF Unlock
  <2>. QED  BY <1>2, <2>1, PendingKept DEF NoneRemoved
<1>5. CASE HandleAppend \/ HandleDelete \/ HandleIndex \/ HandleBarrier \/ HandleFails
  <2>. DEFINE w == Head(pending)
  <2>1. /\ Receive({w.type}) /\ w \in Writes /\ UNCHANGED saved
        /\ \/ w.type = "append" /\ db'.rows = db.rows \cup {w.file}
           \/ w.type = "delete" /\ db'.rows = db.rows \ {w.file}
           \/ db'.rows = db.rows
    BY <1>5, HandleDoes
  <2>2. Deletes = Deletes' \cup (IF w.type = "delete" THEN {w.file} ELSE {})
    BY <2>1, WriteReceived DEF SInv, Stored
  <2>. HIDE DEF w
  <2>3. Walking => Deletes = {}
    BY DEF SInv, Phases
  <2>. QED  BY <1>2, <2>1, <2>2, <2>3 DEF NoneRemoved
<1>. QED  BY <1>1, <1>3, <1>4, <1>5, WriterSteps

LEMMA NoneRemovedScan == ASSUME SInv, NoneRemoved, NoWildcards, Scan PROVE NoneRemoved'
<1>0. pending \in Seq(Writes)
  BY DEF SInv, Stored
<1>1. CASE WalkFile \/ WalkEnds \/ Check \/ Write
  <2>1. UNCHANGED <<db, saved>> /\ Walking /\ pc' \in {"check", "barrier", "idle", "write", "walk"}
    BY <1>1 DEF WalkFile, WalkEnds, Check, Write, dbVars, Walking
  <2>. QED  BY <2>1 DEF NoneRemoved, Walking, Removing
<1>2. CASE SendBarrier
  <2>. DEFINE w == [type |-> "barrier", from |-> Scanner]
  <2>0. w \in Writes /\ w.type = "barrier"
    BY DEF Writes
  <2>1. /\ Send(w) /\ UNCHANGED <<db, saved, stale, kept, walked, stopped, maxPhotos>>
        /\ pc \in {"barrier", "sync"} /\ pc' = IF pc = "barrier" THEN "committing" ELSE "syncing"
    BY <1>2 DEF SendBarrier, SendOnly, diskVars, taskVars
  <2>. HIDE DEF w
  <2>2. Deletes' = Deletes
    BY <1>0, <2>0, <2>1, WriteSent
  <2>. QED  BY <2>1, <2>2 DEF NoneRemoved, Walking, Removing, Complete, LimitReached
<1>3. CASE Committed \/ WaitForCommit
  <2>1. pc' \in {"wait", "list"}
    BY <1>3 DEF Committed, WaitForCommit
  <2>. QED  BY <2>1 DEF NoneRemoved, Walking, Removing
<1>4. CASE ListNonexistent
  <2>1. /\ pc = "list" /\ pc' = "delete" /\ stale' = ListIdPaths \ indexed
        /\ UNCHANGED <<db, saved, pending, pos, indexed, kept, walked, stopped, maxPhotos>>
    BY <1>4 DEF ListNonexistent, dbVars, diskVars, taskVars
  <2>2. saved = db /\ Deletes' = {}
    BY <2>1, NonePending, PendingKept DEF SInv, Phases
  <2>3. Matches[Dir] = Under[Dir]
    BY <2>1, Directories DEF NoWildcards
  <2>4. walked = indexed /\ (Complete => kept \cap Under[Dir] \subseteq walked)
    BY <2>1 DEF SInv, Scanned, WalkedAll, Walked
  <2>5. Complete' = Complete
    BY <2>1 DEF Complete, LimitReached
  <2>. QED  BY <2>1, <2>2, <2>3, <2>4, <2>5 DEF NoneRemoved, Walking, ListIdPaths
<1>5. CASE Delete
  <2>1. PICK f \in stale : /\ Send([type |-> "delete", file |-> f])
                           /\ stale' = stale \ {f}
    BY <1>5 DEF Delete
  <2>. DEFINE w == [type |-> "delete", file |-> f]
  <2>2. /\ pc = "delete" /\ pc' = pc /\ UNCHANGED <<db, saved, kept, walked, stopped, maxPhotos>>
        /\ f \in Files
    BY <1>5, <2>1 DEF Delete, SendOnly, SInv, TypeOK, diskVars, taskVars
  <2>3. w \in Writes /\ w.type = "delete" /\ w.file = f /\ Send(w)
    BY <2>1, <2>2 DEF Writes
  <2>. HIDE DEF w
  <2>4. Deletes' = Deletes \cup {f}
    BY <1>0, <2>3, WriteSent
  <2>5. Complete' = Complete
    BY <2>2 DEF Complete, LimitReached
  <2>. QED  BY <2>1, <2>2, <2>4, <2>5 DEF NoneRemoved, Walking, Removing
<1>6. CASE SetIndexed
  <2>. DEFINE w == [type |-> "index", dir |-> Dir]
  <2>1. /\ pc = "delete" /\ pc' = "sync" /\ Send(w)
        /\ UNCHANGED <<db, saved, stale, kept, walked, stopped, maxPhotos>>
    BY <1>6 DEF SetIndexed, SendOnly, diskVars, taskVars
  <2>2. w \in Writes /\ w.type = "index"
    BY <2>1, Directories DEF Writes
  <2>. HIDE DEF w
  <2>3. Deletes' = Deletes
    BY <1>0, <2>1, <2>2, WriteSent
  <2>4. Complete' = Complete
    BY <2>1 DEF Complete, LimitReached
  <2>. QED  BY <2>1, <2>3, <2>4 DEF NoneRemoved, Walking, Removing
<1>7. CASE Synced
  <2>1. pc' \in {"walk", "idle"} /\ UNCHANGED <<db, saved>> /\ saved = db
    BY <1>7, BarrierAnswered DEF Synced, NextDir
  <2>. QED  BY <2>1 DEF NoneRemoved, Walking, Removing
<1>. QED  BY <1>1, <1>2, <1>3, <1>4, <1>5, <1>6, <1>7 DEF Scan

LEMMA NoneRemovedNext == ASSUME NoWildcards PROVE SInv /\ NoneRemoved /\ [Next]_vars => NoneRemoved'
<1>. SUFFICES ASSUME SInv, NoneRemoved, [Next]_vars PROVE NoneRemoved'
  OBVIOUS
<1>1. CASE Start
  <2>1. UNCHANGED <<db, saved>> /\ pc = "idle" /\ pc' = "walk"
    BY <1>1 DEF Start, dbVars
  <2>. QED  BY <2>1 DEF NoneRemoved, Walking, Removing
<1>2. CASE Change
  <2>1. UNCHANGED <<db, saved, pending, stale, pc, stopped, walked, maxPhotos>> /\ kept' \subseteq kept
    BY <1>2 DEF Change, dbVars, scanVars, taskVars
  <2>. QED  BY <2>1, PendingKept DEF NoneRemoved, Walking, Removing, Complete, LimitReached
<1>3. CASE Stop
  <2>1. UNCHANGED <<db, saved, pc>> /\ stopped'
    BY <1>3 DEF Stop, dbVars, scanVars
  <2>. QED  BY <2>1 DEF NoneRemoved, Walking, Removing, Complete
<1>4. CASE UNCHANGED vars
  <2>1. UNCHANGED <<db, saved, pending, stale, pc, stopped, walked, maxPhotos, kept>>
    BY <1>4 DEF vars, dbVars, scanVars, diskVars, taskVars
  <2>. QED  BY <2>1, PendingKept DEF NoneRemoved, Walking, Removing, Complete, LimitReached
<1>5. CASE CommitThumbDeletes
  <2>1. UNCHANGED <<db, saved, pending, stale, pc, stopped, walked, maxPhotos, kept>>
    BY <1>5 DEF CommitThumbDeletes, dbVars, diskVars, taskVars
  <2>. QED  BY <2>1, PendingKept DEF NoneRemoved, Walking, Removing, Complete, LimitReached
<1>. QED  BY <1>1, <1>2, <1>3, <1>4, <1>5, NoneRemovedWriter, NoneRemovedScan DEF Next

\* CompleteScanKeeps: a scan that is neither stopped nor limited commits no
\* deletion of a file that has been there since the scan of the directory began,
\* below it or elsewhere.  This needs directories whose names match only
\* their own files.
THEOREM ScansKeep == ASSUME NoWildcards PROVE Spec => CompleteScanKeeps
<1>1. Init => NoneRemoved
  <2>1. \A rows : InitDatabase(rows) => saved = db
    BY DEF InitDatabase
  <2>. QED  BY <2>1 DEF Init, NoneRemoved, Walking, Removing, InitDatabase
<1>2. SInv /\ NoneRemoved /\ [Next]_vars =>
         [Complete => (saved.rows \ saved'.rows) \cap kept = {}]_vars
  <2>. SUFFICES ASSUME SInv, NoneRemoved, Next, Complete
                PROVE  (saved.rows \ saved'.rows) \cap kept = {}
    BY DEF vars
  <2>1. UNCHANGED saved \/ saved' = db
    <3>1. Writer => UNCHANGED saved \/ saved' = db
      BY WriterSteps DEF HandleAppend, HandleDelete, HandleIndex, HandleBarrier, HandleFails, Commit, Unlock
    <3>. QED  BY <3>1 DEF Next, Start, Scan, WalkFile, WalkEnds, Check, Write, SendBarrier, SendOnly,
              Committed, WaitForCommit, ListNonexistent, Delete, SetIndexed, Synced, Change, Stop, WriterStep,
              CommitThumbDeletes, dbVars
  <2>2. (saved.rows \ db.rows) \cap kept = {}
    BY PhaseOf DEF SInv, Phases, NoneRemoved
  <2>. QED  BY <2>1, <2>2
<1>. QED  BY <1>1, <1>2, SInvInit, SInvNext, NoneRemovedNext, PTL DEF Spec, CompleteScanKeeps
=============================================================================
