--------------------------- MODULE TaggingProofs ----------------------------
(***************************************************************************)
(* Proofs about tags, for any files, tags, clients and capacity of the     *)
(* channel: whatever the requests, the metadata stage, the file scan and   *)
(* the compactions send, a name has one active version, a tag that was     *)
(* created is found, an answered change is visible, and deleting a file    *)
(* touches no other.  The last section is about the range trees in which   *)
(* the versions are computed.                                              *)
(***************************************************************************)
EXTENDS Tagging, RangeTree, SequenceLemmas

----------------------------------------------------------------------------
(* The inductive invariant.                                                *)

Version == [name : Tags, status : {"active", "old", "gone"}]
Interval == {r \in [version : Nat, low : Files, high : Files] :
              r.low <= r.high /\ r.low..r.high \subseteq Files}
Tables == [rows : SUBSET Files, indexed : SUBSET Dirs,
           tags : Seq(Version), ranges : SUBSET Interval]

\* A range belongs to a version that is still there.
Ranged(d) ==
    \A r \in d.ranges : r.version \in DOMAIN d.tags /\ d.tags[r.version].status # "gone"

OneActive(d) == \A n \in Tags : \A u, v \in Active(d, n) : u = v

\* The writer adds versions; it changes older ones only when it commits at once.
Extends(new, old) ==
    /\ Len(old.tags) <= Len(new.tags)
    /\ \A v \in DOMAIN old.tags : new.tags[v] = old.tags[v]

\* What is committed about a file that still has its row, the writer has too.
Behind ==
    \A r \in saved.ranges : \A g \in db.rows :
        Covers(r, g) => g \in ImageIds(db, r.version)

Stored ==
    /\ db \in Tables /\ Ranged(db) /\ OneActive(db)
    /\ saved \in Tables /\ Ranged(saved)
    /\ Extends(db, saved)
    /\ Behind
    /\ ~locked \/ flushing => db = saved
    /\ locked \in BOOLEAN /\ flushing \in BOOLEAN /\ (flushing => locked)
    /\ barriers = {}

\* What clients and the indexing stages send.
Creations == [type : {"addTag"}, tag : Tags, from : Clients]
Changes == [type : Operations, version : Nat, files : SUBSET Files, from : Clients]
Writes ==
    Creations \cup Changes \cup [type : {"addTagId"}, tag : Tags, file : Files]
        \cup [type : {"delete"}, file : Files] \cup [type : {"compact"}, version : Nat]
FromClient == {"addTag"} \cup RequestTypes

\* A client that has sent a write waits for its answer.
Awaited(w) ==
    /\ w.from \notin answered
    /\ w.type = "addTag" => pc[w.from] = "created" /\ w.tag = request[w.from].tag
    /\ w.type # "addTag" => /\ pc[w.from] = "changing"
                            /\ w.type = request[w.from].op
                            /\ w.version = version[w.from]
                            /\ w.files = request[w.from].files

Sent ==
    /\ pending \in Seq(Writes) /\ Len(pending) <= Capacity
    /\ \A i \in 1..Len(pending) : pending[i].type \in FromClient => Awaited(pending[i])
    /\ \A i \in 1..Len(pending) : pending[i].type = "compact" => pending[i].version \in DOMAIN db.tags
    /\ \A i, j \in 1..Len(pending) :
          pending[i].type \in FromClient /\ pending[j].type \in FromClient
              /\ pending[i].from = pending[j].from => i = j
    /\ compaction \subseteq DOMAIN db.tags
    /\ BagToSet(compactors) \subseteq DOMAIN db.tags

Labels == {"idle", "lookup", "create", "created", "wait", "again", "change", "changing"}

\* A request that has created its tag finds it: in the writer's transaction once
\* it is answered, and among what is committed once the transaction is over.
Asked(c) ==
    /\ pc[c] # "idle" => request[c] \in Request
    /\ pc[c] \in {"change", "changing"} =>
          /\ version[c] \in DOMAIN saved.tags
          /\ saved.tags[version[c]].name = request[c].tag
    /\ c \in answered => pc[c] \in {"created", "changing"}
    /\ pc[c] = "wait" \/ (pc[c] = "created" /\ c \in answered) => Active(db, request[c].tag) # {}
    /\ pc[c] = "again" => Active(saved, request[c].tag) # {}

Requests ==
    /\ pc \in [Clients -> Labels] /\ version \in [Clients -> Nat]
    /\ request \in [Clients -> Request \cup {NoRequest}]
    /\ answered \subseteq Clients
    /\ \A c \in Clients : Asked(c)

TInv == Stored /\ Sent /\ Requests

----------------------------------------------------------------------------
(* Ranges and versions.                                                    *)

\* A finite set of numbers has an end after each of its elements.
LEMMA RunEnds ==
    ASSUME NEW S \in SUBSET Nat, IsFiniteSet(S), NEW f \in S
    PROVE  \E n \in Nat : n >= f /\ f..n \subseteq S /\ n + 1 \notin S
<1>. DEFINE ends == {n \in Nat : n >= f /\ n + 1 \notin S}
            size == Cardinality(S)
            low == f + 1
            high == f + 1 + size
            long == low..high
<1>1. ends # {}
  <2>. SUFFICES ASSUME ends = {} PROVE FALSE
    OBVIOUS
  <2>1. size \in Nat
    BY FS_CardinalityType
  <2>2. \A k \in Nat : k >= f + 1 => k \in S
    <3>. TAKE k \in Nat
    <3>. HAVE k >= f + 1
    <3>1. k - 1 \in Nat /\ k - 1 >= f /\ k - 1 + 1 = k
      OBVIOUS
    <3>. QED  BY <3>1
  <2>3. long \in SUBSET S
    BY <2>1, <2>2
  <2>4. Cardinality(long) <= size
    BY ONLY <2>3, FS_Subset, IsFiniteSet(S)
  <2>5. low \in Int /\ high \in Int /\ high = low + size
    BY <2>1
  <2>. HIDE DEF low, high, size
  <2>6. Cardinality(long) = IF low > high THEN 0 ELSE high - low + 1
    BY ONLY <2>5, FS_Interval
  <2>. QED  BY ONLY <2>1, <2>4, <2>5, <2>6
<1>2. Min(ends) \in ends /\ \A j \in ends : Min(ends) <= j
  <2>1. ends \in SUBSET Nat
    OBVIOUS
  <2>. HIDE DEF ends
  <2>. QED  BY ONLY <1>1, <2>1, MinOfNaturals
<1>. DEFINE n == Min(ends)
<1>3. n \in Nat /\ n >= f /\ n + 1 \notin S
  BY <1>2
<1>. HIDE DEF n
<1>4. ASSUME NEW k \in f..n PROVE k \in S
  <2>1. CASE k = f
    BY <2>1
  <2>2. CASE k # f
    <3>1. k - 1 \in Nat /\ k - 1 >= f /\ k - 1 < n /\ k - 1 + 1 = k
      BY <1>3, <2>2
    <3>2. k - 1 \notin ends
      <4>1. \A j \in ends : n <= j
        BY <1>2 DEF n
      <4>. QED  BY <1>3, <3>1, <4>1
    <3>. QED  BY <3>1, <3>2
  <2>. QED  BY <2>1, <2>2
<1>. QED  BY <1>3, <1>4

\* And a beginning before it.
LEMMA RunBegins ==
    ASSUME NEW S \in SUBSET Nat, NEW f \in S
    PROVE  \E n \in Nat : n <= f /\ n..f \subseteq S /\ n - 1 \notin S
<1>. DEFINE starts == {n \in Nat : n <= f /\ n..f \subseteq S}
<1>1. f \in starts
  OBVIOUS
<1>2. Min(starts) \in starts /\ \A j \in starts : Min(starts) <= j
  <2>1. starts \in SUBSET Nat /\ starts # {}
    BY <1>1
  <2>. HIDE DEF starts
  <2>. QED  BY ONLY <2>1, MinOfNaturals
<1>. DEFINE n == Min(starts)
<1>3. n \in Nat /\ n <= f /\ n..f \subseteq S /\ \A j \in starts : n <= j
  BY <1>2
<1>. HIDE DEF n
<1>4. n - 1 \notin S
  <2>. SUFFICES ASSUME n - 1 \in S PROVE FALSE
    OBVIOUS
  <2>1. n - 1 \in Nat /\ n - 1 <= f
    BY <1>3
  <2>2. ASSUME NEW k \in n - 1..f PROVE k \in S
    <3>1. k = n - 1 \/ k \in n..f
      BY <1>3
    <3>. QED  BY <1>3, <3>1
  <2>3. n - 1 \in starts
    BY <2>1, <2>2
  <2>. QED  BY <1>3, <2>3
<1>. QED  BY <1>3, <1>4

\* The runs of a set of ids cover the set and nothing else.
LEMMA RunsCover ==
    ASSUME NEW v \in Nat, NEW ids \in SUBSET Files
    PROVE  /\ Runs(v, ids) \in SUBSET Interval
           /\ \A r \in Runs(v, ids) : r.version = v /\ r.low..r.high \subseteq ids
           /\ \A f \in ids : \E r \in Runs(v, ids) : Covers(r, f)
<1>1. ids \in SUBSET Nat /\ IsFiniteSet(ids)
  BY DatabaseAssumption, FS_Subset
<1>2. ASSUME NEW r \in Runs(v, ids)
      PROVE  /\ r \in Interval /\ r.version = v /\ r.low..r.high \subseteq ids
  <2>1. PICK run \in ids \X ids :
           /\ run[1] <= run[2] /\ run[1]..run[2] \subseteq ids
           /\ r = [version |-> v, low |-> run[1], high |-> run[2]]
    BY DEF Runs
  <2>2. run[1] \in ids /\ run[2] \in ids
    OBVIOUS
  <2>. QED  BY <1>1, <2>1, <2>2 DEF Interval
<1>3. ASSUME NEW f \in ids
      PROVE  \E r \in Runs(v, ids) : Covers(r, f)
  <2>1. PICK b \in Nat : b >= f /\ f..b \subseteq ids /\ b + 1 \notin ids
    BY ONLY <1>1, f \in ids, RunEnds
  <2>2. PICK a \in Nat : a <= f /\ a..f \subseteq ids /\ a - 1 \notin ids
    BY ONLY <1>1, f \in ids, RunBegins
  <2>0. f \in Nat
    BY <1>1
  <2>3. a <= b /\ a..b \subseteq ids /\ a \in ids /\ b \in ids
    <3>1. ASSUME NEW k \in a..b PROVE k \in ids
      <4>1. k \in a..f \/ k \in f..b
        BY <2>0
      <4>. QED  BY <2>1, <2>2, <4>1
    <3>. QED  BY <2>0, <2>1, <2>2, <3>1
  <2>. DEFINE p == <<a, b>>
              r == [version |-> v, low |-> p[1], high |-> p[2]]
  <2>4. p \in ids \X ids /\ p[1] = a /\ p[2] = b
    BY <2>3
  <2>. HIDE DEF p
  <2>5. r \in Runs(v, ids)
    BY <2>1, <2>2, <2>3, <2>4 DEF Runs
  <2>6. Covers(r, f)
    BY <2>1, <2>2, <2>4 DEF Covers
  <2>. QED  BY <2>5, <2>6
<1>. QED  BY <1>2, <1>3

\* Every version of a table is a version.
LEMMA TablesHave ==
    ASSUME NEW d \in Tables
    PROVE  /\ d.tags \in Seq(Version) /\ DOMAIN d.tags = 1..Len(d.tags) /\ Len(d.tags) \in Nat
           /\ \A v \in DOMAIN d.tags : d.tags[v] \in Version /\ v \in Nat
           /\ \A n : Active(d, n) \subseteq DOMAIN d.tags
           /\ \A v : ImageIds(d, v) \subseteq Files
           /\ d.ranges \in SUBSET Interval /\ d.rows \subseteq Files
BY DEF Tables, Active, ImageIds

\* A tag that was not there gets a first version, which is active.
LEMMA TagAddedGives ==
    ASSUME NEW d \in Tables, Ranged(d), OneActive(d), NEW n \in Tags, Active(d, n) = {}
    PROVE  LET r == TagAdded(d, n)
               new == Len(d.tags) + 1
           IN  /\ r \in Tables /\ Ranged(r) /\ OneActive(r)
               /\ Extends(r, d) /\ Len(r.tags) = new
               /\ r.rows = d.rows /\ r.ranges = d.ranges
               /\ Active(r, n) = {new}
               /\ \A m \in Tags : Active(d, m) \subseteq Active(r, m)
<1>. DEFINE e == [name |-> n, status |-> "active"]
            t == Append(d.tags, e)
            new == Len(d.tags) + 1
            r == TagAdded(d, n)
<1>1. /\ d.tags \in Seq(Version) /\ DOMAIN d.tags = 1..Len(d.tags) /\ Len(d.tags) \in Nat
  BY TablesHave
<1>2. e \in Version /\ e.name = n /\ e.status = "active"
  BY DEF Version
<1>. HIDE DEF e
<1>3. /\ t \in Seq(Version) /\ Len(t) = new /\ DOMAIN t = 1..new
      /\ t[new] = e /\ \A v \in 1..Len(d.tags) : t[v] = d.tags[v]
  BY <1>1, <1>2
<1>4. r = [d EXCEPT !.tags = t]
  BY DEF TagAdded, e
<1>. HIDE DEF t, r
<1>5. /\ r \in Tables /\ r.tags = t /\ r.rows = d.rows /\ r.ranges = d.ranges
  BY <1>3, <1>4 DEF Tables
<1>6. Extends(r, d) /\ Len(r.tags) = new
  BY <1>1, <1>3, <1>5 DEF Extends
<1>7. Ranged(r)
  BY <1>1, <1>3, <1>5 DEF Ranged
<1>8. \A m \in Tags : Active(r, m) = Active(d, m) \cup (IF m = n THEN {new} ELSE {})
  BY <1>1, <1>2, <1>3, <1>5 DEF Active
<1>9. OneActive(r)
  BY <1>8 DEF OneActive
<1>. QED  BY <1>5, <1>6, <1>7, <1>8, <1>9 DEF r, t, e

\* A new version of a tag takes the place of the active one and holds the ids it
\* is given.
Versioned(r, d, n, ids) ==
    LET new == Len(d.tags) + 1
    IN  /\ r \in Tables /\ Ranged(r) /\ OneActive(r)
        /\ Len(r.tags) = new
        /\ \A v \in DOMAIN d.tags : v \in DOMAIN r.tags /\ r.tags[v].name = d.tags[v].name
        /\ Active(r, n) = {new} /\ ImageIds(r, new) = ids
        /\ \A m \in Tags : Active(d, m) # {} => Active(r, m) # {}

LEMMA VersionAddedGives ==
    ASSUME NEW d \in Tables, Ranged(d), OneActive(d), NEW n \in Tags, NEW ids \in SUBSET Files,
           NEW pruned \in SUBSET Prunable(d, n)
    PROVE  Versioned(VersionAdded(d, n, ids, pruned), d, n, ids)
<1>. DEFINE e == [name |-> n, status |-> "active"]
            new == Len(d.tags) + 1
            Status(v) == IF v \in pruned THEN "gone"
                         ELSE IF d.tags[v].name = n /\ d.tags[v].status # "gone" THEN "old"
                         ELSE d.tags[v].status
            older == [v \in DOMAIN d.tags |-> [d.tags[v] EXCEPT !.status = Status(v)]]
            t == Append(older, e)
            left == {r \in d.ranges : r.version \notin pruned}
            ranges == left \cup Runs(new, ids)
            r == VersionAdded(d, n, ids, pruned)
<1>1. /\ d.tags \in Seq(Version) /\ DOMAIN d.tags = 1..Len(d.tags) /\ Len(d.tags) \in Nat
      /\ \A v \in DOMAIN d.tags : d.tags[v] \in Version
      /\ d.ranges \in SUBSET Interval
  BY TablesHave
<1>2. e \in Version /\ e.name = n /\ e.status = "active"
  BY DEF Version
<1>3. \A v \in pruned : v \in DOMAIN d.tags /\ d.tags[v].name = n
  BY DEF Prunable
<1>4. r = [d EXCEPT !.tags = t, !.ranges = ranges]
  BY DEF VersionAdded
<1>. HIDE DEF e, r
<1>5. \A v \in 1..Len(d.tags) :
          /\ older[v] \in Version /\ older[v].name = d.tags[v].name
          /\ older[v].status = Status(v)
  BY <1>1 DEF Version
<1>6. older = [v \in 1..Len(d.tags) |-> older[v]]
  BY <1>1
<1>. HIDE DEF older
<1>7. older \in Seq(Version) /\ Len(older) = Len(d.tags)
  <2>. DEFINE N == Len(d.tags)
  <2>1. N \in Nat /\ \A v \in 1..N : older[v] \in Version
    BY <1>1, <1>5
  <2>2. older = [v \in 1..N |-> older[v]]
    BY <1>6
  <2>. HIDE DEF N
  <2>3. older \in [1..N -> Version]
    BY ONLY <2>1, <2>2
  <2>4. older \in Seq(Version) /\ Len(older) = N
    BY ONLY <2>1, <2>3
  <2>. QED  BY ONLY <2>4 DEF N
<1>8. /\ t \in Seq(Version) /\ Len(t) = new /\ DOMAIN t = 1..new
      /\ t[new] = e /\ \A v \in 1..Len(d.tags) : t[v] = older[v]
  BY <1>1, <1>2, <1>7
<1>. HIDE DEF t
<1>9. /\ Runs(new, ids) \in SUBSET Interval
      /\ \A s \in Runs(new, ids) : s.version = new /\ s.low..s.high \subseteq ids
      /\ \A f \in ids : \E s \in Runs(new, ids) : Covers(s, f)
  <2>1. new \in Nat
    BY <1>1
  <2>. QED  BY ONLY <2>1, ids \in SUBSET Files, RunsCover
<1>10. /\ r \in Tables /\ r.tags = t /\ r.rows = d.rows /\ r.ranges = ranges
  <2>1. ranges \in SUBSET Interval
    BY <1>1, <1>9
  <2>. HIDE DEF ranges
  <2>. QED  BY <1>4, <1>8, <2>1 DEF Tables
<1>11. Ranged(r)
  <2>. SUFFICES ASSUME NEW s \in ranges
                PROVE  s.version \in DOMAIN t /\ t[s.version].status # "gone"
    BY <1>10 DEF Ranged
  <2>1. CASE s \in left
    <3>1. s.version \in 1..Len(d.tags) /\ d.tags[s.version].status # "gone" /\ s.version \notin pruned
      BY <1>1, <2>1 DEF Ranged
    <3>. QED  BY <1>1, <1>5, <1>8, <3>1
  <2>2. CASE s \in Runs(new, ids)
    BY <1>1, <1>2, <1>8, <1>9, <2>2
  <2>. QED  BY <2>1, <2>2
<1>12. \A v \in DOMAIN d.tags : v \in DOMAIN r.tags /\ r.tags[v].name = d.tags[v].name
  BY <1>1, <1>5, <1>8, <1>10
<1>13. \A m \in Tags : Active(r, m) = IF m = n THEN {new} ELSE Active(d, m)
  <2>. SUFFICES ASSUME NEW m \in Tags, NEW v \in 1..new
                PROVE  t[v].name = m /\ t[v].status = "active"
                         <=> IF m = n THEN v = new ELSE v \in Active(d, m)
    BY <1>1, <1>8, <1>10 DEF Active
  <2>1. CASE v = new
    <3>1. v \notin Active(d, m)
      BY <1>1, <2>1 DEF Active
    <3>. QED  BY <1>2, <1>8, <2>1, <3>1
  <2>2. CASE v # new
    <3>1. v \in 1..Len(d.tags)
      BY <1>1, <2>2
    <3>2. t[v].name = d.tags[v].name /\ t[v].status = Status(v)
      BY <1>5, <1>8, <3>1
    <3>3. v \in Active(d, m) <=> d.tags[v].name = m /\ d.tags[v].status = "active"
      BY <1>1, <3>1 DEF Active
    <3>4. v \in pruned => d.tags[v].name = n
      BY <1>3
    <3>. QED  BY <2>2, <3>2, <3>3, <3>4
  <2>. QED  BY <2>1, <2>2
<1>14. OneActive(r)
  BY <1>13 DEF OneActive
<1>15. ImageIds(r, new) = ids
  <2>1. \A s \in left : s.version # new
    BY <1>1 DEF Ranged
  <2>2. ASSUME NEW f \in ids PROVE f \in ImageIds(r, new)
    BY <1>9, <1>10, <2>2 DEF ImageIds
  <2>3. ASSUME NEW f \in ImageIds(r, new) PROVE f \in ids
    <3>1. PICK s \in ranges : s.version = new /\ Covers(s, f)
      BY <1>10, <2>3 DEF ImageIds
    <3>2. s \in Runs(new, ids)
      BY <2>1, <3>1
    <3>3. f \in Nat /\ s \in Interval
      BY <1>9, <2>3, <3>2, DatabaseAssumption DEF ImageIds
    <3>4. f \in s.low..s.high
      BY <3>1, <3>3, DatabaseAssumption DEF Covers, Interval
    <3>. QED  BY <1>9, <3>2, <3>4
  <2>. QED  BY <2>2, <2>3
<1>16. Active(r, n) = {new} /\ \A m \in Tags : Active(d, m) # {} => Active(r, m) # {}
  BY <1>13
<1>. HIDE DEF new
<1>17. Len(r.tags) = new
  BY <1>8, <1>10
<1>. QED  BY <1>10, <1>11, <1>12, <1>14, <1>15, <1>16, <1>17 DEF r, new, Versioned

\* Deleting a file leaves the other files' ranges, and brings back nothing of a
\* file that still has its row: Behind.
LEMMA DeletedGives ==
    ASSUME NEW d \in Tables, NEW old \in Tables, Ranged(d), Ranged(old), Extends(d, old),
           \A r \in old.ranges : \A g \in d.rows : Covers(r, g) => g \in ImageIds(d, r.version),
           NEW f \in Files
    PROVE  LET e == Deleted(d, old, f)
           IN  /\ e \in Tables /\ Ranged(e) /\ e.tags = d.tags /\ e.rows = d.rows \ {f}
               /\ \A v \in Nat, g \in d.rows \ {f} : g \in ImageIds(d, v) <=> g \in ImageIds(e, v)
<1>. DEFINE hit == {r \in old.ranges : Covers(r, f)}
            pieces == UNION {Split(r, f) : r \in hit}
            ranges == (d.ranges \ hit) \cup pieces
            e == Deleted(d, old, f)
<1>1. /\ \A r \in d.ranges \cup old.ranges : r \in Interval
      /\ d.rows \subseteq Files
  BY TablesHave
<1>2. f \in Nat /\ Files \subseteq Nat
  BY DatabaseAssumption
<1>3. ASSUME NEW s \in pieces
      PROVE  \E r \in hit : /\ s \in Split(r, f) /\ s \in Interval /\ s.version = r.version
                            /\ s.low..s.high \subseteq (r.low..r.high) \ {f}
  <2>1. PICK r \in hit : s \in Split(r, f)
    OBVIOUS
  <2>2. r \in Interval /\ r.low <= f /\ f <= r.high
    BY <1>1 DEF Covers
  <2>3. /\ r.version \in Nat /\ r.low \in Nat /\ r.high \in Nat /\ r.low..r.high \subseteq Files
        /\ r = [version |-> r.version, low |-> r.low, high |-> r.high]
    BY <1>2, <2>2 DEF Interval
  <2>4. s.low <= s.high /\ (s = [r EXCEPT !.high = f - 1] \/ s = [r EXCEPT !.low = f + 1])
    BY <2>1 DEF Split
  <2>5. s = [version |-> r.version, low |-> r.low, high |-> f - 1]
          \/ s = [version |-> r.version, low |-> f + 1, high |-> r.high]
    BY <2>3, <2>4
  <2>6. \A k \in s.low..s.high : k \in r.low..r.high /\ k # f
    BY <1>2, <2>2, <2>3, <2>5
  <2>7. s.low \in s.low..s.high /\ s.high \in s.low..s.high /\ s.version = r.version
    BY <1>2, <2>3, <2>4, <2>5
  <2>8. s \in [version : Nat, low : Files, high : Files]
    BY <2>3, <2>5, <2>6, <2>7
  <2>9. s \in Interval
    BY <2>3, <2>4, <2>6, <2>8 DEF Interval
  <2>. QED  BY <2>1, <2>6, <2>7, <2>9
<1>4. e = [d EXCEPT !.rows = d.rows \ {f}, !.ranges = ranges]
  BY DEF Deleted
<1>. HIDE DEF e
<1>5. e \in Tables /\ e.tags = d.tags /\ e.rows = d.rows \ {f} /\ e.ranges = ranges
  <2>1. ranges \in SUBSET Interval
    BY <1>1, <1>3
  <2>2. d.rows \ {f} \in SUBSET Files
    BY <1>1
  <2>. HIDE DEF ranges
  <2>. QED  BY <1>4, <2>1, <2>2 DEF Tables
<1>6. Ranged(e)
  <2>. SUFFICES ASSUME NEW s \in ranges
                PROVE  s.version \in DOMAIN d.tags /\ d.tags[s.version].status # "gone"
    BY <1>5 DEF Ranged
  <2>1. CASE s \in d.ranges
    BY <2>1 DEF Ranged
  <2>2. CASE s \in pieces
    <3>1. PICK r \in hit : s.version = r.version
      BY <1>3, <2>2
    <3>2. r.version \in DOMAIN old.tags /\ old.tags[r.version].status # "gone"
      BY <3>1 DEF Ranged
    <3>3. DOMAIN old.tags = 1..Len(old.tags) /\ DOMAIN d.tags = 1..Len(d.tags)
          /\ Len(old.tags) \in Nat /\ Len(d.tags) \in Nat
      BY TablesHave
    <3>. QED  BY <3>1, <3>2, <3>3 DEF Extends
  <2>. QED  BY <2>1, <2>2
<1>7. ASSUME NEW v \in Nat, NEW g \in d.rows \ {f}, g \in ImageIds(d, v)
      PROVE  g \in ImageIds(e, v)
  <2>1. PICK r \in d.ranges : r.version = v /\ Covers(r, g)
    BY <1>7 DEF ImageIds
  <2>2. CASE r \notin hit
    BY <1>1, <1>5, <2>1, <2>2 DEF ImageIds
  <2>3. CASE r \in hit
    <3>1. r \in Interval /\ r.low <= g /\ g <= r.high /\ g \in Nat /\ g # f
      BY <1>1, <1>2, <2>1 DEF Covers
    <3>2. /\ r.version \in Nat /\ r.low \in Nat /\ r.high \in Nat
          /\ r = [version |-> r.version, low |-> r.low, high |-> r.high]
      BY <1>2, <3>1 DEF Interval
    <3>. DEFINE below == [r EXCEPT !.high = f - 1]
                above == [r EXCEPT !.low = f + 1]
    <3>3. /\ below = [version |-> r.version, low |-> r.low, high |-> f - 1]
          /\ above = [version |-> r.version, low |-> f + 1, high |-> r.high]
      BY <3>2
    <3>. HIDE DEF below, above
    <3>4. \E s \in {below, above} : s.low <= s.high /\ s.version = v /\ s.low <= g /\ g <= s.high
      BY <1>2, <2>1, <3>1, <3>2, <3>3
    <3>5. \E s \in Split(r, f) : s.version = v /\ s.low <= g /\ g <= s.high
      BY <3>4 DEF Split, below, above
    <3>6. \E s \in ranges : s.version = v /\ Covers(s, g)
      BY <2>3, <3>5 DEF Covers
    <3>. QED  BY <1>1, <1>5, <3>6 DEF ImageIds
  <2>. QED  BY <2>2, <2>3
<1>8. ASSUME NEW v \in Nat, NEW g \in d.rows \ {f}, g \in ImageIds(e, v)
      PROVE  g \in ImageIds(d, v)
  <2>1. PICK s \in ranges : s.version = v /\ Covers(s, g)
    BY <1>5, <1>8 DEF ImageIds
  <2>2. CASE s \in d.ranges
    BY <1>1, <2>1, <2>2 DEF ImageIds
  <2>3. CASE s \in pieces
    <3>1. PICK r \in hit : /\ s \in Interval /\ s.version = r.version
                           /\ s.low..s.high \subseteq (r.low..r.high) \ {f}
      BY <1>3, <2>3
    <3>2. g \in Nat /\ r \in Interval /\ s.low <= g /\ g <= s.high
      BY <1>1, <1>2, <2>1 DEF Covers
    <3>3. s.low \in Nat /\ s.high \in Nat /\ r.low \in Nat /\ r.high \in Nat
      BY <1>2, <3>1, <3>2 DEF Interval
    <3>4. g \in s.low..s.high
      BY <3>2, <3>3
    <3>5. g \in r.low..r.high
      BY <3>1, <3>4
    <3>6. Covers(r, g)
      BY <3>2, <3>3, <3>5 DEF Covers
    <3>. QED  BY <2>1, <3>1, <3>6
  <2>. QED  BY <2>2, <2>3
<1>. QED  BY <1>5, <1>6, <1>7, <1>8 DEF e

----------------------------------------------------------------------------
(* Writes that are sent and received.                                      *)

\* A write goes to the end of the channel.
LEMMA WriteSent ==
    ASSUME pending \in Seq(Writes), NEW w \in Writes, Send(w)
    PROVE  /\ pending' \in Seq(Writes) /\ Len(pending') = Len(pending) + 1
           /\ Len(pending) \in Nat /\ Len(pending') <= Capacity
           /\ pending'[Len(pending')] = w
           /\ \A i \in 1..Len(pending) : pending'[i] = pending[i]
<1>1. pending' = Append(pending, w) /\ Len(pending) < Capacity /\ Capacity \in Nat
  BY DatabaseAssumption DEF Send, CanSend
<1>. HIDE DEF Writes
<1>. QED  BY <1>1

\* The writer takes the first.
LEMMA WriteReceived ==
    ASSUME pending \in Seq(Writes), NEW types, Receive(types)
    PROVE  /\ Head(pending) = pending[1] /\ pending[1] \in Writes /\ pending[1].type \in types
           /\ pending' \in Seq(Writes) /\ Len(pending') = Len(pending) - 1
           /\ Len(pending) \in Nat /\ Len(pending) >= 1
           /\ \A i \in 1..Len(pending) - 1 : pending'[i] = pending[i + 1]
<1>1. pending # <<>> /\ Head(pending).type \in types /\ pending' = Tail(pending)
  BY DEF Receive
<1>. HIDE DEF Writes
<1>2. Head(pending) = pending[1] /\ pending[1] \in Writes /\ Len(pending) \in Nat /\ Len(pending) >= 1
  BY <1>1
<1>. QED  BY <1>1, <1>2

\* What a write may be, by its type.
LEMMA WriteKinds ==
    ASSUME NEW w \in Writes
    PROVE  /\ w.type \in Types \ {"append", "index", "barrier"}
           /\ w.type = "addTag" => w.tag \in Tags /\ w.from \in Clients
           /\ w.type \in RequestTypes =>
                 w.version \in Nat /\ w.files \in SUBSET Files /\ w.from \in Clients
           /\ w.type = "addTagId" => w.tag \in Tags /\ w.file \in Files
           /\ w.type = "delete" => w.file \in Files
           /\ w.type = "compact" => w.version \in Nat
BY TaggingAssumption DEF Writes, Creations, Changes, RequestTypes, Types

\* The versions and the tags that have an active one stay.
Grown(old, new) ==
    /\ \A v \in DOMAIN old.tags : v \in DOMAIN new.tags /\ new.tags[v].name = old.tags[v].name
    /\ \A m \in Tags : Active(old, m) # {} => Active(new, m) # {}

LEMMA ExtendsGrown ==
    ASSUME NEW old \in Tables, NEW new \in Tables, Extends(new, old)
    PROVE  Grown(old, new) /\ \A m \in Tags : Active(old, m) \subseteq Active(new, m)
<1>1. /\ DOMAIN old.tags = 1..Len(old.tags) /\ Len(old.tags) \in Nat
      /\ DOMAIN new.tags = 1..Len(new.tags) /\ Len(new.tags) \in Nat
  BY TablesHave
<1>2. \A v \in DOMAIN old.tags : v \in DOMAIN new.tags /\ new.tags[v] = old.tags[v]
  BY <1>1 DEF Extends
<1>. QED  BY <1>2 DEF Grown, Active

\* A client whose request is not with the writer has no write on the way.
Unsent(c) == \A i \in 1..Len(pending) : pending[i].type \in FromClient => pending[i].from # c

LEMMA NothingSent ==
    ASSUME TInv, NEW c \in Clients, pc[c] \notin {"created", "changing"} \/ c \in answered
    PROVE  Unsent(c)
BY DEF TInv, Sent, Awaited, Unsent

\* What a step of one client does to the writes on their way.
LEMMA SentByClient ==
    ASSUME TInv, NEW c \in Clients, Unsent(c),
           UNCHANGED <<db, compaction, compactors>>, answered' \subseteq answered,
           \A b \in Clients \ {c} :
               pc'[b] = pc[b] /\ request'[b] = request[b] /\ version'[b] = version[b],
           \/ UNCHANGED pending
           \/ \E w \in Writes : Send(w) /\ w.type \in FromClient /\ w.from = c /\ Awaited(w)'
    PROVE  Sent'
<1>1. /\ pending \in Seq(Writes) /\ Len(pending) <= Capacity /\ Len(pending) \in Nat
      /\ \A i \in 1..Len(pending) : pending[i] \in Writes
  BY DEF TInv, Sent
<1>2. ASSUME NEW i \in 1..Len(pending), NEW w \in Writes, w = pending[i], w.type \in FromClient
      PROVE  Awaited(w)' /\ w.from # c
  <2>1. w.from \in Clients \ {c} /\ Awaited(w)
    <3>1. w.from \in Clients
      BY <1>2, WriteKinds DEF FromClient
    <3>. QED  BY <1>2, <3>1 DEF Unsent, TInv, Sent
  <2>. QED  BY <2>1 DEF Awaited
<1>3. /\ pending' \in Seq(Writes) /\ Len(pending') <= Capacity
      /\ Len(pending') = Len(pending) \/ Len(pending') = Len(pending) + 1
      /\ \A i \in 1..Len(pending) : pending'[i] = pending[i]
      /\ \A i \in 1..Len(pending') : i = Len(pending) + 1 =>
            /\ pending'[i] \in Writes /\ pending'[i].type \in FromClient /\ pending'[i].from = c
            /\ \E w \in Writes : w = pending'[i] /\ Awaited(w)'
  <2>1. CASE UNCHANGED pending
    BY <1>1, <2>1
  <2>2. ASSUME NEW w \in Writes, Send(w), w.type \in FromClient, w.from = c, Awaited(w)'
        PROVE  <1>3!:
    <3>1. /\ pending' \in Seq(Writes) /\ Len(pending') = Len(pending) + 1
          /\ Len(pending') <= Capacity /\ pending'[Len(pending')] = w
          /\ \A i \in 1..Len(pending) : pending'[i] = pending[i]
      BY ONLY <1>1, <2>2, WriteSent
    <3>. HIDE DEF Writes
    <3>. QED  BY <1>1, <2>2, <3>1
  <2>. QED  BY <2>1, <2>2
<1>4. ASSUME NEW i \in 1..Len(pending'), NEW w \in Writes, w = pending'[i], w.type \in FromClient
      PROVE  Awaited(w)'
  <2>1. CASE i \in 1..Len(pending)
    BY <1>2, <1>3, <1>4, <2>1
  <2>2. CASE i = Len(pending) + 1
    BY <1>3, <1>4, <2>2
  <2>. QED  BY <1>1, <1>3, <2>1, <2>2
<1>5. \A i \in 1..Len(pending') : pending'[i] \in Writes
  BY <1>3
<1>6. \A i \in 1..Len(pending') : pending'[i].type \in FromClient => Awaited(pending[i])'
  BY <1>4, <1>5 DEF Awaited
<1>7. \A i \in 1..Len(pending') : pending'[i].type = "compact" => pending'[i].version \in DOMAIN db.tags
  <2>. SUFFICES ASSUME NEW i \in 1..Len(pending'), pending'[i].type = "compact"
                PROVE  pending'[i].version \in DOMAIN db.tags
    OBVIOUS
  <2>1. i \in 1..Len(pending)
    BY <1>1, <1>3 DEF FromClient, RequestTypes
  <2>. QED  BY <1>3, <2>1 DEF TInv, Sent
<1>8. \A i, j \in 1..Len(pending') :
          pending'[i].type \in FromClient /\ pending'[j].type \in FromClient
              /\ pending'[i].from = pending'[j].from => i = j
  <2>1. \A i \in 1..Len(pending) : pending[i].type \in FromClient => pending[i].from # c
    BY DEF Unsent
  <2>2. \A i \in 1..Len(pending') : i \in 1..Len(pending) \/ i = Len(pending) + 1
    BY <1>1, <1>3
  <2>3. \A i, j \in 1..Len(pending) :
          pending[i].type \in FromClient /\ pending[j].type \in FromClient
              /\ pending[i].from = pending[j].from => i = j
    BY DEF TInv, Sent
  <2>. QED  BY <1>3, <2>1, <2>2, <2>3
<1>. QED  BY <1>3, <1>6, <1>7, <1>8 DEF TInv, Sent

\* A step of an indexing stage, or of a compaction's goroutine.
LEMMA SentByStage ==
    ASSUME TInv, UNCHANGED <<db, compaction, answered, pc, request, version>>,
           BagToSet(compactors') \subseteq DOMAIN db.tags,
           NEW w \in Writes, Send(w), w.type \notin FromClient,
           w.type = "compact" => w.version \in DOMAIN db.tags
    PROVE  Sent'
<1>1. /\ pending \in Seq(Writes) /\ Len(pending) \in Nat
      /\ \A i \in 1..Len(pending) : pending[i].type \in FromClient => Awaited(pending[i])
  BY DEF TInv, Sent
<1>2. /\ pending' \in Seq(Writes) /\ Len(pending') = Len(pending) + 1
      /\ Len(pending') <= Capacity /\ pending'[Len(pending')] = w
      /\ \A i \in 1..Len(pending) : pending'[i] = pending[i]
  BY ONLY <1>1, w \in Writes, Send(w), WriteSent
<1>3. \A i \in 1..Len(pending') :
          (i \in 1..Len(pending) /\ pending'[i] = pending[i]) \/ (i = Len(pending') /\ pending'[i] = w)
  BY <1>1, <1>2
<1>4. \A i \in 1..Len(pending') : pending'[i].type \in FromClient => Awaited(pending[i])'
  <2>. SUFFICES ASSUME NEW i \in 1..Len(pending'), pending'[i].type \in FromClient
                PROVE  Awaited(pending[i])'
    OBVIOUS
  <2>1. i \in 1..Len(pending) /\ pending'[i] = pending[i]
    BY <1>3
  <2>. QED  BY <1>1, <2>1 DEF Awaited
<1>. QED  BY <1>2, <1>3, <1>4 DEF TInv, Sent

\* The writer takes a write, and may answer its client.
LEMMA SentReceived ==
    ASSUME TInv, UNCHANGED <<pc, request, version, compactors>>, Receive(Types),
           db' \in Tables, Grown(db, db'),
           compaction' \subseteq DOMAIN db'.tags,
           \A c \in answered' \ answered : pending[1].type \in FromClient /\ c = pending[1].from
    PROVE  Sent'
<1>1. /\ pending \in Seq(Writes) /\ Len(pending) <= Capacity /\ Capacity \in Nat
      /\ \A i \in 1..Len(pending) : pending[i].type \in FromClient => Awaited(pending[i])
      /\ \A i \in 1..Len(pending) : pending[i].type = "compact" => pending[i].version \in DOMAIN db.tags
      /\ \A i, j \in 1..Len(pending) :
            pending[i].type \in FromClient /\ pending[j].type \in FromClient
                /\ pending[i].from = pending[j].from => i = j
      /\ BagToSet(compactors) \subseteq DOMAIN db.tags
  BY DatabaseAssumption DEF TInv, Sent
<1>2. /\ pending' \in Seq(Writes) /\ Len(pending') = Len(pending) - 1
      /\ Len(pending) \in Nat /\ Len(pending) >= 1
      /\ \A i \in 1..Len(pending) - 1 : pending'[i] = pending[i + 1]
  BY ONLY <1>1, Receive(Types), WriteReceived
<1>3. DOMAIN db.tags \subseteq DOMAIN db'.tags
  BY DEF Grown
<1>4. \A i \in 1..Len(pending') :
          i + 1 \in 1..Len(pending) /\ i + 1 # 1 /\ pending'[i] = pending[i + 1] /\ 1 \in 1..Len(pending)
  BY <1>2
<1>5. \A i \in 1..Len(pending') : pending'[i].type \in FromClient => Awaited(pending[i])'
  <2>. SUFFICES ASSUME NEW i \in 1..Len(pending'), pending'[i].type \in FromClient
                PROVE  Awaited(pending[i])'
    OBVIOUS
  <2>. DEFINE w == pending[i + 1]
  <2>1. w = pending'[i] /\ w.type \in FromClient /\ Awaited(w)
    BY <1>1, <1>4
  <2>2. w.from \notin answered'
    <3>. SUFFICES ASSUME w.from \in answered' PROVE FALSE
      OBVIOUS
    <3>1. w.from \notin answered
      BY <2>1 DEF Awaited
    <3>2. pending[1].type \in FromClient /\ pending[i + 1].from = pending[1].from
      BY <3>1
    <3>. QED  BY <1>1, <1>4, <2>1, <3>2
  <2>. QED  BY <2>1, <2>2 DEF Awaited
<1>6. \A i \in 1..Len(pending') : pending'[i].type = "compact" => pending'[i].version \in DOMAIN db'.tags
  BY <1>1, <1>3, <1>4
<1>7. \A i, j \in 1..Len(pending') :
          pending'[i].type \in FromClient /\ pending'[j].type \in FromClient
              /\ pending'[i].from = pending'[j].from => i = j
  <2>. SUFFICES ASSUME NEW i \in 1..Len(pending'), NEW j \in 1..Len(pending'),
                       pending'[i].type \in FromClient, pending'[j].type \in FromClient,
                       pending'[i].from = pending'[j].from
                PROVE  i = j
    OBVIOUS
  <2>1. i + 1 = j + 1
    BY <1>1, <1>4
  <2>. QED  BY <2>1
<1>8. Len(pending') <= Capacity
  BY <1>1, <1>2
<1>. QED  BY <1>1, <1>2, <1>3, <1>5, <1>6, <1>7, <1>8 DEF Sent

\* What requests have found stays as the writer goes on.
LEMMA RequestsKept ==
    ASSUME TInv, UNCHANGED <<pc, request, version>>, answered \subseteq answered',
           Grown(db, db'), Grown(saved, saved'),
           \A c \in answered' \ answered :
               /\ c \in Clients /\ pc[c] \in {"created", "changing"}
               /\ pc[c] = "created" => Active(db', request[c].tag) # {}
    PROVE  Requests'
<1>1. ASSUME NEW c \in Clients PROVE Asked(c)'
  <2>1. Asked(c)
    BY DEF TInv, Requests
  <2>2. pc[c] # "idle" => request[c].tag \in Tags
    BY <2>1 DEF Asked, Request
  <2>3. pc[c] \in {"change", "changing"} =>
            version[c] \in DOMAIN saved'.tags /\ saved'.tags[version[c]].name = request[c].tag
    BY <2>1 DEF Asked, Grown
  <2>4. pc[c] = "wait" \/ (pc[c] = "created" /\ c \in answered') => Active(db', request[c].tag) # {}
    BY <2>1, <2>2 DEF Asked, Grown
  <2>5. pc[c] = "again" => Active(saved', request[c].tag) # {}
    BY <2>1, <2>2 DEF Asked, Grown
  <2>6. c \in answered' => pc[c] \in {"created", "changing"}
    BY <2>1 DEF Asked
  <2>7. pc'[c] = pc[c] /\ request'[c] = request[c] /\ version'[c] = version[c]
    OBVIOUS
  <2>. QED  BY <2>1, <2>3, <2>4, <2>5, <2>6, <2>7 DEF Asked, Active
<1>. QED  BY <1>1 DEF TInv, Requests

\* A step of a client changes nobody else's request.
LEMMA OnlyOneAsks ==
    ASSUME TInv, NEW c \in Clients, UNCHANGED <<db, saved>>,
           answered' = answered \/ answered' = answered \ {c},
           NEW l \in Labels, pc' = [pc EXCEPT ![c] = l],
           NEW r \in Request \cup {NoRequest}, request' = [request EXCEPT ![c] = r],
           NEW v \in Nat, version' = [version EXCEPT ![c] = v],
           Asked(c)'
    PROVE  /\ Requests' /\ pc'[c] = l /\ request'[c] = r /\ version'[c] = v
           /\ \A b \in Clients \ {c} :
                  pc'[b] = pc[b] /\ request'[b] = request[b] /\ version'[b] = version[b]
<1>1. /\ pc \in [Clients -> Labels] /\ version \in [Clients -> Nat]
      /\ request \in [Clients -> Request \cup {NoRequest}]
      /\ answered \subseteq Clients
      /\ \A b \in Clients : Asked(b)
  BY DEF TInv, Requests
<1>. HIDE DEF Request, NoRequest
<1>2. \A b \in Clients \ {c} :
          pc'[b] = pc[b] /\ request'[b] = request[b] /\ version'[b] = version[b]
  BY <1>1
<1>3. ASSUME NEW b \in Clients PROVE Asked(b)'
  <2>1. CASE b = c
    BY <2>1
  <2>2. CASE b # c
    <3>1. Asked(b) /\ (b \in answered' <=> b \in answered)
      BY <1>1, <2>2
    <3>. QED  BY <1>2, <2>2, <3>1 DEF Asked, Active
  <2>. QED  BY <2>1, <2>2
<1>4. /\ pc' \in [Clients -> Labels] /\ version' \in [Clients -> Nat]
      /\ request' \in [Clients -> Request \cup {NoRequest}]
      /\ answered' \subseteq Clients
      /\ pc'[c] = l /\ request'[c] = r /\ version'[c] = v
  BY <1>1
<1>. QED  BY <1>2, <1>3, <1>4 DEF Requests

----------------------------------------------------------------------------
(* Every step keeps the invariant.                                         *)

LEMMA InitTInv == Init => TInv
<1>. SUFFICES ASSUME Init PROVE TInv
  OBVIOUS
<1>1. Files \subseteq Nat /\ Capacity \in Nat \ {0}
  BY DatabaseAssumption
<1>2. /\ db = Contents(Files) /\ saved = Contents(Files) /\ pending = <<>> /\ compaction = {}
      /\ compactors = EmptyBag /\ answered = {} /\ barriers = {} /\ locked = FALSE /\ flushing = FALSE
  BY DEF Init, InitDatabase
<1>3. /\ db \in Tables /\ db.tags = <<>> /\ db.ranges = {}
  BY <1>2 DEF Contents, Tables
<1>4. Stored
  <2>1. DOMAIN db.tags = {}
    BY <1>3
  <2>2. \A n : Active(db, n) = {}
    BY <2>1 DEF Active
  <2>3. Len(db.tags) = 0
    BY <1>3
  <2>4. saved = db
    BY <1>2
  <2>5. Extends(db, saved) /\ Ranged(db) /\ OneActive(db) /\ Behind
    BY <1>3, <2>1, <2>2, <2>3, <2>4 DEF Ranged, OneActive, Extends, Behind
  <2>. QED  BY <1>2, <1>3, <2>4, <2>5 DEF Stored
<1>5. Sent
  BY <1>1, <1>2 DEF Sent, BagToSet, EmptyBag, SetToBag
<1>6. Requests
  <2>1. /\ pc = [c \in Clients |-> "idle"] /\ request = [c \in Clients |-> NoRequest]
        /\ version = [c \in Clients |-> 0]
    BY DEF Init
  <2>2. "idle" \in Labels
    BY DEF Labels
  <2>. HIDE DEF NoRequest, Request
  <2>3. \A c \in Clients : pc[c] = "idle" /\ c \notin answered
    BY <1>2, <2>1
  <2>4. \A c \in Clients : Asked(c)
    BY <2>3 DEF Asked
  <2>. QED  BY <1>2, <2>1, <2>2, <2>4 DEF Requests
<1>. QED  BY <1>4, <1>5, <1>6 DEF TInv

LEMMA StoredStays ==
    ASSUME Stored, UNCHANGED <<db, saved, locked, flushing, barriers>>
    PROVE  Stored'
BY DEF Stored, Ranged, OneActive, Active, Extends, Behind, ImageIds

\* A request goes from one label to the next.
LEMMA ClientKeeps ==
    ASSUME TInv, NEW c \in Clients, Begin(c) \/ Proceed(c)
    PROVE  TInv'
<1>1. /\ pc \in [Clients -> Labels] /\ version \in [Clients -> Nat]
      /\ request \in [Clients -> Request \cup {NoRequest}]
      /\ answered \subseteq Clients /\ Asked(c)
  BY DEF TInv, Requests
<1>2. /\ pc[c] \in Labels /\ (pc[c] # "idle" => request[c] \in Request)
      /\ version[c] \in Nat /\ request[c] \in Request \cup {NoRequest}
      /\ \A n : Active(saved, n) \subseteq DOMAIN saved.tags
      /\ \A v \in DOMAIN saved.tags : v \in Nat
  BY <1>1, TablesHave DEF Asked, TInv, Stored
<1>3. /\ pc[c] \notin {"created", "changing"} => c \notin answered
      /\ version = [version EXCEPT ![c] = version[c]]
      /\ request = [request EXCEPT ![c] = request[c]]
  BY <1>1 DEF Asked
<1>4. ASSUME NEW l \in Labels, NEW r \in Request \cup {NoRequest}, NEW v \in Nat,
             pc' = [pc EXCEPT ![c] = l], request' = [request EXCEPT ![c] = r],
             version' = [version EXCEPT ![c] = v]
      PROVE  pc'[c] = l /\ request'[c] = r /\ version'[c] = v
  <2>. HIDE DEF Request, NoRequest
  <2>. QED  BY <1>1, <1>4
<1>. HIDE DEF Request, NoRequest
\* A step without a write.
<1>5. ASSUME NEW l \in Labels, NEW r \in Request \cup {NoRequest}, NEW v \in Nat,
             pc' = [pc EXCEPT ![c] = l], request' = [request EXCEPT ![c] = r],
             version' = [version EXCEPT ![c] = v],
             UNCHANGED <<pending, locked, flushing, db, saved, barriers, compaction, compactors>>,
             answered' = answered \/ (answered' = answered \ {c} /\ c \in answered),
             c \in answered \/ pc[c] \notin {"created", "changing"},
             Asked(c)'
      PROVE  TInv'
  <2>1. /\ Requests'
        /\ \A b \in Clients \ {c} :
               pc'[b] = pc[b] /\ request'[b] = request[b] /\ version'[b] = version[b]
    BY ONLY <1>5, TInv, c \in Clients, OnlyOneAsks
  <2>2. Unsent(c)
    BY <1>5, NothingSent
  <2>3. Sent'
    BY <1>5, <2>1, <2>2, SentByClient
  <2>4. Stored'
    BY <1>5, StoredStays DEF TInv
  <2>. QED  BY <2>1, <2>3, <2>4 DEF TInv
\* A step that sends one.
<1>6. ASSUME NEW l \in Labels, pc' = [pc EXCEPT ![c] = l], UNCHANGED <<request, version>>,
             UNCHANGED <<answered, locked, flushing, db, saved, barriers, compaction, compactors>>,
             pc[c] \notin {"created", "changing"}, Asked(c)',
             NEW w \in Writes, Send(w), w.type \in FromClient, w.from = c, Awaited(w)'
      PROVE  TInv'
  <2>1. /\ Requests'
        /\ \A b \in Clients \ {c} :
               pc'[b] = pc[b] /\ request'[b] = request[b] /\ version'[b] = version[b]
    <3>1. request' = [request EXCEPT ![c] = request[c]] /\ version' = [version EXCEPT ![c] = version[c]]
      BY <1>3, <1>6
    <3>2. PICK r \in Request \cup {NoRequest}, v \in Nat : r = request[c] /\ v = version[c]
      BY <1>2
    <3>3. request' = [request EXCEPT ![c] = r] /\ version' = [version EXCEPT ![c] = v]
      BY <3>1, <3>2
    <3>4. /\ r \in Request \cup {NoRequest} /\ v \in Nat /\ l \in Labels /\ c \in Clients
          /\ UNCHANGED <<db, saved>> /\ answered' = answered
          /\ pc' = [pc EXCEPT ![c] = l] /\ Asked(c)'
      BY <1>6
    <3>. QED  BY ONLY <3>3, <3>4, TInv, OnlyOneAsks
  <2>2. Unsent(c)
    BY <1>6, NothingSent
  <2>3. Sent'
    BY <1>6, <2>1, <2>2, SentByClient
  <2>4. Stored'
    BY <1>6, StoredStays DEF TInv
  <2>. QED  BY <2>1, <2>3, <2>4 DEF TInv
<1>7. CASE Begin(c)
  <2>1. PICK r \in Request : request' = [request EXCEPT ![c] = r]
    BY <1>7 DEF Begin
  <2>2. /\ pc[c] = "idle" /\ pc' = [pc EXCEPT ![c] = "lookup"] /\ "lookup" \in Labels
        /\ version' = [version EXCEPT ![c] = version[c]] /\ UNCHANGED dbVars
    BY <1>3, <1>7 DEF Begin, Goto, Labels
  <2>3. pc'[c] = "lookup" /\ request'[c] = r /\ version'[c] = version[c]
    BY <1>2, <1>4, <2>1, <2>2
  <2>4. Asked(c)'
    BY <1>2, <1>3, <2>2, <2>3 DEF Asked, dbVars, Labels
  <2>. QED  BY <1>2, <1>5, <2>1, <2>2, <2>4 DEF dbVars
<1>8. ASSUME NEW from \in {"lookup", "again"}, NEW to \in {"create", "failed"},
             to = "failed" => Active(saved, request[c].tag) # {},
             pc[c] = from,
             IF Active(saved, request[c].tag) = {}
             THEN Goto(c, to) /\ UNCHANGED version
             ELSE /\ \E v \in Active(saved, request[c].tag) :
                        version' = [version EXCEPT ![c] = v]
                  /\ Goto(c, "change"),
             UNCHANGED <<dbVars, request, bounds>>
      PROVE  TInv'
  <2>. DEFINE l == IF Active(saved, request[c].tag) = {} THEN "create" ELSE "change"
  <2>1. /\ l \in Labels /\ pc' = [pc EXCEPT ![c] = l] /\ request' = [request EXCEPT ![c] = request[c]]
    BY <1>3, <1>8 DEF Goto, Labels
  <2>2. PICK v \in Nat : /\ version' = [version EXCEPT ![c] = v]
                         /\ l = "change" => v \in Active(saved, request[c].tag)
    BY <1>2, <1>3, <1>8
  <2>. HIDE DEF l
  <2>3. pc'[c] = l /\ request'[c] = request[c] /\ version'[c] = v
    BY <1>2, <1>4, <2>1, <2>2
  <2>4. l \in {"create", "change"} /\ pc[c] \in {"lookup", "again"}
    BY <1>8 DEF l
  <2>5. l = "change" => v \in DOMAIN saved.tags /\ saved.tags[v].name = request[c].tag
    BY <2>2 DEF Active
  <2>6. UNCHANGED <<pending, locked, flushing, db, saved, barriers, answered, compaction, compactors>>
    BY <1>8 DEF dbVars
  <2>7. Asked(c)'
    BY <1>2, <1>3, <2>1, <2>3, <2>4, <2>5, <2>6 DEF Asked
  <2>. QED  BY <1>2, <1>5, <2>1, <2>2, <2>4, <2>6, <2>7
<1>9. CASE Lookup(c)
  BY <1>8, <1>9 DEF Lookup
<1>10. CASE LookupAgain(c)
  <2>1. pc[c] = "again" /\ Active(saved, request[c].tag) # {}
    BY <1>1, <1>10 DEF LookupAgain, Asked
  <2>. QED  BY <1>8, <1>10, <2>1 DEF LookupAgain
<1>11. CASE Create(c)
  <2>. PICK w : w = [type |-> "addTag", tag |-> request[c].tag, from |-> c]
    OBVIOUS
  <2>1. /\ pc[c] = "create" /\ pc' = [pc EXCEPT ![c] = "created"] /\ "created" \in Labels
        /\ UNCHANGED <<request, version>> /\ Send(w)
        /\ UNCHANGED <<answered, locked, flushing, db, saved, barriers, compaction, compactors>>
    BY <1>11 DEF Create, Goto, Asking, Labels
  <2>2. request[c].tag \in Tags /\ c \notin answered
    BY <1>2, <1>3, <2>1 DEF Request
  <2>3. w \in Writes /\ w.type \in FromClient /\ w.from = c /\ w.type = "addTag" /\ w.tag = request[c].tag
    BY <2>2 DEF Writes, Creations, FromClient
  <2>4. pc'[c] = "created"
    BY <1>1, <2>1
  <2>5. Awaited(w)'
    BY <2>1, <2>2, <2>3, <2>4 DEF Awaited
  <2>6. Asked(c)'
    BY <1>2, <2>1, <2>2, <2>4 DEF Asked
  <2>. QED  BY <1>6, <2>1, <2>3, <2>5, <2>6
<1>12. CASE Change(c)
  <2>. PICK w : w = [type |-> request[c].op, version |-> version[c],
                     files |-> request[c].files, from |-> c]
    OBVIOUS
  <2>1. /\ pc[c] = "change" /\ pc' = [pc EXCEPT ![c] = "changing"] /\ "changing" \in Labels
        /\ UNCHANGED <<request, version>> /\ Send(w)
        /\ UNCHANGED <<answered, locked, flushing, db, saved, barriers, compaction, compactors>>
    BY <1>12 DEF Change, Goto, Asking, Labels
  <2>2. request[c].op \in Operations /\ request[c].files \in SUBSET Files /\ c \notin answered
    BY <1>2, <1>3, <2>1 DEF Request
  <2>3. /\ w \in Writes /\ w.type \in FromClient /\ w.from = c /\ w.type # "addTag"
        /\ w.type = request[c].op /\ w.version = version[c] /\ w.files = request[c].files
    BY <1>2, <2>2, TaggingAssumption DEF Writes, Changes, FromClient, RequestTypes
  <2>4. pc'[c] = "changing"
    BY <1>1, <2>1
  <2>5. Awaited(w)'
    BY <2>1, <2>2, <2>3, <2>4 DEF Awaited
  <2>6. Asked(c)'
    BY <1>1, <1>2, <2>1, <2>2, <2>4 DEF Asked
  <2>. QED  BY <1>6, <2>1, <2>3, <2>5, <2>6
<1>13. CASE Created(c)
  <2>1. /\ pc[c] = "created" /\ c \in answered /\ answered' = answered \ {c}
        /\ pc' = [pc EXCEPT ![c] = "wait"] /\ "wait" \in Labels
        /\ request' = [request EXCEPT ![c] = request[c]]
        /\ version' = [version EXCEPT ![c] = version[c]]
        /\ UNCHANGED <<pending, locked, flushing, db, saved, barriers, compaction, compactors>>
    BY <1>3, <1>13 DEF Created, Goto, Asking, Labels
  <2>2. pc'[c] = "wait" /\ request'[c] = request[c] /\ version'[c] = version[c]
    BY <1>2, <1>4, <2>1
  <2>3. Asked(c)'
    BY <1>1, <1>2, <2>1, <2>2 DEF Asked, Active
  <2>. QED  BY <1>2, <1>5, <2>1, <2>3
<1>14. CASE WaitForCommit(c)
  <2>1. /\ pc[c] = "wait" /\ ~locked /\ UNCHANGED dbVars
        /\ pc' = [pc EXCEPT ![c] = "again"] /\ "again" \in Labels
        /\ request' = [request EXCEPT ![c] = request[c]]
        /\ version' = [version EXCEPT ![c] = version[c]]
    BY <1>3, <1>14 DEF WaitForCommit, Goto, Labels, Unlocked
  <2>2. pc'[c] = "again" /\ request'[c] = request[c] /\ version'[c] = version[c]
    BY <1>2, <1>4, <2>1
  <2>3. Active(saved, request[c].tag) # {}
    BY <1>1, <2>1 DEF Asked, TInv, Stored
  <2>4. UNCHANGED <<pending, locked, flushing, db, saved, barriers, answered, compaction, compactors>>
    BY <2>1 DEF dbVars
  <2>5. Asked(c)'
    BY <1>2, <1>3, <2>1, <2>2, <2>3, <2>4 DEF Asked, Active
  <2>. QED  BY <1>2, <1>5, <2>1, <2>4, <2>5
<1>15. CASE Respond(c)
  <2>1. /\ pc[c] = "changing" /\ c \in answered /\ answered' = answered \ {c}
        /\ pc' = [pc EXCEPT ![c] = "idle"] /\ "idle" \in Labels
        /\ request' = [request EXCEPT ![c] = NoRequest]
        /\ version' = [version EXCEPT ![c] = 0]
        /\ UNCHANGED <<pending, locked, flushing, db, saved, barriers, compaction, compactors>>
    BY <1>15 DEF Respond, Goto, Asking, Labels
  <2>2. pc'[c] = "idle" /\ request'[c] = NoRequest /\ version'[c] = 0
    BY <1>4, <2>1
  <2>3. Asked(c)'
    BY <2>1, <2>2 DEF Asked
  <2>. QED  BY <1>5, <2>1, <2>3
<1>. QED
  BY <1>7, <1>9, <1>10, <1>11, <1>12, <1>13, <1>14, <1>15 DEF Proceed

\* The indexing stages only send.
LEMMA StagesKeep ==
    ASSUME TInv, TagFile \/ DeleteFile
    PROVE  TInv'
<1>1. saved.rows \subseteq Files
  BY TablesHave DEF TInv, Stored
<1>2. /\ UNCHANGED <<locked, flushing, db, saved, barriers, compaction, compactors>>
      /\ UNCHANGED <<answered, pc, request, version>>
  BY DEF TagFile, DeleteFile, Asking, requestVars
<1>3. PICK w \in Writes : Send(w) /\ w.type \notin FromClient /\ w.type # "compact"
  <2>1. CASE TagFile
    <3>1. PICK n \in Tags, f \in saved.rows : Send([type |-> "addTagId", tag |-> n, file |-> f])
      BY <2>1 DEF TagFile
    <3>. DEFINE w == [type |-> "addTagId", tag |-> n, file |-> f]
    <3>2. w \in Writes /\ w.type \notin FromClient /\ w.type # "compact"
      BY <1>1 DEF FromClient, RequestTypes, Writes
    <3>. QED  BY <3>1, <3>2
  <2>2. CASE DeleteFile
    <3>1. PICK f \in saved.rows : Send([type |-> "delete", file |-> f])
      BY <2>2 DEF DeleteFile
    <3>. DEFINE w == [type |-> "delete", file |-> f]
    <3>2. w \in Writes /\ w.type \notin FromClient /\ w.type # "compact"
      BY <1>1 DEF FromClient, RequestTypes, Writes
    <3>. QED  BY <3>1, <3>2
  <2>. QED  BY <2>1, <2>2
<1>4. Sent'
  <2>1. BagToSet(compactors') \subseteq DOMAIN db.tags
    BY <1>2 DEF TInv, Sent
  <2>. QED  BY <1>2, <1>3, <2>1, SentByStage
<1>5. Stored'
  BY <1>2, StoredStays DEF TInv
<1>6. Grown(db, db') /\ Grown(saved, saved')
  BY <1>2 DEF Grown
<1>7. Requests'
  BY <1>2, <1>6, RequestsKept
<1>. QED  BY <1>4, <1>5, <1>7 DEF TInv

\* The writer takes a write: what it has to keep and whom it may answer.
LEMMA Handled ==
    ASSUME TInv, UNCHANGED <<pc, request, version, compactors>>, Receive(Types), Stored',
           Grown(db, db'), Grown(saved, saved'), compaction' \subseteq DOMAIN db'.tags,
           answered \subseteq answered',
           \A c \in answered' \ answered :
               /\ pending[1].type \in FromClient /\ c = pending[1].from
               /\ pending[1].type = "addTag" => Active(db', pending[1].tag) # {}
    PROVE  TInv'
<1>1. db' \in Tables
  BY DEF Stored
<1>2. Sent'
  BY <1>1, SentReceived
<1>3. /\ pending[1] \in Writes
      /\ pending[1].type \in FromClient => Awaited(pending[1]) /\ pending[1].from \in Clients
  <2>1. pending \in Seq(Writes)
    BY DEF TInv, Sent
  <2>2. pending[1] \in Writes /\ 1 \in 1..Len(pending)
    <3>1. pending[1] \in Writes /\ Len(pending) >= 1 /\ Len(pending) \in Nat
      BY ONLY <2>1, Receive(Types), WriteReceived
    <3>. QED  BY <3>1
  <2>. QED  BY <2>2, WriteKinds DEF TInv, Sent, FromClient
<1>4. \A c \in answered' \ answered :
          /\ c \in Clients /\ pc[c] \in {"created", "changing"}
          /\ pc[c] = "created" => Active(db', request[c].tag) # {}
  <2>. SUFFICES ASSUME NEW c \in answered' \ answered
                PROVE  /\ c \in Clients /\ pc[c] \in {"created", "changing"}
                       /\ pc[c] = "created" => Active(db', request[c].tag) # {}
    OBVIOUS
  <2>1. c \in Clients /\ Awaited(pending[1]) /\ c = pending[1].from
    BY <1>3
  <2>2. CASE pending[1].type = "addTag"
    BY <2>1, <2>2 DEF Awaited
  <2>3. CASE pending[1].type # "addTag"
    BY <2>1, <2>3 DEF Awaited
  <2>. QED  BY <2>2, <2>3
<1>5. Requests'
  BY <1>4, RequestsKept
<1>. QED  BY <1>2, <1>5 DEF TInv

\* Within its transaction the writer adds to the tables, or deletes rows.
LEMMA StoredGrows ==
    ASSUME Stored, Receive(Types), UNCHANGED <<saved, barriers>>,
           db' \in Tables, Ranged(db'), OneActive(db'), Extends(db', db),
           db'.rows \subseteq db.rows,
           \A v \in Nat, g \in db'.rows : g \in ImageIds(db, v) => g \in ImageIds(db', v)
    PROVE  Stored' /\ Grown(db, db') /\ Grown(saved, saved')
<1>1. locked' = TRUE /\ flushing' = flushing /\ flushing = FALSE
  BY DEF Receive, Stored
<1>2. db \in Tables /\ saved \in Tables /\ Extends(db, saved) /\ Ranged(saved) /\ Behind /\ barriers = {}
  BY DEF Stored
<1>3. Extends(db', saved)
  <2>1. /\ DOMAIN db.tags = 1..Len(db.tags) /\ Len(db.tags) \in Nat
        /\ DOMAIN saved.tags = 1..Len(saved.tags) /\ Len(saved.tags) \in Nat
        /\ Len(db'.tags) \in Nat
    BY <1>2, TablesHave
  <2>. QED  BY <1>2, <2>1 DEF Extends
<1>4. Behind'
  <2>1. \A r \in saved.ranges : r.version \in Nat
    BY <1>2, TablesHave DEF Ranged
  <2>. QED  BY <1>2, <2>1 DEF Behind
<1>5. Grown(db, db')
  BY <1>2, ExtendsGrown
<1>6. Grown(saved, saved')
  BY DEF Grown
<1>7. (saved \in Tables)' /\ Ranged(saved)'
  BY <1>2 DEF Ranged
<1>. QED  BY <1>1, <1>2, <1>3, <1>4, <1>5, <1>6, <1>7 DEF Stored, Extends, Ranged, OneActive, Active

\* A tag that is needed is made, unless there is one.
Ensured(name) == IF Active(db, name) = {} THEN TagAdded(db, name) ELSE db

LEMMA EnsuredGives ==
    ASSUME Stored, NEW n \in Tags
    PROVE  LET d == Ensured(n)
           IN  /\ d \in Tables /\ Ranged(d) /\ OneActive(d) /\ Extends(d, db)
               /\ d.rows = db.rows /\ d.ranges = db.ranges
               /\ Active(d, n) # {}
<1>1. db \in Tables /\ Ranged(db) /\ OneActive(db)
  BY DEF Stored
<1>2. Extends(db, db)
  BY <1>1, TablesHave DEF Extends
<1>3. CASE Active(db, n) = {}
  <2>. DEFINE r == TagAdded(db, n)
  <2>1. Ensured(n) = r
    BY <1>3 DEF Ensured
  <2>2. /\ r \in Tables /\ Ranged(r) /\ OneActive(r) /\ Extends(r, db)
        /\ r.rows = db.rows /\ r.ranges = db.ranges /\ Active(r, n) = {Len(db.tags) + 1}
    BY ONLY <1>1, <1>3, n \in Tags, TagAddedGives
  <2>. QED  BY <2>1, <2>2
<1>4. CASE Active(db, n) # {}
  BY <1>1, <1>2, <1>4 DEF Ensured
<1>. QED  BY <1>3, <1>4

LEMMA AddTagKeeps ==
    ASSUME TInv, HandleAddTag, UNCHANGED requestVars
    PROVE  TInv'
<1>. DEFINE w == pending[1]
            d == Ensured(w.tag)
<1>1. pending \in Seq(Writes)
  BY DEF TInv, Sent
<1>2. Head(pending) = w /\ w \in Writes /\ w.type \in {"addTag"}
  BY ONLY <1>1, HandleAddTag, WriteReceived DEF HandleAddTag
<1>3. w.tag \in Tags /\ w.type \in FromClient
  BY <1>2, WriteKinds DEF FromClient
<1>4. /\ db' = d /\ answered' = answered \cup {w.from}
      /\ UNCHANGED <<saved, barriers, compaction, compactors>>
  BY <1>2 DEF HandleAddTag, Ensured
<1>5. Receive(Types)
  BY DEF HandleAddTag, Receive, Types
<1>6. /\ d \in Tables /\ Ranged(d) /\ OneActive(d) /\ Extends(d, db)
      /\ d.rows = db.rows /\ d.ranges = db.ranges /\ Active(d, w.tag) # {}
  BY <1>3, EnsuredGives DEF TInv
<1>. HIDE DEF d
<1>7. Stored' /\ Grown(db, db') /\ Grown(saved, saved')
  BY <1>4, <1>5, <1>6, StoredGrows DEF TInv, ImageIds
<1>8. compaction' \subseteq DOMAIN db'.tags
  BY <1>4, <1>7 DEF Grown, TInv, Sent
<1>. HIDE DEF w
<1>9. \A c \in answered' \ answered : /\ pending[1].type \in FromClient /\ c = pending[1].from
                                      /\ pending[1].type = "addTag" => Active(db', pending[1].tag) # {}
  BY <1>3, <1>4, <1>6 DEF w
<1>. QED  BY <1>4, <1>5, <1>7, <1>8, <1>9, Handled DEF requestVars

LEMMA AddTagIdKeeps ==
    ASSUME TInv, HandleAddTagId, UNCHANGED requestVars
    PROVE  TInv'
<1>. DEFINE w == pending[1]
            d == Ensured(w.tag)
<1>1. pending \in Seq(Writes)
  BY DEF TInv, Sent
<1>2. Head(pending) = w /\ w \in Writes /\ w.type \in {"addTagId"}
  BY ONLY <1>1, HandleAddTagId, WriteReceived DEF HandleAddTagId
<1>3. w.tag \in Tags /\ w.file \in Files /\ w.type \notin FromClient
  BY <1>2, WriteKinds DEF FromClient, RequestTypes
<1>4. PICK v \in Active(d, w.tag) :
          /\ db' = [d EXCEPT !.ranges = @ \cup {[version |-> v, low |-> w.file, high |-> w.file]}]
          /\ compaction' = compaction \cup {v}
  BY <1>2 DEF HandleAddTagId, Ensured
<1>5. Receive(Types) /\ UNCHANGED <<saved, barriers, answered, compactors>>
  BY DEF HandleAddTagId, Receive, Types
<1>6. /\ d \in Tables /\ Ranged(d) /\ OneActive(d) /\ Extends(d, db)
      /\ d.rows = db.rows /\ d.ranges = db.ranges
  BY <1>3, EnsuredGives DEF TInv
<1>7. v \in DOMAIN d.tags /\ v \in Nat /\ d.tags[v].status = "active"
  BY <1>6, TablesHave DEF Active
<1>. DEFINE r == [version |-> v, low |-> w.file, high |-> w.file]
<1>8. r \in Interval /\ r.version = v
  <2>1. w.file \in Nat
    BY <1>3, DatabaseAssumption
  <2>. QED  BY <1>3, <1>7, <2>1 DEF Interval
<1>9. db' = [d EXCEPT !.ranges = d.ranges \cup {r}]
  BY <1>4
<1>. HIDE DEF d, r
<1>10. db' \in Tables /\ db'.rows = db.rows /\ db'.tags = d.tags /\ db'.ranges = db.ranges \cup {r}
  BY <1>6, <1>8, <1>9 DEF Tables
<1>11. Ranged(db') /\ OneActive(db') /\ Extends(db', db)
  BY <1>6, <1>7, <1>8, <1>10 DEF Ranged, OneActive, Active, Extends
<1>12. \A u \in Nat, g \in db'.rows : g \in ImageIds(db, u) => g \in ImageIds(db', u)
  BY <1>10 DEF ImageIds
<1>13. Stored' /\ Grown(db, db') /\ Grown(saved, saved')
  BY <1>5, <1>10, <1>11, <1>12, StoredGrows DEF TInv
<1>14. compaction' \subseteq DOMAIN db'.tags
  BY <1>4, <1>7, <1>10, <1>13 DEF Grown, TInv, Sent
<1>. QED  BY <1>5, <1>13, <1>14, Handled DEF requestVars

LEMMA DeleteKeeps ==
    ASSUME TInv, HandleDelete, UNCHANGED requestVars
    PROVE  /\ TInv'
           /\ \A v \in Nat, g \in db.rows \ {pending[1].file} :
                  g \in ImageIds(db, v) <=> g \in ImageIds(db', v)
<1>. DEFINE w == pending[1]
<1>1. pending \in Seq(Writes)
  BY DEF TInv, Sent
<1>2. Head(pending) = w /\ w \in Writes /\ w.type \in {"delete"}
  BY ONLY <1>1, HandleDelete, WriteReceived DEF HandleDelete
<1>3. w.file \in Files
  BY <1>2, WriteKinds
<1>4. /\ db' = Deleted(db, saved, w.file) /\ Receive(Types)
      /\ UNCHANGED <<saved, barriers, answered, compaction, compactors>>
  BY <1>2 DEF HandleDelete, Receive, Types
<1>5. /\ db \in Tables /\ saved \in Tables /\ Ranged(db) /\ Ranged(saved) /\ Extends(db, saved)
      /\ OneActive(db)
      /\ \A r \in saved.ranges : \A g \in db.rows : Covers(r, g) => g \in ImageIds(db, r.version)
  BY DEF TInv, Stored, Behind
<1>. HIDE DEF w
<1>6. /\ db' \in Tables /\ Ranged(db') /\ db'.tags = db.tags /\ db'.rows = db.rows \ {w.file}
      /\ \A v \in Nat, g \in db.rows \ {w.file} : g \in ImageIds(db, v) <=> g \in ImageIds(db', v)
  BY <1>3, <1>4, <1>5, DeletedGives
<1>7. OneActive(db') /\ Extends(db', db)
  BY <1>5, <1>6, TablesHave DEF OneActive, Active, Extends
<1>8. Stored' /\ Grown(db, db') /\ Grown(saved, saved')
  BY <1>4, <1>6, <1>7, StoredGrows DEF TInv
<1>9. compaction' \subseteq DOMAIN db'.tags
  BY <1>4, <1>6 DEF TInv, Sent
<1>10. TInv'
  BY <1>4, <1>8, <1>9, Handled DEF requestVars
<1>. QED  BY <1>6, <1>10 DEF w

\* A new version is made of one that is there, and of ids; its ids are what the
\* request asks for.
LEMMA TagIdsKeep ==
    ASSUME TInv, HandleTagIds, UNCHANGED requestVars
    PROVE  /\ TInv'
           /\ LET w == pending[1]
                  name == db.tags[w.version].name
              IN  /\ w.type \in RequestTypes \cup {"compact"}
                  /\ answered' = answered \cup Waiting(w)
                  /\ \E v \in Active(saved', name) :
                        v > w.version /\ ImageIds(saved', v) = Changed(w)
<1>. DEFINE w == pending[1]
            name == db.tags[w.version].name
            ids == Changed(w)
<1>1. pending \in Seq(Writes)
  BY DEF TInv, Sent
<1>2. /\ Head(pending) = w /\ w \in Writes
      /\ w.type \in {"addTagIds", "removeTagIds", "invertTagIds", "compact"}
      /\ 1 \in 1..Len(pending)
  <2>1. /\ Head(pending) = w /\ w \in Writes /\ Len(pending) \in Nat /\ Len(pending) >= 1
        /\ w.type \in {"addTagIds", "removeTagIds", "invertTagIds", "compact"}
    BY ONLY <1>1, HandleTagIds, WriteReceived DEF HandleTagIds
  <2>. QED  BY <2>1
<1>3. PICK pruned \in SUBSET Prunable(db, name) : db' = VersionAdded(db, name, ids, pruned)
  BY <1>2 DEF HandleTagIds
<1>4. /\ saved' = db' /\ answered' = answered \cup Waiting(w) /\ barriers' = {}
      /\ UNCHANGED <<compaction, compactors>> /\ Receive(Types)
      /\ locked' = TRUE /\ flushing' = FALSE
  <2>1. barriers = {} /\ flushing \in BOOLEAN
    BY DEF TInv, Stored
  <2>. QED  BY <1>2, <2>1 DEF HandleTagIds, Receive, Types
<1>5. db \in Tables /\ Ranged(db) /\ OneActive(db) /\ saved \in Tables /\ Extends(db, saved)
  BY DEF TInv, Stored
<1>6. w.type # "compact" => Awaited(w) /\ w.from \in Clients /\ w.type \in FromClient
  BY <1>2, WriteKinds DEF TInv, Sent, FromClient, RequestTypes
<1>7. w.version \in DOMAIN db.tags /\ w.version \in Nat
  <2>1. CASE w.type = "compact"
    BY <1>2, <1>5, <2>1, TablesHave DEF TInv, Sent
  <2>2. CASE w.type # "compact"
    <3>1. w.version = version[w.from] /\ pc[w.from] = "changing"
      <4>1. w.type # "addTag"
        BY <1>2
      <4>. QED  BY <1>6, <2>2, <4>1 DEF Awaited
    <3>2. w.version \in DOMAIN saved.tags
      BY <1>6, <2>2, <3>1 DEF TInv, Requests, Asked
    <3>3. DOMAIN saved.tags \subseteq DOMAIN db.tags
      BY <1>5, ExtendsGrown DEF Grown
    <3>. QED  BY <1>5, <3>2, <3>3, TablesHave
  <2>. QED  BY <2>1, <2>2
<1>8. name \in Tags /\ ids \in SUBSET Files
  <2>1. name \in Tags
    BY <1>5, <1>7, TablesHave DEF Version
  <2>2. ImageIds(db, w.version) \subseteq Files /\ (w.type # "compact" => w.files \in SUBSET Files)
    BY <1>2, WriteKinds DEF ImageIds, RequestTypes
  <2>3. ids \in SUBSET Files
    BY <1>2, <2>2 DEF Changed
  <2>. QED  BY <2>1, <2>3
<1>. DEFINE new == Len(db.tags) + 1
<1>. HIDE DEF w, name, ids, new
<1>9. /\ db' \in Tables /\ Ranged(db') /\ OneActive(db') /\ Len(db'.tags) = new
      /\ \A v \in DOMAIN db.tags : v \in DOMAIN db'.tags /\ db'.tags[v].name = db.tags[v].name
      /\ Active(db', name) = {new} /\ ImageIds(db', new) = ids
      /\ \A m \in Tags : Active(db, m) # {} => Active(db', m) # {}
  <2>1. pruned \in SUBSET Prunable(db, name)
    OBVIOUS
  <2>2. Versioned(db', db, name, ids)
    BY <1>3, <1>5, <1>8, <2>1, VersionAddedGives
  <2>. QED  BY <2>2 DEF Versioned, new
<1>10. Grown(db, db')
  BY <1>9 DEF Grown
<1>11. Grown(saved, saved')
  <2>1. Grown(saved, db)
    BY <1>5, ExtendsGrown
  <2>. QED  BY <1>4, <1>10, <2>1 DEF Grown
<1>12. Stored'
  <2>1. Extends(db', saved')
    BY <1>4, <1>9, TablesHave DEF Extends
  <2>2. Behind'
    <3>1. db'.rows \subseteq Files
      BY <1>9, TablesHave
    <3>. QED  BY <1>4, <3>1 DEF Behind, ImageIds
  <2>3. Ranged(saved') /\ saved' \in Tables
    BY <1>4, <1>9
  <2>. QED  BY <1>4, <1>9, <2>1, <2>2, <2>3 DEF Stored, Extends, Ranged, OneActive, Active
<1>13. compaction' \subseteq DOMAIN db'.tags
  BY <1>4, <1>10 DEF Grown, TInv, Sent
<1>14. \A c \in answered' \ answered : /\ pending[1].type \in FromClient /\ c = pending[1].from
                                       /\ pending[1].type = "addTag" => Active(db', pending[1].tag) # {}
  BY <1>2, <1>4, <1>6 DEF Waiting, w
<1>15. TInv'
  BY <1>4, <1>10, <1>11, <1>12, <1>13, <1>14, Handled DEF requestVars
<1>16. new > w.version
  <2>1. DOMAIN db.tags = 1..Len(db.tags) /\ Len(db.tags) \in Nat
    BY <1>5, TablesHave
  <2>. QED  BY <1>7, <2>1 DEF new
<1>. QED  BY <1>2, <1>4, <1>9, <1>15, <1>16 DEF w, name, ids, RequestTypes

\* A write that fails, or that names a version that is gone, is dropped.
LEMMA DroppedKeeps ==
    ASSUME TInv, HandleGone \/ HandleFails, UNCHANGED requestVars
    PROVE  TInv'
<1>1. Receive(Types) /\ UNCHANGED <<db, saved, barriers, answered, compaction, compactors>>
  BY DatabaseAssumption DEF HandleGone, HandleFails, Receive, Types
<1>2. db \in Tables /\ Ranged(db) /\ OneActive(db)
  BY DEF TInv, Stored
<1>3. Extends(db, db)
  BY <1>2, TablesHave DEF Extends
<1>4. Stored' /\ Grown(db, db') /\ Grown(saved, saved')
  BY <1>1, <1>2, <1>3, StoredGrows DEF TInv
<1>5. compaction' \subseteq DOMAIN db'.tags
  BY <1>1 DEF TInv, Sent
<1>. QED  BY <1>1, <1>4, <1>5, Handled DEF requestVars

\* The writer's other steps take no write; a commit leaves nothing behind.
LEMMA Rests ==
    ASSUME TInv, UNCHANGED <<pending, db, barriers, answered, pc, request, version>>,
           compaction' \subseteq compaction,
           BagToSet(compactors') \subseteq DOMAIN db.tags,
           saved' \in {saved, db},
           flushing' => saved' = db, ~locked' => saved' = db,
           locked' \in BOOLEAN, flushing' \in BOOLEAN, flushing' => locked'
    PROVE  TInv'
<1>1. db \in Tables /\ Ranged(db) /\ OneActive(db) /\ saved \in Tables /\ Extends(db, saved)
      /\ Ranged(saved) /\ Behind /\ barriers = {}
  BY DEF TInv, Stored
<1>2. Grown(db, db') /\ Grown(saved, saved')
  <2>1. Grown(db, db) /\ Grown(saved, saved) /\ Grown(saved, db)
    BY <1>1, ExtendsGrown DEF Grown
  <2>. QED  BY <2>1
<1>3. Stored'
  <2>1. Extends(db, saved') /\ Ranged(saved') /\ saved' \in Tables
    BY <1>1, TablesHave DEF Extends
  <2>2. Behind'
    <3>1. CASE saved' = saved
      BY <1>1, <3>1 DEF Behind, ImageIds
    <3>2. CASE saved' = db
      <4>1. db.rows \subseteq Files
        BY <1>1, TablesHave
      <4>. QED  BY <3>2, <4>1 DEF Behind, ImageIds
    <3>. QED  BY <3>1, <3>2
  <2>. QED  BY <1>1, <2>1, <2>2 DEF Stored, Extends, Ranged, OneActive, Active
<1>4. Sent'
  <2>1. \A i \in 1..Len(pending') : pending'[i].type \in FromClient => Awaited(pending[i])'
    BY DEF TInv, Sent, Awaited
  <2>. QED  BY <2>1 DEF TInv, Sent
<1>5. Requests'
  BY <1>2, RequestsKept
<1>. QED  BY <1>3, <1>4, <1>5 DEF TInv

LEMMA TickKeeps ==
    ASSUME TInv, Tick \/ Unlock, UNCHANGED requestVars
    PROVE  TInv'
<1>1. /\ locked \in BOOLEAN /\ flushing \in BOOLEAN /\ (flushing => locked) /\ barriers = {}
      /\ ~locked \/ flushing => db = saved
      /\ compaction \subseteq DOMAIN db.tags /\ BagToSet(compactors) \subseteq DOMAIN db.tags
  BY DEF TInv, Stored, Sent
<1>2. CASE StartCompaction
  <2>1. BagToSet(compactors') \subseteq DOMAIN db.tags
    BY <1>1, <1>2 DEF StartCompaction, BagToSet, SetToBag, (+)
  <2>. QED  BY <1>1, <1>2, <2>1, Rests DEF StartCompaction, requestVars
<1>3. CASE Commit
  BY <1>1, <1>3, Rests DEF Commit, requestVars
<1>4. CASE Unlock
  BY <1>1, <1>4, Rests DEF Unlock, requestVars
<1>. QED  BY <1>2, <1>3, <1>4 DEF Tick

LEMMA SendCompactionKeeps ==
    ASSUME TInv, SendCompaction, UNCHANGED requestVars
    PROVE  TInv'
<1>1. PICK v \in BagToSet(compactors) :
          /\ Send([type |-> "compact", version |-> v])
          /\ compactors' = compactors (-) SetToBag({v})
          /\ UNCHANGED <<locked, flushing, db, saved, barriers, answered, compaction>>
  BY DEF SendCompaction
<1>2. /\ BagToSet(compactors) \subseteq DOMAIN db.tags
      /\ DOMAIN db.tags \subseteq Nat
  BY TablesHave DEF TInv, Sent, Stored
<1>3. BagToSet(compactors') \subseteq DOMAIN db.tags
  BY <1>1, <1>2 DEF BagToSet, (-)
<1>. DEFINE w == [type |-> "compact", version |-> v]
<1>4. /\ w \in Writes /\ w.type \notin FromClient
      /\ w.type = "compact" /\ w.version \in DOMAIN db.tags
  BY <1>2 DEF Writes, FromClient, RequestTypes
<1>5. Send(w)
  BY <1>1
<1>. HIDE DEF w
<1>6. Sent'
  BY <1>1, <1>3, <1>4, <1>5, SentByStage DEF requestVars
<1>7. Stored'
  BY <1>1, StoredStays DEF TInv
<1>8. Grown(db, db') /\ Grown(saved, saved')
  BY <1>1 DEF Grown
<1>9. Requests'
  BY <1>1, <1>8, RequestsKept DEF requestVars
<1>. QED  BY <1>6, <1>7, <1>9 DEF TInv

\* Tags have nothing to do with files that are added or directories.
LEMMA OnlyTags ==
    ASSUME TInv
    PROVE  ~HandleAppend /\ ~HandleIndex /\ ~HandleBarrier
<1>1. pending \in Seq(Writes)
  BY DEF TInv, Sent
<1>2. \A types : Receive(types) => Head(pending) \in Writes /\ Head(pending).type \in types
  BY ONLY <1>1, WriteReceived
<1>. QED  BY <1>2, WriteKinds DEF HandleAppend, HandleIndex, HandleBarrier

LEMMA NextTInv == TInv /\ [Next]_vars => TInv'
<1>. SUFFICES ASSUME TInv, [Next]_vars PROVE TInv'
  OBVIOUS
<1>1. CASE \E c \in Clients : Begin(c) \/ Proceed(c)
  BY <1>1, ClientKeeps
<1>2. CASE TagFile \/ DeleteFile
  BY <1>2, StagesKeep
<1>3. CASE Writer /\ UNCHANGED <<requestVars, bounds>>
  <2>1. CASE Handle
    BY <1>3, <2>1, OnlyTags, AddTagKeeps, AddTagIdKeeps, DeleteKeeps, TagIdsKeep, DroppedKeeps DEF Handle
  <2>. QED  BY <1>3, <2>1, TickKeeps, SendCompactionKeeps DEF Writer
<1>4. CASE UNCHANGED vars
  <2>1. /\ UNCHANGED <<pending, db, saved, locked, flushing, barriers, answered, compaction, compactors>>
        /\ UNCHANGED <<pc, request, version>>
    BY <1>4 DEF vars, dbVars, requestVars
  <2>2. saved' = db \/ (~flushing' /\ locked')
    <3>1. ~locked \/ flushing => db = saved
      BY DEF TInv, Stored
    <3>. QED  BY <2>1, <3>1, Zenon
  <2>3. BagToSet(compactors') \subseteq DOMAIN db.tags /\ locked' \in BOOLEAN /\ flushing' \in BOOLEAN
        /\ (flushing' => locked')
    BY <2>1 DEF TInv, Sent, Stored
  <2>. QED  BY <2>1, <2>2, <2>3, Rests
<1>. QED  BY <1>1, <1>2, <1>3, <1>4 DEF Next

LEMMA Invariant == Spec => []TInv
<1>. QED  BY InitTInv, NextTInv, PTL DEF Spec

----------------------------------------------------------------------------
(* The theorems.                                                           *)

\* Requests, writes and tables are well-formed: every range of a tag belongs to a
\* version that is there, in the transaction and in what readers see.
THEOREM TypesOK == Spec => []TypeOK
<1>1. TInv => TypeOK
  <2>. SUFFICES ASSUME TInv PROVE TypeOK
    OBVIOUS
  <2>1. /\ db \in Tables /\ Ranged(db) /\ saved \in Tables /\ Ranged(saved)
        /\ locked \in BOOLEAN /\ flushing \in BOOLEAN /\ (flushing => locked /\ db = saved)
        /\ barriers = {}
    BY DEF TInv, Stored
  <2>2. \A d \in {db, saved} :
          /\ d.rows \subseteq Files
          /\ \A v \in DOMAIN d.tags : d.tags[v].name \in Tags
          /\ \A r \in d.ranges :
                /\ r.version \in DOMAIN d.tags
                /\ d.tags[r.version].status # "gone"
                /\ r.low \in Files /\ r.high \in Files /\ r.low <= r.high
    BY <2>1, TablesHave DEF Ranged, Version, Interval
  <2>3. /\ Len(pending) <= Capacity /\ compaction \subseteq DOMAIN db.tags
        /\ answered \subseteq Clients /\ request \in [Clients -> Request \cup {NoRequest}]
        /\ \A c \in Clients : pc[c] \in {"change", "changing"} => version[c] \in DOMAIN saved.tags
    BY DEF TInv, Sent, Requests, Asked
  <2>. HIDE DEF Request, NoRequest
  <2>. QED  BY <2>1, <2>2, <2>3 DEF TypeOK
<1>. QED  BY <1>1, Invariant, PTL

\* A tag has one active version, for the writer and for readers, whatever
\* requests, the metadata stage and compactions do to it at once.
THEOREM OneVersion == Spec => []OneActiveVersion
<1>1. TInv => OneActiveVersion
  <2>. SUFFICES ASSUME TInv, NEW d \in {db, saved}, NEW n \in Tags
                PROVE  Cardinality(Active(d, n)) <= 1
    BY DEF OneActiveVersion
  <2>1. \A u, v \in Active(d, n) : u = v
    BY ExtendsGrown DEF TInv, Stored, OneActive
  <2>2. Active(d, n) = {} \/ \E v : Active(d, n) = {v}
    BY <2>1
  <2>3. Cardinality(Active(d, n)) \in {0, 1}
    BY <2>2, FS_EmptySet, FS_Singleton
  <2>. QED  BY <2>3
<1>. QED  BY <1>1, Invariant, PTL

\* GetOrCreateTagFromName finds the tag that it has created.
THEOREM CreatedFound == Spec => []CreatedIsFound
<1>1. TInv => CreatedIsFound
  BY DEF TInv, Requests, Labels, CreatedIsFound
<1>. QED  BY <1>1, Invariant, PTL

\* A request is answered with a version that readers already see, with what it
\* asked for done.
THEOREM AnswersVisible == Spec => AnswersAreVisible
<1>. DEFINE Visible ==
         \A c \in answered' \ answered :
             pc[c] = "changing" =>
               \E v \in Active(saved', request[c].tag) :
                   v > version[c] /\ Applied(request[c], ImageIds(saved', v))
<1>1. ASSUME TInv, [Next]_vars PROVE [Visible]_vars
  <2>. SUFFICES ASSUME NEW c \in answered' \ answered, pc[c] = "changing"
                PROVE  \E v \in Active(saved', request[c].tag) :
                           v > version[c] /\ Applied(request[c], ImageIds(saved', v))
    OBVIOUS
  <2>. DEFINE w == pending[1]
  <2>1. Handle /\ UNCHANGED requestVars
    <3>1. barriers = {}
      BY <1>1 DEF TInv, Stored
    <3>. QED
      BY <1>1, <3>1 DEF Next, vars, dbVars, Begin, Proceed, Lookup, Create, Created, WaitForCommit,
         LookupAgain, Change, Respond, Asking, TagFile, DeleteFile, Writer, Tick, StartCompaction,
         Commit, Unlock, SendCompaction
  <2>2. /\ pending \in Seq(Writes)
        /\ \A i \in 1..Len(pending) : pending[i].type \in FromClient => Awaited(pending[i])
    BY <1>1 DEF TInv, Sent
  <2>3. ~HandleAddTag
    <3>. SUFFICES ASSUME HandleAddTag PROVE FALSE
      OBVIOUS
    <3>1. /\ Head(pending) = w /\ Len(pending) \in Nat /\ Len(pending) >= 1
          /\ w.type \in {"addTag"}
      BY ONLY <2>2, HandleAddTag, WriteReceived DEF HandleAddTag
    <3>2. c = w.from
      BY <3>1 DEF HandleAddTag
    <3>3. Awaited(w)
      BY <2>2, <3>1 DEF FromClient
    <3>. QED  BY <3>1, <3>2, <3>3 DEF Awaited
  <2>4. HandleTagIds
    BY <1>1, <2>1, <2>3, OnlyTags DEF Handle, HandleDelete, HandleAddTagId, HandleGone, HandleFails
  <2>5. /\ w.type \in RequestTypes \cup {"compact"} /\ answered' = answered \cup Waiting(w)
        /\ \E v \in Active(saved', db.tags[w.version].name) :
              v > w.version /\ ImageIds(saved', v) = Changed(w)
    BY <1>1, <2>1, <2>4, TagIdsKeep
  <2>6. w.type \in RequestTypes /\ c = w.from
    BY <2>5 DEF Waiting
  <2>7. Awaited(w) /\ c \in Clients
    <3>1. Len(pending) \in Nat /\ Len(pending) >= 1 /\ w \in Writes
      BY ONLY <2>2, <2>4, WriteReceived DEF HandleTagIds
    <3>. QED  BY <2>2, <2>6, <3>1, WriteKinds DEF FromClient
  <2>8. /\ w.type = request[c].op /\ w.version = version[c] /\ w.files = request[c].files
        /\ db.tags[w.version].name = request[c].tag
    <3>1. w.type = request[c].op /\ w.version = version[c] /\ w.files = request[c].files
      BY <2>6, <2>7 DEF Awaited, RequestTypes
    <3>2. version[c] \in DOMAIN saved.tags /\ saved.tags[version[c]].name = request[c].tag
      BY <1>1, <2>7 DEF TInv, Requests, Asked
    <3>3. Extends(db, saved)
      BY <1>1 DEF TInv, Stored
    <3>. QED  BY <3>1, <3>2, <3>3 DEF Extends
  <2>9. Applied(request[c], Changed(w))
    BY <2>6, <2>8 DEF Applied, Changed, RequestTypes
  <2>. QED  BY <2>5, <2>8, <2>9
<1>. QED  BY <1>1, Invariant, PTL DEF Spec, AnswersAreVisible

\* Deleting a file changes no other file's tags. The ranges it splits are read from
\* the committed database, so it may bring back files that the writer has deleted
\* since, but those have no row (Behind).
THEOREM DeletesOneFile == Spec => DeleteTouchesOneFile
<1>. DEFINE Untouched ==
         \A f \in Files : Deleting(f) =>
             \A v \in DOMAIN db.tags, g \in db.rows \ {f} :
                 g \in ImageIds(db, v) <=> g \in ImageIds(db', v)
<1>1. ASSUME TInv, [Next]_vars PROVE [Untouched]_vars
  <2>. SUFFICES ASSUME NEW f \in Files, Deleting(f),
                       NEW v \in DOMAIN db.tags, NEW g \in db.rows \ {f}
                PROVE  g \in ImageIds(db, v) <=> g \in ImageIds(db', v)
    OBVIOUS
  <2>1. /\ pending \in Seq(Writes) /\ pending # <<>> /\ pending' = Tail(pending)
        /\ Head(pending).type = "delete" /\ Head(pending).file = f
        /\ pending' # pending /\ \A w : pending' # Append(pending, w)
    <3>1. pending \in Seq(Writes) /\ pending # <<>> /\ pending' = Tail(pending)
      BY <1>1 DEF TInv, Sent, Deleting
    <3>. HIDE DEF Writes
    <3>2. Len(pending') = Len(pending) - 1 /\ Len(pending) \in Nat
      BY <3>1
    <3>3. \A w : Len(Append(pending, w)) = Len(pending) + 1
      BY <3>1
    <3>4. pending' # pending
      BY <3>2
    <3>5. \A w : pending' # Append(pending, w)
      BY <3>2, <3>3
    <3>6. Head(pending) = [type |-> "delete", file |-> f]
      BY DEF Deleting
    <3>. QED  BY <3>1, <3>4, <3>5, <3>6
  <2>2. Handle /\ UNCHANGED requestVars
    BY <1>1, <2>1 DEF Next, vars, dbVars, Begin, Proceed, Lookup, Create, Created, WaitForCommit,
       LookupAgain, Change, Respond, Send, TagFile, DeleteFile, Writer, Tick, StartCompaction,
       Commit, Unlock, SendCompaction
  <2>3. HandleDelete
    BY <2>1, <2>2, DatabaseAssumption
       DEF Handle, HandleAppend, HandleIndex, HandleBarrier, HandleAddTag, HandleAddTagId,
           HandleTagIds, HandleGone, HandleFails, Receive
  <2>4. pending[1].file = f
    BY <2>1
  <2>5. v \in Nat
    BY <1>1, TablesHave DEF TInv, Stored
  <2>. QED  BY <1>1, <2>2, <2>3, <2>4, <2>5, DeleteKeeps
<1>. QED  BY <1>1, Invariant, PTL DEF Spec, DeleteTouchesOneFile
----------------------------------------------------------------------------
(* The range trees in which the versions are computed.                     *)

TreeRange == {r \in [low : Nat \ {0}, high : Nat \ {0}] : r.low <= r.high}
Tree(t) == t \in SUBSET TreeRange /\ IsFiniteSet(t)

\* Ranges and their ids.
LEMMA TreeRangeIs ==
    ASSUME NEW a \in Nat \ {0}, NEW b \in Nat \ {0}, a <= b
    PROVE  /\ IdRange(a, b) \in TreeRange
           /\ IdRange(a, b).low = a /\ IdRange(a, b).high = b
BY DEF IdRange, TreeRange

LEMMA TreeRangeHas ==
    ASSUME NEW r \in TreeRange
    PROVE  /\ r.low \in Nat \ {0} /\ r.high \in Nat \ {0} /\ r.low <= r.high
           /\ r = IdRange(r.low, r.high)
BY DEF IdRange, TreeRange

LEMMA IdsAre ==
    ASSUME NEW t \in SUBSET TreeRange
    PROVE  \A x : x \in IdsOf(t) <=> x \in Nat /\ \E r \in t : r.low <= x /\ x <= r.high
<1>1. \A r \in t : r.low \in Nat /\ r.high \in Nat
  BY TreeRangeHas
<1>. QED  BY <1>1 DEF IdsOf

\* A tree whose ranges are apart has at most one that holds an id.
LEMMA FoundIn ==
    ASSUME NEW t, Tree(t), Apart(t), NEW x \in Nat
    PROVE  \/ FindRange(t, x) = {} /\ x \notin IdsOf(t)
           \/ \E s \in t : FindRange(t, x) = {s} /\ s.low <= x /\ x <= s.high /\ x \in IdsOf(t)
<1>1. \A r \in t : r.low \in Nat \ {0} /\ r.high \in Nat \ {0} /\ r.low <= r.high
  BY TreeRangeHas DEF Tree
<1>2. \A r \in t : r # IdRange(0, 0)
  BY <1>1 DEF IdRange
<1>3. FindRange(t, x) = {r \in t : r.low <= x /\ x <= r.high}
  BY <1>2 DEF FindRange, RangeCovers
<1>4. \A r, s \in t : r \in FindRange(t, x) /\ s \in FindRange(t, x) => r = s
  BY <1>1, <1>3 DEF Apart
<1>5. CASE FindRange(t, x) = {}
  BY <1>3, <1>5, IdsAre DEF Tree
<1>6. CASE FindRange(t, x) # {}
  <2>1. PICK s \in t : s \in FindRange(t, x)
    BY <1>3, <1>6
  <2>2. FindRange(t, x) = {s}
    BY <1>3, <1>4, <2>1
  <2>3. x \in IdsOf(t)
    BY <1>3, <2>1, IdsAre DEF Tree
  <2>. QED  BY <1>3, <2>1, <2>2, <2>3
<1>. QED  BY <1>5, <1>6

\* A range that covers the ranges it overlaps takes the place of one of them.
Crowded(u) == \E r \in u : Cardinality(FindOverlapping(u, r)) > 1
LEMMA Replaced ==
    ASSUME NEW t, Tree(t), Apart(t), NEW j \in TreeRange,
           \A s \in t : \/ s.high + 1 < j.low \/ j.high + 1 < s.low
                        \/ j.low <= s.low /\ s.high <= j.high,
           NEW u \in ReplaceOrInsert(t, j)
    PROVE  /\ Tree(u) /\ IdsOf(u) = IdsOf(t) \cup (j.low..j.high)
           /\ Apart(u) \/ Crowded(u)
           /\ (\A s \in t : ~Overlap(s, j)) => Apart(u)
<1>1. \A s \in t \cup {j} : s.low \in Nat \ {0} /\ s.high \in Nat \ {0} /\ s.low <= s.high
  BY TreeRangeHas DEF Tree
<1>. DEFINE hit == FindOverlapping(t, j)
<1>2. hit \subseteq t /\ \A s \in t : s \in hit <=> s.low <= j.high /\ j.low <= s.high
  BY DEF FindOverlapping, Overlap
<1>3. \A s \in hit : j.low <= s.low /\ s.high <= j.high
  BY <1>1, <1>2
<1>4. \A s \in t \ hit : s.high + 1 < j.low \/ j.high + 1 < s.low
  BY <1>1, <1>2
<1>5. PICK old \in SUBSET hit : u = (t \ old) \cup {j} /\ (hit = {} \/ \E s \in hit : old = {s})
  BY DEF ReplaceOrInsert
<1>. HIDE DEF hit
<1>6. Tree(u)
  <2>1. IsFiniteSet(t \ old)
    BY FS_Difference DEF Tree
  <2>. QED  BY <1>5, <2>1, FS_AddElement DEF Tree
<1>7. IdsOf(u) = IdsOf(t) \cup (j.low..j.high)
  <2>1. \A x : x \in IdsOf(u) <=> x \in Nat /\ \E r \in u : r.low <= x /\ x <= r.high
    BY <1>6, IdsAre DEF Tree
  <2>2. \A x : x \in IdsOf(t) <=> x \in Nat /\ \E r \in t : r.low <= x /\ x <= r.high
    BY IdsAre DEF Tree
  <2>0. j \in u /\ j.low \in Nat /\ j.high \in Nat
    BY <1>1, <1>5
  <2>3. ASSUME NEW x \in IdsOf(u) PROVE x \in IdsOf(t) \cup (j.low..j.high)
    <3>1. PICK r \in u : x \in Nat /\ r.low <= x /\ x <= r.high
      BY <2>1
    <3>2. CASE r = j
      BY <2>0, <3>1, <3>2
    <3>3. CASE r \in t
      BY <2>2, <3>1, <3>3
    <3>. QED  BY <1>5, <3>2, <3>3
  <2>4. ASSUME NEW x \in j.low..j.high PROVE x \in IdsOf(u)
    <3>1. x \in Nat /\ j.low <= x /\ x <= j.high
      BY <2>0
    <3>. QED  BY <2>0, <2>1, <3>1
  <2>5. ASSUME NEW x \in IdsOf(t) PROVE x \in IdsOf(u)
    <3>1. PICK r \in t : x \in Nat /\ r.low <= x /\ x <= r.high
      BY <2>2
    <3>2. CASE r \in old
      <4>1. r \in hit /\ r.low \in Nat /\ r.high \in Nat
        BY <1>1, <3>2
      <4>2. x \in j.low..j.high
        BY <1>3, <2>0, <3>1, <4>1
      <4>. QED  BY <2>4, <4>2
    <3>3. CASE r \notin old
      BY <1>5, <2>1, <3>1, <3>3
    <3>. QED  BY <3>2, <3>3
  <2>. QED  BY <2>3, <2>4, <2>5
<1>8. ASSUME hit = old PROVE Apart(u)
  <2>1. \A s \in t \ old : s.high + 1 < j.low \/ j.high + 1 < s.low
    BY <1>4, <1>8
  <2>. QED  BY <1>5, <2>1 DEF Apart
<1>9. ASSUME hit # old PROVE Crowded(u)
  <2>1. PICK s \in hit : s \notin old
    BY <1>5, <1>9
  <2>2. PICK o \in hit : o \in old
    BY <1>5, <1>9
  <2>3. s # j
    <3>1. o # s /\ (o.high + 1 < s.low \/ s.high + 1 < o.low)
      BY <1>2, <2>1, <2>2 DEF Apart
    <3>. QED  BY <1>1, <1>2, <1>3, <2>2, <3>1
  <2>4. {j, s} \in SUBSET FindOverlapping(u, j)
    BY <1>1, <1>2, <1>5, <2>1 DEF FindOverlapping, Overlap
  <2>5. IsFiniteSet(FindOverlapping(u, j))
    BY <1>6, FS_Subset DEF FindOverlapping, Tree
  <2>6. Cardinality({j, s}) = 2
    <3>1. IsFiniteSet({j}) /\ Cardinality({j}) = 1
      BY FS_Singleton
    <3>2. Cardinality({j} \cup {s}) = IF s \in {j} THEN Cardinality({j}) ELSE Cardinality({j}) + 1
      BY ONLY <3>1, FS_AddElement
    <3>3. {j} \cup {s} = {j, s}
      OBVIOUS
    <3>. QED  BY <2>3, <3>1, <3>2, <3>3
  <2>7. Cardinality(FindOverlapping(u, j)) >= 2 /\ Cardinality(FindOverlapping(u, j)) \in Nat
    BY <2>4, <2>5, <2>6, FS_Subset, FS_CardinalityType
  <2>. QED  BY <1>5, <2>7 DEF Crowded
<1>10. (\A s \in t : ~Overlap(s, j)) => hit = old
  BY <1>2, <1>5 DEF Overlap
<1>. QED  BY <1>6, <1>7, <1>8, <1>9, <1>10

\* A range that is added is joined with those that it touches, so that what it then
\* overlaps lies within it.
LEMMA AddGives ==
    ASSUME NEW t, Tree(t), Apart(t), NEW r \in TreeRange, NEW u \in Add(t, r)
    PROVE  /\ Tree(u) /\ IdsOf(u) = IdsOf(t) \cup (r.low..r.high)
           /\ Apart(u) \/ Crowded(u)
           /\ r.low = r.high /\ r.low \notin IdsOf(t) => Apart(u)
<1>. DEFINE below == FindRange(t, r.low - 1)
            above == FindRange(t, r.high + 1)
            low == IF below = {} THEN r.low ELSE (CHOOSE s \in below : TRUE).low
            high == IF above = {} THEN r.high ELSE (CHOOSE s \in above : TRUE).high
            rest == t \ (below \cup above)
            j == IdRange(low, high)
<1>1. \A s \in t \cup {r} : s.low \in Nat \ {0} /\ s.high \in Nat \ {0} /\ s.low <= s.high
  BY TreeRangeHas DEF Tree
<1>2. u \in ReplaceOrInsert(rest, j)
  BY DEF Add
<1>3. \/ below = {} /\ r.low - 1 \notin IdsOf(t) /\ low = r.low
      \/ \E b \in t : below = {b} /\ b.low <= r.low - 1 /\ r.low - 1 <= b.high /\ low = b.low
  <2>1. r.low - 1 \in Nat
    BY <1>1
  <2>2. \/ below = {} /\ r.low - 1 \notin IdsOf(t)
        \/ \E b \in t : below = {b} /\ b.low <= r.low - 1 /\ r.low - 1 <= b.high
    BY <2>1, FoundIn
  <2>3. \A b : below = {b} => (CHOOSE s \in below : TRUE) = b /\ below # {}
    OBVIOUS
  <2>. HIDE DEF below
  <2>. QED  BY <2>2, <2>3
<1>4. \/ above = {} /\ r.high + 1 \notin IdsOf(t) /\ high = r.high
      \/ \E a \in t : above = {a} /\ a.low <= r.high + 1 /\ r.high + 1 <= a.high /\ high = a.high
  <2>1. r.high + 1 \in Nat
    BY <1>1
  <2>2. \/ above = {} /\ r.high + 1 \notin IdsOf(t)
        \/ \E a \in t : above = {a} /\ a.low <= r.high + 1 /\ r.high + 1 <= a.high
    BY <2>1, FoundIn
  <2>3. \A a : above = {a} => (CHOOSE s \in above : TRUE) = a /\ above # {}
    OBVIOUS
  <2>. HIDE DEF above
  <2>. QED  BY <2>2, <2>3
<1>. HIDE DEF below, above, low, high
<1>5. low \in Nat \ {0} /\ high \in Nat \ {0} /\ low <= r.low /\ r.high <= high
  BY <1>1, <1>3, <1>4
<1>6. j \in TreeRange /\ j.low = low /\ j.high = high
  BY <1>1, <1>5, TreeRangeIs
<1>. HIDE DEF j
<1>7. \A x : x \in IdsOf(t) <=> x \in Nat /\ \E s \in t : s.low <= x /\ x <= s.high
  BY IdsAre DEF Tree
<1>8. \A s \in t : r.low - 1 \notin IdsOf(t) => r.low <= s.low \/ s.high < r.low - 1
  BY <1>1, <1>7
<1>9. \A s \in t : r.high + 1 \notin IdsOf(t) => s.high <= r.high \/ r.high + 1 < s.low
  BY <1>1, <1>7
<1>10. \A s \in rest : s.high + 1 < low \/ low <= s.low
  <2>. SUFFICES ASSUME NEW s \in rest, ~(low <= s.low) PROVE s.high + 1 < low
    OBVIOUS
  <2>1. CASE below = {}
    BY <1>1, <1>3, <1>8, <2>1
  <2>2. CASE below # {}
    <3>1. PICK b \in t : below = {b} /\ low = b.low
      BY <1>3, <2>2
    <3>2. s # b /\ s \in t
      BY <3>1 DEF rest
    <3>. QED  BY <1>1, <3>1, <3>2 DEF Apart
  <2>. QED  BY <2>1, <2>2
<1>11. \A s \in rest : high + 1 < s.low \/ s.high <= high
  <2>. SUFFICES ASSUME NEW s \in rest, ~(s.high <= high) PROVE high + 1 < s.low
    OBVIOUS
  <2>1. CASE above = {}
    BY <1>1, <1>4, <1>9, <2>1
  <2>2. CASE above # {}
    <3>1. PICK a \in t : above = {a} /\ high = a.high
      BY <1>4, <2>2
    <3>2. s # a /\ s \in t
      BY <3>1 DEF rest
    <3>. QED  BY <1>1, <3>1, <3>2 DEF Apart
  <2>. QED  BY <2>1, <2>2
<1>12. \A s \in rest : \/ s.high + 1 < j.low \/ j.high + 1 < s.low
                       \/ j.low <= s.low /\ s.high <= j.high
  BY <1>6, <1>10, <1>11
<1>13. Tree(rest) /\ Apart(rest)
  BY FS_Difference DEF Tree, Apart
<1>14. /\ Tree(u) /\ IdsOf(u) = IdsOf(rest) \cup (j.low..j.high)
       /\ Apart(u) \/ Crowded(u)
       /\ (\A s \in rest : ~Overlap(s, j)) => Apart(u)
  <2>. HIDE DEF rest
  <2>. QED  BY <1>2, <1>6, <1>12, <1>13, Replaced
<1>15. IdsOf(rest) \cup (low..high) = IdsOf(t) \cup (r.low..r.high)
  <2>1. \A x : x \in IdsOf(rest) <=> x \in Nat /\ \E s \in rest : s.low <= x /\ x <= s.high
    BY <1>13, IdsAre DEF Tree
  <2>2. ASSUME NEW x \in IdsOf(rest) PROVE x \in IdsOf(t)
    BY <1>7, <2>1 DEF rest
  <2>3. ASSUME NEW x \in low..high PROVE x \in IdsOf(t) \cup (r.low..r.high)
    <3>0. x \in Nat /\ low <= x /\ x <= high
      BY <1>5
    <3>1. CASE x < r.low
      <4>1. PICK b \in t : low = b.low /\ r.low - 1 <= b.high
        BY <1>1, <1>3, <3>0, <3>1
      <4>2. b.low <= x /\ x <= b.high
        BY <1>1, <3>0, <3>1, <4>1
      <4>. QED  BY <1>7, <3>0, <4>2
    <3>2. CASE x > r.high
      <4>1. PICK a \in t : high = a.high /\ a.low <= r.high + 1
        BY <1>1, <1>4, <3>0, <3>2
      <4>2. a.low <= x /\ x <= a.high
        BY <1>1, <3>0, <3>2, <4>1
      <4>. QED  BY <1>7, <3>0, <4>2
    <3>. QED  BY <1>1, <3>0, <3>1, <3>2
  <2>4. ASSUME NEW x \in r.low..r.high PROVE x \in low..high
    BY <1>1, <1>5
  <2>5. ASSUME NEW x \in IdsOf(t) PROVE x \in IdsOf(rest) \cup (low..high)
    <3>1. PICK s \in t : x \in Nat /\ s.low <= x /\ x <= s.high
      BY <1>7
    <3>2. CASE s \in rest
      BY <2>1, <3>1, <3>2
    <3>3. CASE s \in below
      <4>1. low = s.low /\ s.high \in Nat /\ s.low \in Nat
        BY <1>1, <1>3, <3>3
      <4>2. s.high <= high
        <5>2. s.low <= r.low - 1
          BY <1>3, <3>3
        <5>3. CASE above = {}
          BY <1>1, <1>4, <1>9, <4>1, <5>2, <5>3
        <5>4. ASSUME NEW a \in t, above = {a}, high = a.high, r.high + 1 <= a.high
              PROVE  s.high <= high
          <6>1. s = a \/ s.high + 1 < a.low \/ a.high + 1 < s.low
            BY DEF Apart
          <6>. QED  BY <1>1, <4>1, <5>2, <5>4, <6>1
        <5>. QED  BY <1>4, <5>3, <5>4
      <4>. QED  BY <1>5, <3>1, <4>1, <4>2
    <3>4. CASE s \in above
      <4>1. high = s.high /\ s.high \in Nat /\ s.low \in Nat
        BY <1>1, <1>4, <3>4
      <4>2. low <= s.low
        <5>1. r.high + 1 <= s.high
          BY <1>4, <3>4
        <5>2. CASE below = {}
          BY <1>1, <1>3, <1>8, <4>1, <5>1, <5>2
        <5>3. ASSUME NEW b \in t, below = {b}, low = b.low, b.low <= r.low - 1
              PROVE  low <= s.low
          <6>1. s = b \/ s.high + 1 < b.low \/ b.high + 1 < s.low
            BY DEF Apart
          <6>. QED  BY <1>1, <4>1, <5>1, <5>3, <6>1
        <5>. QED  BY <1>3, <5>2, <5>3
      <4>. QED  BY <1>5, <3>1, <4>1, <4>2
    <3>. QED  BY <3>2, <3>3, <3>4 DEF rest
  <2>. HIDE DEF rest
  <2>. QED  BY <2>2, <2>3, <2>4, <2>5
<1>16. ASSUME r.low = r.high, r.low \notin IdsOf(t) PROVE Apart(u)
  <2>1. \A s \in rest : ~Overlap(s, j)
    <3>. SUFFICES ASSUME NEW s \in rest, s.low <= high, low <= s.high PROVE FALSE
      BY <1>6 DEF Overlap
    <3>1. s \in t /\ s \notin below /\ s \notin above
      BY DEF rest
    <3>2. low <= s.low /\ s.high <= high
      BY <1>1, <1>5, <1>10, <1>11, <3>1
    <3>3. s.high < r.low \/ r.low < s.low
      BY <1>1, <1>7, <1>16, <3>1
    <3>4. CASE s.high < r.low
      <4>1. PICK b \in t : below = {b} /\ low = b.low /\ r.low - 1 <= b.high
        BY <1>1, <1>3, <3>1, <3>2, <3>4
      <4>. QED  BY <1>1, <3>1, <3>2, <3>4, <4>1 DEF Apart
    <3>5. CASE r.low < s.low
      <4>1. PICK a \in t : above = {a} /\ high = a.high /\ a.low <= r.high + 1
        BY <1>1, <1>4, <1>16, <3>1, <3>2, <3>5
      <4>. QED  BY <1>1, <1>16, <3>1, <3>2, <3>5, <4>1 DEF Apart
    <3>. QED  BY <3>3, <3>4, <3>5
  <2>. QED  BY <1>14, <2>1
<1>. QED  BY <1>6, <1>14, <1>15, <1>16

\* Subtracting a range leaves what is below it and above it.
LEMMA SubtractGives ==
    ASSUME NEW t, Tree(t), Apart(t), NEW r \in TreeRange
    PROVE  /\ Tree(Subtract(t, r)) /\ Apart(Subtract(t, r))
           /\ IdsOf(Subtract(t, r)) = IdsOf(t) \ (r.low..r.high)
<1>. DEFINE u == Subtract(t, r)
            hit == FindOverlapping(t, r)
            left == UNION {Remainders(s, r) : s \in hit}
<1>1. \A s \in t \cup {r} : s.low \in Nat \ {0} /\ s.high \in Nat \ {0} /\ s.low <= s.high
  BY TreeRangeHas DEF Tree
<1>2. \A s \in t : s \in hit <=> s.low <= r.high /\ r.low <= s.high
  BY DEF FindOverlapping, Overlap
<1>3. hit \subseteq t
  BY DEF FindOverlapping
<1>4. ASSUME NEW s \in hit, NEW p \in Remainders(s, r)
      PROVE  /\ p \in TreeRange /\ s.low <= p.low /\ p.high <= s.high
             /\ p.high < r.low \/ r.high < p.low
  <2>1. /\ s.low \in Nat \ {0} /\ s.high \in Nat \ {0} /\ s.low <= s.high
        /\ s.low <= r.high /\ r.low <= s.high
        /\ r.low \in Nat \ {0} /\ r.high \in Nat \ {0} /\ r.low <= r.high
    BY <1>1, <1>2, <1>3
  <2>2. /\ p = IdRange(s.low, IF r.low - 1 < s.high THEN r.low - 1 ELSE s.high)
           \/ p = IdRange(IF r.high + 1 > s.low THEN r.high + 1 ELSE s.low, s.high)
        /\ p.low <= p.high
    BY DEF Remainders
  <2>3. \/ p = IdRange(s.low, r.low - 1) /\ s.low <= r.low - 1
        \/ p = IdRange(r.high + 1, s.high) /\ r.high + 1 <= s.high
    BY <2>1, <2>2 DEF IdRange
  <2>. QED  BY <2>1, <2>3, TreeRangeIs
<1>5. ASSUME NEW s \in hit, NEW x \in s.low..s.high, x \notin r.low..r.high
      PROVE  \E p \in Remainders(s, r) : p.low <= x /\ x <= p.high
  <2>1. /\ s.low \in Nat \ {0} /\ s.high \in Nat \ {0} /\ s.low <= s.high
        /\ s.low <= r.high /\ r.low <= s.high
        /\ r.low \in Nat \ {0} /\ r.high \in Nat \ {0} /\ r.low <= r.high
    BY <1>1, <1>2, <1>3
  <2>2. CASE x < r.low
    <3>1. IdRange(s.low, IF r.low - 1 < s.high THEN r.low - 1 ELSE s.high) = IdRange(s.low, r.low - 1)
      BY <1>5, <2>1, <2>2
    <3>2. IdRange(s.low, r.low - 1) \in Remainders(s, r)
      BY <1>5, <2>1, <2>2, <3>1 DEF Remainders, IdRange
    <3>. QED  BY <1>5, <2>1, <2>2, <3>2 DEF IdRange
  <2>3. CASE x > r.high
    <3>1. IdRange(IF r.high + 1 > s.low THEN r.high + 1 ELSE s.low, s.high) = IdRange(r.high + 1, s.high)
      BY <1>5, <2>1, <2>3
    <3>2. IdRange(r.high + 1, s.high) \in Remainders(s, r)
      BY <1>5, <2>1, <2>3, <3>1 DEF Remainders, IdRange
    <3>. QED  BY <1>5, <2>1, <2>3, <3>2 DEF IdRange
  <2>. QED  BY <1>5, <2>1, <2>2, <2>3
<1>6. u = (t \ hit) \cup left
  BY DEF Subtract
<1>7. \A p \in left : \E s \in hit : p \in Remainders(s, r)
  OBVIOUS
<1>8. \A s \in hit : \A p \in Remainders(s, r) : p \in left
  OBVIOUS
<1>9. IsFiniteSet(left)
  <2>1. IsFiniteSet(hit)
    BY <1>3, FS_Subset DEF Tree
  <2>2. \A s \in hit : IsFiniteSet(Remainders(s, r))
    <3>. TAKE s \in hit
    <3>. DEFINE a == IdRange(s.low, IF r.low - 1 < s.high THEN r.low - 1 ELSE s.high)
                b == IdRange(IF r.high + 1 > s.low THEN r.high + 1 ELSE s.low, s.high)
    <3>1. Remainders(s, r) \in SUBSET ({a} \cup {b})
      BY DEF Remainders
    <3>2. IsFiniteSet({a} \cup {b})
      <4>. HIDE DEF a, b
      <4>. QED  BY FS_Singleton, FS_AddElement
    <3>. HIDE DEF a, b
    <3>. QED  BY <3>1, <3>2, FS_Subset
  <2>. DEFINE parts == {Remainders(s, r) : s \in hit}
  <2>3. IsFiniteSet(parts)
    <3>1. [s \in hit |-> Remainders(s, r)] \in Surjection(hit, parts)
      BY DEF Surjection
    <3>. HIDE DEF parts
    <3>. QED  BY <2>1, <3>1, FS_Surjection
  <2>4. \A p \in parts : IsFiniteSet(p)
    BY <2>2
  <2>. HIDE DEF parts
  <2>5. IsFiniteSet(UNION parts)
    BY <2>3, <2>4, FS_UNION
  <2>. QED  BY <2>5 DEF parts
<1>. HIDE DEF left, u, hit
<1>10. Tree(u)
  <2>1. IsFiniteSet(t \ hit)
    BY FS_Difference DEF Tree
  <2>2. IsFiniteSet(u)
    BY <1>6, <1>9, <2>1, FS_Union
  <2>3. u \subseteq TreeRange
    BY <1>4, <1>6, <1>7 DEF Tree
  <2>. QED  BY <2>2, <2>3 DEF Tree
<1>11. \A p \in u : p.low \in Nat \ {0} /\ p.high \in Nat \ {0} /\ p.low <= p.high
  BY <1>10, TreeRangeHas DEF Tree
<1>12. \A p \in u : \E s \in t : s.low <= p.low /\ p.high <= s.high
                                 /\ ((p = s /\ s \notin hit) \/ (s \in hit /\ p \in Remainders(s, r)))
  <2>. TAKE p \in u
  <2>1. CASE p \in t \ hit
    <3>1. p.low <= p.low /\ p.high <= p.high
      BY <1>11
    <3>. QED  BY <2>1, <3>1
  <2>2. CASE p \in left
    BY <1>3, <1>4, <1>7, <2>2
  <2>. QED  BY <1>6, <2>1, <2>2
<1>13. \A p \in u : p.high < r.low \/ r.high < p.low
  BY <1>1, <1>2, <1>4, <1>12
<1>14. Apart(u)
  <2>. SUFFICES ASSUME NEW p \in u, NEW q \in u, p # q
                PROVE  p.high + 1 < q.low \/ q.high + 1 < p.low
    BY DEF Apart
  <2>1. PICK s \in t : s.low <= p.low /\ p.high <= s.high
                       /\ ((p = s /\ s \notin hit) \/ (s \in hit /\ p \in Remainders(s, r)))
    BY <1>12
  <2>2. PICK v \in t : v.low <= q.low /\ q.high <= v.high
                       /\ ((q = v /\ v \notin hit) \/ (v \in hit /\ q \in Remainders(v, r)))
    BY <1>12
  <2>3. CASE s # v
    BY <1>1, <1>11, <2>1, <2>2, <2>3 DEF Apart
  <2>4. CASE s = v
    <3>1. s \in hit /\ p \in Remainders(s, r) /\ q \in Remainders(s, r)
      BY <2>1, <2>2, <2>4
    <3>2. /\ s.low \in Nat \ {0} /\ s.high \in Nat \ {0} /\ s.low <= s.high
          /\ s.low <= r.high /\ r.low <= s.high
          /\ r.low \in Nat \ {0} /\ r.high \in Nat \ {0} /\ r.low <= r.high
      BY <1>1, <1>2, <1>3, <3>1
    <3>. DEFINE a == IdRange(s.low, IF r.low - 1 < s.high THEN r.low - 1 ELSE s.high)
                b == IdRange(IF r.high + 1 > s.low THEN r.high + 1 ELSE s.low, s.high)
    <3>3. {p, q} \subseteq {a, b} /\ a.high <= r.low - 1 /\ b.low >= r.high + 1
      BY <3>1, <3>2 DEF Remainders, IdRange
    <3>. HIDE DEF a, b
    <3>. QED  BY <1>11, <2>1, <3>2, <3>3
  <2>. QED  BY <2>3, <2>4
<1>15. IdsOf(u) = IdsOf(t) \ (r.low..r.high)
  <2>1. \A x : x \in IdsOf(u) <=> x \in Nat /\ \E p \in u : p.low <= x /\ x <= p.high
    BY <1>10, IdsAre DEF Tree
  <2>2. \A x : x \in IdsOf(t) <=> x \in Nat /\ \E s \in t : s.low <= x /\ x <= s.high
    BY IdsAre DEF Tree
  <2>3. ASSUME NEW x \in IdsOf(u) PROVE x \in IdsOf(t) \ (r.low..r.high)
    <3>1. PICK p \in u : x \in Nat /\ p.low <= x /\ x <= p.high
      BY <2>1
    <3>2. PICK s \in t : s.low <= p.low /\ p.high <= s.high
      BY <1>12
    <3>3. s.low <= x /\ x <= s.high
      BY <1>1, <1>11, <3>1, <3>2
    <3>4. x < r.low \/ r.high < x
      BY <1>1, <1>11, <1>13, <3>1
    <3>. QED  BY <1>1, <2>2, <3>1, <3>3, <3>4
  <2>4. ASSUME NEW x \in IdsOf(t), x \notin r.low..r.high PROVE x \in IdsOf(u)
    <3>1. PICK s \in t : x \in Nat /\ s.low <= x /\ x <= s.high
      BY <2>2
    <3>2. CASE s \in hit
      <4>1. x \in s.low..s.high
        BY <1>1, <3>1
      <4>2. PICK p \in Remainders(s, r) : p.low <= x /\ x <= p.high
        BY <1>5, <2>4, <3>2, <4>1
      <4>. QED  BY <1>6, <1>8, <2>1, <3>1, <3>2, <4>2
    <3>3. CASE s \notin hit
      BY <1>6, <2>1, <3>1, <3>3
    <3>. QED  BY <3>2, <3>3
  <2>. QED  BY <2>3, <2>4
<1>. QED  BY <1>10, <1>14, <1>15 DEF u

\* One id is added or subtracted.
LEMMA InvertIntGives ==
    ASSUME NEW t, Tree(t), Apart(t), NEW x \in Nat \ {0}, NEW u \in InvertInt(t, x)
    PROVE  Tree(u) /\ Apart(u) /\ IdsOf(u) = Xor(IdsOf(t), {x})
<1>. DEFINE r == IdRange(x, x)
<1>1. r \in TreeRange /\ r.low = x /\ r.high = x /\ r.low..r.high = {x}
  <2>1. r \in TreeRange /\ r.low = x /\ r.high = x
    BY TreeRangeIs
  <2>2. x..x = {x}
    OBVIOUS
  <2>. QED  BY <2>1, <2>2
<1>. HIDE DEF r
<1>2. CASE FindRange(t, x) = {}
  <2>1. x \notin IdsOf(t)
    BY <1>2, FoundIn
  <2>2. u \in Add(t, r)
    BY <1>2 DEF InvertInt, r
  <2>3. Tree(u) /\ Apart(u) /\ IdsOf(u) = IdsOf(t) \cup {x}
    BY <1>1, <2>1, <2>2, AddGives
  <2>. QED  BY <2>1, <2>3 DEF Xor
<1>3. CASE FindRange(t, x) # {}
  <2>1. x \in IdsOf(t)
    BY <1>3, FoundIn
  <2>2. u = Subtract(t, r)
    BY <1>3 DEF InvertInt, r
  <2>3. Tree(u) /\ Apart(u) /\ IdsOf(u) = IdsOf(t) \ {x}
    BY <1>1, <2>2, SubtractGives
  <2>. QED  BY <2>1, <2>3 DEF Xor
<1>. QED  BY <1>2, <1>3

\* The trees after each id of a range up to n.
Inverts(g, t, r, n) ==
    g = [x \in (r.low - 1)..n |->
            IF x < r.low THEN {t} ELSE UNION {InvertInt(v, x) : v \in g[x - 1]}]

\* Invert is defined: the trees after an id follow from those after the one before.
LEMMA InvertDefined ==
    ASSUME NEW t, NEW r \in TreeRange
    PROVE  \E g : Inverts(g, t, r, r.high) /\ Invert(t, r) = g[r.high]
<1>. DEFINE S == {n \in Nat : \E g : Inverts(g, t, r, n)}
            first == r.low - 1
            Trees(g, x) == IF x < r.low THEN {t} ELSE UNION {InvertInt(v, x) : v \in g[x - 1]}
<1>1. /\ r.low \in Nat \ {0} /\ r.high \in Nat \ {0} /\ r.low <= r.high
      /\ first \in Nat /\ first <= r.high
  BY TreeRangeHas
<1>2. first \in S
  <2>. DEFINE g == [x \in first..first |-> {t}]
  <2>1. \A x \in first..first : x < r.low
    BY <1>1
  <2>2. Inverts(g, t, r, first)
    BY <2>1 DEF Inverts
  <2>. QED  BY <1>1, <2>2
<1>3. ASSUME NEW n \in Nat, first <= n, n \in S
      PROVE  n + 1 \in S
  <2>1. PICK g : g = [x \in first..n |-> Trees(g, x)]
    BY <1>3 DEF Inverts
  <2>. DEFINE h == [x \in first..n + 1 |-> Trees(g, x)]
  <2>2. \A x \in first..n + 1 : Trees(h, x) = Trees(g, x)
    <3>. SUFFICES ASSUME NEW x \in first..n + 1, ~(x < r.low)
                  PROVE  h[x - 1] = g[x - 1]
      BY Zenon
    <3>1. x - 1 \in first..n /\ x - 1 \in first..n + 1
      BY <1>1
    <3>2. g[x - 1] = Trees(g, x - 1)
      <4>. HIDE DEF Trees
      <4>. QED  BY <2>1, <3>1
    <3>3. h[x - 1] = Trees(g, x - 1)
      <4>. HIDE DEF Trees
      <4>. QED  BY <3>1
    <3>. QED  BY <3>2, <3>3
  <2>3. h = [x \in first..n + 1 |-> Trees(h, x)]
    <3>. HIDE DEF Trees
    <3>. QED  BY <2>2
  <2>4. Inverts(h, t, r, n + 1)
    <3>. HIDE DEF h
    <3>. QED  BY <2>3 DEF Inverts
  <2>. HIDE DEF h
  <2>. QED  BY <2>4
<1>4. r.high \in S
  <2>. HIDE DEF S, first
  <2>. QED  BY <1>1, <1>2, <1>3, Upwards
<1>5. \E g : g = [x \in first..r.high |-> Trees(g, x)]
  BY <1>4 DEF Inverts
<1>. DEFINE f == CHOOSE g : g = [x \in first..r.high |-> Trees(g, x)]
<1>6. f = [x \in first..r.high |-> Trees(f, x)]
  <2>. HIDE DEF Trees
  <2>. QED  BY <1>5, Zenon
<1>7. Invert(t, r) = f[r.high]
  BY DEF Invert
<1>8. Inverts(f, t, r, r.high)
  <2>. HIDE DEF f
  <2>. QED  BY <1>6 DEF Inverts
<1>. HIDE DEF f
<1>. QED  BY <1>7, <1>8

\* Every id of the range is inverted once.
LEMMA InvertGives ==
    ASSUME NEW t, Tree(t), Apart(t), NEW r \in TreeRange, NEW u \in Invert(t, r)
    PROVE  Tree(u) /\ Apart(u) /\ IdsOf(u) = Xor(IdsOf(t), r.low..r.high)
<1>. DEFINE first == r.low - 1
            Right(v, n) == Tree(v) /\ Apart(v) /\ IdsOf(v) = Xor(IdsOf(t), r.low..n)
<1>1. /\ r.low \in Nat \ {0} /\ r.high \in Nat \ {0} /\ r.low <= r.high
      /\ first \in Nat /\ first <= r.high /\ first < r.low
  BY TreeRangeHas
<1>2. PICK g : Inverts(g, t, r, r.high) /\ Invert(t, r) = g[r.high]
  BY InvertDefined
<1>. DEFINE S == {n \in Nat : \A v \in g[n] : Right(v, n)}
<1>3. g[first] = {t}
  <2>1. first \in first..r.high
    BY <1>1
  <2>. QED  BY <1>1, <1>2, <2>1 DEF Inverts
<1>4. ASSUME NEW x \in r.low..r.high
      PROVE  g[x] = UNION {InvertInt(v, x) : v \in g[x - 1]}
  <2>1. x \in first..r.high /\ ~(x < r.low)
    BY <1>1
  <2>. QED  BY <1>2, <2>1 DEF Inverts
<1>5. first \in S
  <2>1. r.low..first = {}
    BY <1>1
  <2>2. IdsOf(t) = Xor(IdsOf(t), {})
    BY DEF Xor
  <2>. QED  BY <1>1, <1>3, <2>1, <2>2
<1>6. ASSUME NEW n \in Nat, first <= n, n < r.high, n \in S
      PROVE  n + 1 \in S
  <2>. SUFFICES ASSUME NEW w \in g[n + 1] PROVE Right(w, n + 1)
    OBVIOUS
  <2>1. PICK v \in g[n] : w \in InvertInt(v, n + 1)
    <3>1. n + 1 \in r.low..r.high /\ n + 1 - 1 = n
      BY <1>1, <1>6
    <3>2. PICK v \in g[n + 1 - 1] : w \in InvertInt(v, n + 1)
      BY <1>4, <3>1
    <3>. QED  BY <3>1, <3>2
  <2>2. Tree(v) /\ Apart(v) /\ IdsOf(v) = Xor(IdsOf(t), r.low..n)
    BY <1>6
  <2>3. Tree(w) /\ Apart(w) /\ IdsOf(w) = Xor(IdsOf(v), {n + 1})
    <3>1. n + 1 \in Nat \ {0}
      OBVIOUS
    <3>. HIDE DEF Right
    <3>. QED  BY <2>1, <2>2, <3>1, InvertIntGives
  <2>4. r.low..n + 1 = (r.low..n) \cup {n + 1} /\ n + 1 \notin r.low..n
    BY <1>1, <1>6
  <2>5. \A A, B : n + 1 \notin B => Xor(Xor(A, B), {n + 1}) = Xor(A, B \cup {n + 1})
    BY DEF Xor
  <2>. QED  BY <2>2, <2>3, <2>4, <2>5
<1>7. r.high \in S
  <2>. HIDE DEF S, first
  <2>. QED  BY <1>1, <1>5, <1>6, Upwards
<1>. QED  BY <1>2, <1>7

\* TreeIsSet with the ranges' type.
TreeInv ==
    /\ Tree(tree)
    /\ TreeIsSet

LEMMA TreeInvNext == TreeInv /\ [TreeNext]_treeVars => TreeInv'
<1>. SUFFICES ASSUME TreeInv, [TreeNext]_treeVars PROVE TreeInv'
  OBVIOUS
<1>1. CASE UNCHANGED treeVars
  BY <1>1 DEF TreeInv, TreeIsSet, treeVars
<1>2. ASSUME Apart(tree), NEW r \in Ranges, AddRange(r) \/ SubtractRange(r) \/ InvertRange(r)
      PROVE  TreeInv'
  <2>1. r \in TreeRange
    <3>1. PICK p \in Universe \X Universe : p[1] <= p[2] /\ r = IdRange(p[1], p[2])
      BY DEF Ranges
    <3>2. p[1] \in Nat \ {0} /\ p[2] \in Nat \ {0}
      BY UniverseAssumption
    <3>. QED  BY <3>1, <3>2, TreeRangeIs
  <2>2. Tree(tree) /\ IdsOf(tree) = members
    BY DEF TreeInv, TreeIsSet
  <2>3. Tree(tree') /\ IdsOf(tree') = members' /\ (Apart(tree') \/ Crowded(tree'))
    <3>1. CASE AddRange(r)
      BY <1>2, <2>1, <2>2, <3>1, AddGives DEF AddRange
    <3>2. CASE SubtractRange(r)
      BY <1>2, <2>1, <2>2, <3>2, SubtractGives DEF SubtractRange
    <3>3. CASE InvertRange(r)
      BY <1>2, <2>1, <2>2, <3>3, InvertGives DEF InvertRange
    <3>. QED  BY <1>2, <3>1, <3>2, <3>3
  <2>. QED  BY <2>3 DEF TreeInv, TreeIsSet, Crowded
<1>. QED  BY <1>1, <1>2 DEF TreeNext

LEMMA TreeInvInit == InitTree => TreeInv
BY FS_EmptySet DEF InitTree, TreeInv, TreeIsSet, Tree, IdsOf, Apart

\* TreeIsSet: a tree holds the ids that were added, subtracted and inverted, in ranges
\* that are apart, unless a range was just added that covers several others: Add of
\* rangetree.go joins exactly the ranges that are touched, for any ids.
THEOREM TreesAreSets == TreeSpec => []TreeIsSet
<1>1. InitTree => TreeInv
  BY TreeInvInit
<1>2. TreeInv => TreeIsSet
  BY DEF TreeInv
<1>. QED  BY <1>1, <1>2, TreeInvNext, PTL DEF TreeSpec

\* What insertTag stores of a tree for a version.
Stores(v, t) == {[version |-> v, low |-> r.low, high |-> r.high] : r \in t}

\* The ranges of a tree that are apart are the maximal runs of its ids.
LEMMA ApartAreRuns ==
    ASSUME NEW t, Tree(t), Apart(t), NEW v
    PROVE  Stores(v, t) = Runs(v, IdsOf(t))
<1>1. \A r \in t : r.low \in Nat \ {0} /\ r.high \in Nat \ {0} /\ r.low <= r.high
  BY TreeRangeHas DEF Tree
<1>2. \A x : x \in IdsOf(t) <=> x \in Nat /\ \E r \in t : r.low <= x /\ x <= r.high
  BY IdsAre DEF Tree
<1>3. ASSUME NEW r \in t, NEW x \in IdsOf(t), x = r.low - 1 \/ x = r.high + 1
      PROVE  FALSE
  <2>1. PICK s \in t : s.low <= x /\ x <= s.high
    BY <1>2
  <2>2. s # r
    BY <1>1, <1>3, <2>1
  <2>. QED  BY <1>1, <1>3, <2>1, <2>2 DEF Apart
<1>4. ASSUME NEW r \in t
      PROVE  [version |-> v, low |-> r.low, high |-> r.high] \in Runs(v, IdsOf(t))
  <2>. DEFINE p == <<r.low, r.high>>
  <2>1. r.low \in IdsOf(t) /\ r.high \in IdsOf(t) /\ r.low..r.high \subseteq IdsOf(t)
    <3>1. ASSUME NEW x \in r.low..r.high PROVE x \in IdsOf(t)
      <4>1. x \in Nat /\ r.low <= x /\ x <= r.high
        BY <1>1
      <4>. QED  BY <1>2, <4>1
    <3>2. r.low \in r.low..r.high /\ r.high \in r.low..r.high
      BY <1>1
    <3>. QED  BY <3>1, <3>2
  <2>2. r.low - 1 \notin IdsOf(t) /\ r.high + 1 \notin IdsOf(t)
    BY <1>3
  <2>3. p \in IdsOf(t) \X IdsOf(t) /\ p[1] = r.low /\ p[2] = r.high
    BY <2>1
  <2>. HIDE DEF p
  <2>. QED  BY <1>1, <2>1, <2>2, <2>3 DEF Runs
<1>5. ASSUME NEW e \in Runs(v, IdsOf(t))
      PROVE  \E r \in t : e = [version |-> v, low |-> r.low, high |-> r.high]
  <2>1. PICK p \in IdsOf(t) \X IdsOf(t) :
           /\ p[1] <= p[2] /\ p[1]..p[2] \subseteq IdsOf(t)
           /\ p[1] - 1 \notin IdsOf(t) /\ p[2] + 1 \notin IdsOf(t)
           /\ e = [version |-> v, low |-> p[1], high |-> p[2]]
    BY DEF Runs
  <2>2. p[1] \in Nat /\ p[2] \in Nat
    BY <1>2
  <2>3. PICK r \in t : r.low <= p[1] /\ p[1] <= r.high
    BY <1>2
  <2>4. r.low = p[1]
    <3>. SUFFICES ASSUME r.low < p[1] PROVE FALSE
      BY <1>1, <2>2, <2>3
    <3>1. p[1] - 1 \in Nat /\ r.low <= p[1] - 1 /\ p[1] - 1 <= r.high
      BY <1>1, <2>2, <2>3
    <3>. QED  BY <1>2, <2>1, <3>1
  <2>5. ~(r.high < p[2])
    <3>. SUFFICES ASSUME r.high < p[2] PROVE FALSE
      OBVIOUS
    <3>1. r.high + 1 \in p[1]..p[2]
      BY <1>1, <2>2, <2>3
    <3>. QED  BY <1>3, <2>1, <3>1
  <2>6. ~(p[2] < r.high)
    <3>. SUFFICES ASSUME p[2] < r.high PROVE FALSE
      OBVIOUS
    <3>1. p[2] + 1 \in Nat /\ r.low <= p[2] + 1 /\ p[2] + 1 <= r.high
      BY <1>1, <2>1, <2>2, <2>4
    <3>. QED  BY <1>2, <2>1, <3>1
  <2>. QED  BY <1>1, <2>1, <2>2, <2>4, <2>5, <2>6
<1>. QED  BY <1>4, <1>5 DEF Stores

\* TreesAreRuns: what a version stores of a tree, when its ranges are apart, is what VersionAdded
\* stores of the tree's ids: database.go writes the ranges as they are listed.
TreesAreRuns == Apart(tree) => \A v : Stores(v, tree) = Runs(v, members)

THEOREM RunsAreStored == TreeSpec => []TreesAreRuns
<1>1. InitTree => TreeInv
  BY TreeInvInit
<1>2. TreeInv => TreesAreRuns
  BY ApartAreRuns DEF TreeInv, TreeIsSet, TreesAreRuns
<1>. QED  BY <1>1, <1>2, TreeInvNext, PTL DEF TreeSpec
=============================================================================
