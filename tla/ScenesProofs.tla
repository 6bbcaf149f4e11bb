---------------------------- MODULE ScenesProofs ----------------------------
(***************************************************************************)
(* Proofs about Scenes, for any number of scenes and viewers and any       *)
(* bounds: a tile that a browser may keep shows a complete scene, and a    *)
(* change of the files or of the tags is noticed.  A scene is of a         *)
(* collection or of a search in it: the sections at the end are about the  *)
(* dates that a search names, for any patterns and times, and about where  *)
(* the layouts put photos, for any photos and widths.                      *)
(***************************************************************************)
EXTENDS Scenes, SearchDates, Layouts, SequenceLemmas

SceneRecord == [created : Nat, loading : BOOLEAN, listed : Nat \cup {Partial},
                content : Nat \cup {Partial}, tagTime : Nat, searched : BOOLEAN,
                dependent : BOOLEAN]
ViewerRecord == [at : {"idle", "cache", "found", "draw", "answer"}, id : Ids \cup {0},
                 incomplete : BOOLEAN, drawn : Nat \cup {Partial}]

\* The types of what the proof is about.
Types ==
    /\ now \in Nat /\ db \in Nat /\ saved \in Nat /\ tagged \in Nat
    /\ scene \in [Ids -> SceneRecord]
    /\ stored \subseteq Ids /\ cached \subseteq Ids
    /\ viewer \in [Viewers -> ViewerRecord]

\* A scene is complete once it no longer loads.
Complete(i) == scene[i].content # Partial
Loaded ==
    \A i \in Ids :
        /\ scene[i].created > 0 /\ ~scene[i].loading => Complete(i)
        /\ Complete(i) => scene[i].listed # Partial

\* Scenes that are found have been added.
Added == \A i \in stored \cup cached : scene[i].created > 0

\* What a viewer knows of the scene it has found stays true while it draws.
Seen ==
    \A v \in Viewers :
        /\ viewer[v].at # "idle" => viewer[v].id \in Ids /\ scene[viewer[v].id].created > 0
        /\ viewer[v].at = "draw" /\ ~viewer[v].incomplete => Complete(viewer[v].id)

SInv == Types /\ Loaded /\ Added /\ Seen /\ KeptTilesAreComplete

----------------------------------------------------------------------------
\* It holds at the start, when there are no scenes.
LEMMA SInvInit == Init => SInv
<1> SUFFICES ASSUME Init PROVE SInv
    OBVIOUS
<1> USE DEF Init
<1>1. NoScene \in SceneRecord
    BY DEF NoScene, EmptyScene, SceneRecord
<1>2. Idle \in ViewerRecord
    BY DEF Idle, ViewerAt, ViewerRecord
<1>3. Types
    BY <1>1, <1>2 DEF Types
<1>4. Loaded
    BY DEF Loaded, Complete, NoScene, EmptyScene
<1>5. Added /\ Seen /\ KeptTilesAreComplete
    BY DEF Added, Seen, KeptTilesAreComplete, Idle, ViewerAt
<1> QED
    BY <1>3, <1>4, <1>5 DEF SInv

\* The writer of the database and the passing of time leave scenes and viewers alone.
LEMMA SInvWriter == SInv /\ (Writer \/ Pass) => SInv'
<1> SUFFICES ASSUME SInv, Writer \/ Pass PROVE SInv'
    OBVIOUS
<1>1. UNCHANGED <<sceneVars, viewer>>
    BY DEF Writer, Pass, Write, DeleteRow, SetIndexed, Commit, Flush, TagOperation
<1>2. now' \in Nat /\ db' \in Nat /\ saved' \in Nat /\ tagged' \in Nat
    BY DEF SInv, Types, Writer, Pass, Write, DeleteRow, SetIndexed, Commit, Flush, TagOperation,
           ReadClock, Millisecond, writerVars
<1>3. Types'
    BY <1>1, <1>2 DEF SInv, Types, sceneVars
<1> QED
    BY <1>1, <1>3 DEF SInv, Loaded, Added, Seen, KeptTilesAreComplete, Complete, sceneVars

\* Adding a scene: no viewer has found it yet.
LEMMA SInvAdd == ASSUME NEW i \in Ids, SInv, Add(i) PROVE SInv'
<1> DEFINE new == EmptyScene(now', TRUE)
<1>1. /\ now' = now + 1 /\ scene[i].created = 0
      /\ scene' = [scene EXCEPT ![i] = new]
      /\ UNCHANGED <<writerVars, viewer>>
      /\ stored' = Kept(stored) \cup {i} /\ cached' \subseteq cached
    BY DEF Add, ReadClock
<1>2. new \in SceneRecord /\ new.created > 0 /\ new.loading /\ new.content = Partial
    BY <1>1 DEF SInv, Types, EmptyScene, SceneRecord
<1>3. Kept(stored) \subseteq stored
    BY DEF Kept
<1> HIDE DEF new
<1>4. Types'
    BY <1>1, <1>2, <1>3 DEF SInv, Types, writerVars
<1>5. \A j \in Ids : scene'[j] = IF j = i THEN new ELSE scene[j]
    BY <1>1 DEF SInv, Types
<1>6. Loaded'
    BY <1>2, <1>5 DEF SInv, Loaded, Complete
<1>7. Added'
    BY <1>1, <1>2, <1>3, <1>5 DEF SInv, Types, Added
<1>8. Seen' /\ KeptTilesAreComplete'
    BY <1>1, <1>2, <1>5 DEF SInv, Seen, Complete, KeptTilesAreComplete
<1> QED
    BY <1>4, <1>6, <1>7, <1>8 DEF SInv

\* What loading does to a scene, whatever its place: it goes on to be complete.
LEMMA SInvLoading ==
    ASSUME NEW i \in Ids, SInv, List(i) \/ DependOnTags(i) \/ Layout(i) \/ LoadEnds(i) PROVE SInv'
<1> DEFINE s == scene[i]
           t == scene'[i]
<1>1. /\ UNCHANGED <<now, writerVars, stored, cached, viewer>>
      /\ \A j \in Ids : j # i => scene'[j] = scene[j]
      /\ scene' \in [Ids -> SceneRecord]
      /\ t.created = s.created
      /\ Complete(i) => t.content # Partial
      /\ ~t.loading => ~s.loading \/ Complete(i)
      /\ t.content # Partial => t.listed # Partial
    <2>1. /\ scene \in [Ids -> SceneRecord] /\ s \in SceneRecord /\ saved \in Nat /\ Partial \notin Nat
          /\ Complete(i) => s.listed # Partial
        BY ScenesAssumption DEF SInv, Types, Loaded
    <2>2. \A new \in SceneRecord : scene' = [scene EXCEPT ![i] = new] =>
             /\ t = new /\ scene' \in [Ids -> SceneRecord]
             /\ \A j \in Ids : j # i => scene'[j] = scene[j]
        BY <2>1
    <2>3. CASE List(i)
        <3> DEFINE new == [s EXCEPT !.listed = saved]
        <3>1. new \in SceneRecord /\ scene' = [scene EXCEPT ![i] = new] /\ s.listed = Partial
            BY <2>1, <2>3 DEF List, SceneRecord
        <3>2. t = new
            BY <2>2, <3>1
        <3> QED
            BY <2>1, <2>2, <2>3, <3>1, <3>2 DEF List, Complete, SceneRecord
    <2>4. CASE DependOnTags(i)
        <3> DEFINE new == [s EXCEPT !.searched = TRUE]
        <3>1. new \in SceneRecord /\ scene' = [scene EXCEPT ![i] = new]
            BY <2>1, <2>4 DEF DependOnTags, SceneRecord
        <3>2. t = new
            BY <2>2, <3>1
        <3> QED
            BY <2>1, <2>2, <2>4, <3>1, <3>2 DEF DependOnTags, Complete, SceneRecord
    <2>5. CASE Layout(i)
        <3> DEFINE new == [s EXCEPT !.content = s.listed]
        <3>1. new \in SceneRecord /\ scene' = [scene EXCEPT ![i] = new] /\ s.listed # s.content
            BY <2>1, <2>5 DEF Layout, SceneRecord
        <3>2. t = new
            BY <2>2, <3>1
        <3> QED
            BY <2>1, <2>2, <2>5, <3>1, <3>2 DEF Layout, Complete, SceneRecord
    <2>6. CASE LoadEnds(i)
        <3> DEFINE new == [s EXCEPT !.loading = FALSE, !.dependent = TRUE]
        <3>1. new \in SceneRecord /\ scene' = [scene EXCEPT ![i] = new] /\ s.content # Partial
            BY <2>1, <2>6 DEF LoadEnds, SceneRecord
        <3>2. t = new
            BY <2>2, <3>1
        <3> QED
            BY <2>1, <2>2, <2>6, <3>1, <3>2 DEF LoadEnds, Complete, SceneRecord
    <2> QED
        BY <2>3, <2>4, <2>5, <2>6
<1>2. Types'
    BY <1>1 DEF SInv, Types, writerVars
<1>3. Loaded'
    BY <1>1 DEF SInv, Loaded, Complete
<1>4. Added'
    BY <1>1 DEF SInv, Types, Added
<1>5. Seen' /\ KeptTilesAreComplete'
    BY <1>1 DEF SInv, Seen, Complete, KeptTilesAreComplete
<1> QED
    BY <1>2, <1>3, <1>4, <1>5 DEF SInv

\* A viewer finds a scene, reads whether it loads, and only then draws it.
LEMMA SInvView == ASSUME NEW v \in Viewers, SInv, View(v) PROVE SInv'
<1>1. CASE \E i \in Ids : Find(v, i)
    <2>1. PICK i \in Ids : Find(v, i)
        BY <1>1
    <2> DEFINE found == ViewerAt(IF i \in cached THEN "found" ELSE "cache", i)
    <2>3. /\ viewer' = [viewer EXCEPT ![v] = found] /\ i \in stored \cup cached
          /\ \E t \in {scene[i].tagTime, TagTime(scene[i])} :
                scene' = [scene EXCEPT ![i].tagTime = t]
          /\ UNCHANGED <<now, writerVars, stored, cached>>
        BY <2>1 DEF Find
    <2>4. TagTime(scene[i]) \in Nat /\ scene[i].tagTime \in Nat
        BY DEF TagTime, SInv, Types, SceneRecord
    <2>5. /\ scene' \in [Ids -> SceneRecord]
          /\ \A j \in Ids : /\ scene'[j].created = scene[j].created
                            /\ scene'[j].loading = scene[j].loading
                            /\ scene'[j].listed = scene[j].listed
                            /\ scene'[j].content = scene[j].content
        BY <2>3, <2>4 DEF SInv, Types, SceneRecord
    <2>6. found \in ViewerRecord /\ found.at \in {"found", "cache"} /\ found.id = i
        BY DEF ViewerRecord, ViewerAt
    <2> HIDE DEF found
    <2>7. Types'
        BY <2>3, <2>5, <2>6 DEF SInv, Types, writerVars
    <2>8. Loaded' /\ Added'
        BY <2>3, <2>5 DEF SInv, Types, Loaded, Added, Complete
    <2>9. Seen' /\ KeptTilesAreComplete'
        BY <2>3, <2>5, <2>6 DEF SInv, Types, Seen, Added, Complete, KeptTilesAreComplete
    <2> QED
        BY <2>7, <2>8, <2>9 DEF SInv
<1>2. CASE CacheScene(v)
    <2>1. Types'
        BY <1>2 DEF CacheScene, SInv, Types, Seen, ViewerRecord, writerVars
    <2>2. Loaded' /\ Added'
        BY <1>2 DEF CacheScene, SInv, Loaded, Added, Seen, Complete
    <2>3. Seen' /\ KeptTilesAreComplete'
        BY <1>2 DEF CacheScene, SInv, Types, Seen, Complete, ViewerRecord, KeptTilesAreComplete
    <2> QED
        BY <2>1, <2>2, <2>3 DEF SInv
<1>3. CASE ReadLoading(v) \/ Draw(v) \/ Answer(v)
    <2>1. UNCHANGED <<now, writerVars, sceneVars>>
        BY <1>3 DEF ReadLoading, Draw, Answer
    <2>2. Loaded' /\ Added'
        BY <2>1 DEF SInv, Loaded, Added, Complete, sceneVars
    <2>3. CASE ReadLoading(v)
        <3>0. viewer[v].id \in Ids /\ scene[viewer[v].id].loading \in BOOLEAN
            BY <2>3 DEF ReadLoading, SInv, Types, Seen, SceneRecord
        <3>1. Types'
            <4>1. /\ viewer \in [Viewers -> ViewerRecord]
                  /\ viewer' = [viewer EXCEPT ![v] =
                        [@ EXCEPT !.at = "draw", !.incomplete = scene[viewer[v].id].loading]]
                BY <2>3 DEF ReadLoading, SInv, Types
            <4>2. viewer' \in [Viewers -> ViewerRecord]
                BY ONLY <3>0, <4>1 DEF ViewerRecord
            <4> QED
                BY <2>1, <4>2 DEF SInv, Types, writerVars, sceneVars
        <3>2. Seen' /\ KeptTilesAreComplete'
            BY <2>1, <2>3 DEF ReadLoading, SInv, Types, Loaded, Seen, Complete, ViewerRecord,
                              KeptTilesAreComplete, sceneVars
        <3> QED
            BY <2>2, <3>1, <3>2 DEF SInv
    <2>4. CASE Draw(v)
        <3>0. scene[viewer[v].id].content \in Nat \cup {Partial}
            BY <2>4 DEF Draw, SInv, Types, Seen, SceneRecord
        <3>1. Types'
            <4>1. /\ viewer \in [Viewers -> ViewerRecord]
                  /\ viewer' = [viewer EXCEPT ![v] =
                        [@ EXCEPT !.at = "answer", !.drawn = scene[viewer[v].id].content]]
                BY <2>4 DEF Draw, SInv, Types
            <4>2. viewer' \in [Viewers -> ViewerRecord]
                BY ONLY <3>0, <4>1 DEF ViewerRecord
            <4> QED
                BY <2>1, <4>2 DEF SInv, Types, writerVars, sceneVars
        <3>2. Seen' /\ KeptTilesAreComplete'
            BY <2>1, <2>4 DEF Draw, SInv, Types, Seen, Complete, ViewerRecord,
                              KeptTilesAreComplete, sceneVars
        <3> QED
            BY <2>2, <3>1, <3>2 DEF SInv
    <2>5. CASE Answer(v)
        <3>1. Idle \in ViewerRecord /\ Idle.at = "idle"
            BY DEF Idle, ViewerAt, ViewerRecord
        <3>2. Types'
            BY <2>1, <2>5, <3>1 DEF Answer, SInv, Types, writerVars, sceneVars
        <3>3. Seen' /\ KeptTilesAreComplete'
            BY <2>1, <2>5, <3>1 DEF Answer, SInv, Types, Seen, Complete, KeptTilesAreComplete,
                                    sceneVars
        <3> QED
            BY <2>2, <3>2, <3>3 DEF SInv
    <2> QED
        BY <1>3, <2>3, <2>4, <2>5
<1> QED
    BY <1>1, <1>2, <1>3 DEF View

\* The steps of all.
LEMMA SInvNext == SInv /\ [Next]_vars => SInv'
<1> SUFFICES ASSUME SInv, [Next]_vars PROVE SInv'
    OBVIOUS
<1>1. CASE Writer \/ Pass
    BY <1>1, SInvWriter
<1>2. ASSUME NEW i \in Ids, Add(i) \/ List(i) \/ DependOnTags(i) \/ Layout(i) \/ LoadEnds(i) PROVE SInv'
    BY <1>2, SInvAdd, SInvLoading
<1>3. ASSUME NEW v \in Viewers, View(v) PROVE SInv'
    BY <1>3, SInvView
<1>4. CASE UNCHANGED vars
    BY <1>4 DEF vars, writerVars, sceneVars, SInv, Types, Loaded, Added, Seen, Complete,
                KeptTilesAreComplete
<1> QED
    BY <1>1, <1>2, <1>3, <1>4 DEF Next

\* A tile that a browser may keep for a day shows the complete scene, although the
\* tile handler of main.go reads Loading before it draws, and the scene loads
\* meanwhile, is pruned, or is put into the cache again.
THEOREM KeptTiles == Spec => []KeptTilesAreComplete
<1>1. SInv => KeptTilesAreComplete
    BY DEF SInv
<1> QED
    BY SInvInit, SInvNext, <1>1, PTL DEF Spec

----------------------------------------------------------------------------
(* A scene that shows old files or old tags is noticed.                    *)

\* What the writer has not committed, or has committed and not reported, is
\* marked as updated or waits for the scan that marks it.
Marked ==
    /\ flushing => db = saved
    /\ db # saved => dirty \/ unindexed

\* Neither a scene nor a change of a tag is of the future, and a scene knows no
\* later change of a tag than the latest.
Past ==
    /\ tagged <= now /\ Millisecond(tagged) = tagged
    /\ \A i \in Ids : scene[i].created <= now /\ scene[i].tagTime <= tagged

\* A scene shows the files that were listed once it depends on the tags, and
\* depends on the collection only when it shows them.
Shown ==
    \A i \in Ids :
        /\ scene[i].content \in {Partial, scene[i].listed}
        /\ Complete(i) => scene[i].searched
        /\ scene[i].dependent => Complete(i)

\* An update that a listing missed is reported after the scene was created, or
\* will be.
MissedIsReported ==
    \A i \in Ids :
        scene[i].listed \notin {Partial, saved} =>
            invalidated > scene[i].created \/ dirty \/ unindexed

NInv == SInv /\ Marked /\ Past /\ Shown /\ MissedIsReported

\* Rounding to milliseconds and seconds keeps the order of times.
LEMMA Rounding ==
    ASSUME NEW t \in Nat, NEW u \in Nat
    PROVE  /\ Millisecond(t) \in Nat /\ Second(t) \in Nat
           /\ Millisecond(t) <= t /\ t < Millisecond(t) + 2
           /\ Millisecond(Millisecond(t)) = Millisecond(t)
           /\ t <= u => Millisecond(t) <= Millisecond(u) /\ Second(t) <= Second(u)
           /\ Millisecond(u) = u /\ u > Millisecond(t) => u > t
    BY DEF Millisecond, Second

LEMMA NInvInit == Init => NInv
<1> SUFFICES ASSUME Init PROVE NInv
    OBVIOUS
<1>1. Marked
    BY DEF Init, Marked
<1>2. \A i \in Ids : scene[i] = NoScene
    BY DEF Init
<1>3. Past
    BY <1>2 DEF Init, Past, Millisecond, NoScene, EmptyScene
<1>4. Shown /\ MissedIsReported
    BY <1>2 DEF Shown, MissedIsReported, Complete, NoScene, EmptyScene
<1> QED
    BY <1>1, <1>3, <1>4, SInvInit DEF NInv

\* The writer marks what it changes, and reports at a later time than any scene's.
LEMMA NInvWriter == NInv /\ (Writer \/ Pass) => Marked' /\ Past' /\ Shown' /\ MissedIsReported'
<1> SUFFICES ASSUME NInv, Writer \/ Pass PROVE Marked' /\ Past' /\ Shown' /\ MissedIsReported'
    OBVIOUS
<1> USE DEF NInv
<1>1. /\ now \in Nat /\ tagged \in Nat
      /\ \A i \in Ids : scene[i].created \in Nat /\ scene[i].tagTime \in Nat
    BY DEF SInv, Types, SceneRecord
<1>2. UNCHANGED <<scene, stored, cached, viewer>>
    BY DEF Writer, Pass, Write, DeleteRow, SetIndexed, Commit, Flush, TagOperation, sceneVars
<1>3. Shown'
    BY <1>2 DEF Shown, Complete
<1>4. now' \in {now, now + 1}
    BY DEF Writer, Pass, Write, DeleteRow, SetIndexed, Commit, Flush, TagOperation, ReadClock
<1>5. tagged' = tagged \/ (now' = now + 1 /\ tagged' = Millisecond(now'))
    BY DEF Writer, Pass, Write, DeleteRow, SetIndexed, Commit, Flush, TagOperation, ReadClock, writerVars
<1>6. tagged <= tagged' /\ tagged' <= now' /\ Millisecond(tagged') = tagged'
    <2>1. CASE tagged' = tagged
        BY <1>1, <1>4, <2>1 DEF Past
    <2>2. CASE now' = now + 1 /\ tagged' = Millisecond(now')
        BY <1>1, <2>2, Rounding DEF Past
    <2> QED
        BY <1>5, <2>1, <2>2
<1>7. Past'
    <2>1. \A i \in Ids : scene[i].created <= now' /\ scene[i].tagTime <= tagged'
        BY <1>1, <1>4, <1>5, <1>6, Rounding DEF Past
    <2> QED
        BY <1>2, <1>6, <2>1 DEF Past
<1>8. Marked' /\ MissedIsReported'
    <2>1. CASE Write \/ DeleteRow \/ SetIndexed \/ Pass
        <3>1. dirty \/ unindexed => dirty' \/ unindexed'
            BY <2>1 DEF Write, DeleteRow, SetIndexed, Pass, writerVars
        <3>2. UNCHANGED <<saved, flushing, invalidated>> /\ (flushing => UNCHANGED db)
            BY <2>1 DEF Write, DeleteRow, SetIndexed, Pass, writerVars
        <3>3. dirty' \/ unindexed' \/ UNCHANGED db
            BY <2>1 DEF Write, DeleteRow, SetIndexed, Pass, writerVars
        <3> QED
            BY <1>2, <3>1, <3>2, <3>3 DEF Marked, MissedIsReported
    <2>2. CASE Commit \/ TagOperation
        <3>1. saved' = db /\ UNCHANGED <<db, dirty, unindexed, invalidated>>
            BY <2>2 DEF Commit, TagOperation
        <3> QED
            BY <1>2, <3>1 DEF Marked, MissedIsReported
    <2>3. CASE Flush
        <3>1. /\ flushing /\ ~flushing' /\ now' = now + 1 /\ UNCHANGED <<db, saved, unindexed>>
              /\ IF dirty THEN invalidated' = now' ELSE invalidated' = invalidated
            BY <2>3 DEF Flush, ReadClock
        <3>2. Marked'
            BY <3>1 DEF Marked
        <3>3. \A i \in Ids : now' > scene[i].created
            BY <1>1, <3>1 DEF Past
        <3> QED
            BY <1>2, <3>1, <3>2, <3>3 DEF MissedIsReported
    <2> QED
        BY <2>1, <2>2, <2>3 DEF Writer
<1> QED
    BY <1>3, <1>7, <1>8

\* A new scene has listed nothing yet; one that loads lists what is committed.
LEMMA NInvScene ==
    ASSUME NEW i \in Ids, NInv, Add(i) \/ List(i) \/ DependOnTags(i) \/ Layout(i) \/ LoadEnds(i)
    PROVE  Marked' /\ Past' /\ Shown' /\ MissedIsReported'
<1> USE DEF NInv
<1> DEFINE s == scene[i]
           t == scene'[i]
<1>1. now \in Nat /\ tagged \in Nat /\ scene \in [Ids -> SceneRecord]
    BY DEF SInv, Types
<1>2. UNCHANGED writerVars /\ \A j \in Ids : j # i => scene'[j] = scene[j]
    BY <1>1 DEF Add, List, DependOnTags, Layout, LoadEnds
<1>3. Marked'
    BY <1>2 DEF Marked, writerVars
<1>4. \A j \in Ids : scene[j].created \in Nat /\ scene[j].tagTime \in Nat
    BY <1>1 DEF SceneRecord
<1>5. now <= now' /\ now' \in Nat
    <2>1. now' \in {now, now + 1}
        BY DEF Add, List, DependOnTags, Layout, LoadEnds, ReadClock
    <2> QED
        BY <1>1, <2>1
<1>6. /\ t.created <= now' /\ t.tagTime <= tagged
      /\ t.content \in {Partial, t.listed}
      /\ t.dependent => t.content # Partial
      /\ t.content # Partial => t.searched
      /\ t.listed \notin {Partial, saved} => s.listed = t.listed /\ s.created = t.created
    <2>1. CASE Add(i)
        <3>1. t = EmptyScene(now', TRUE)
            BY <1>1, <2>1 DEF Add
        <3> QED
            BY <1>1, <1>5, <3>1 DEF EmptyScene
    <2>2. CASE List(i)
        <3>1. t = [s EXCEPT !.listed = saved] /\ s.listed = Partial /\ now' = now
            BY <1>1, <2>2 DEF List
        <3>2. s \in SceneRecord /\ s.content = Partial /\ (s.dependent => s.content # Partial)
            BY <1>1, <3>1 DEF Shown, Complete
        <3> QED
            BY <3>1, <3>2 DEF Past, SceneRecord
    <2>3. CASE Layout(i)
        <3>1. t = [s EXCEPT !.content = s.listed] /\ s.listed # s.content /\ now' = now
              /\ s.searched
            BY <1>1, <2>3 DEF Layout
        <3>2. s \in SceneRecord /\ s.content = Partial /\ (s.dependent => s.content # Partial)
            BY <1>1, <3>1 DEF Shown, Complete
        <3> QED
            BY <3>1, <3>2 DEF Past, SceneRecord
    <2>4. CASE LoadEnds(i)
        <3>1. t = [s EXCEPT !.loading = FALSE, !.dependent = TRUE] /\ s.content # Partial /\ now' = now
            BY <1>1, <2>4 DEF LoadEnds
        <3>2. s \in SceneRecord /\ s.content \in {Partial, s.listed} /\ s.searched
            BY <1>1, <3>1 DEF Shown, Complete
        <3> QED
            BY <3>1, <3>2 DEF Past, SceneRecord
    <2>5. CASE DependOnTags(i)
        <3>1. t = [s EXCEPT !.searched = TRUE] /\ now' = now
            BY <1>1, <2>5 DEF DependOnTags
        <3>2. s \in SceneRecord /\ s.content \in {Partial, s.listed} /\ (s.dependent => s.content # Partial)
            BY <1>1 DEF Shown, Complete
        <3> QED
            BY <3>1, <3>2 DEF Past, SceneRecord
    <2> QED
        BY <2>1, <2>2, <2>3, <2>4, <2>5
<1> HIDE DEF s, t
<1>7. Past'
    <2>1. \A j \in Ids : j # i => scene'[j].created <= now' /\ scene'[j].tagTime <= tagged
        BY <1>1, <1>2, <1>4, <1>5 DEF Past
    <2>2. tagged <= now'
        BY <1>1, <1>5 DEF Past
    <2> QED
        BY <1>2, <1>6, <2>1, <2>2 DEF Past, writerVars, t
<1>8. Shown'
    BY <1>2, <1>6 DEF Shown, Complete, t
<1>9. MissedIsReported'
    BY <1>2, <1>6 DEF MissedIsReported, writerVars, s, t
<1> QED
    BY <1>3, <1>7, <1>8, <1>9

\* A lookup reads the latest change of a tag.
LEMMA NInvView ==
    ASSUME NEW v \in Viewers, NInv, View(v)
    PROVE  Marked' /\ Past' /\ Shown' /\ MissedIsReported'
<1> USE DEF NInv
<1>1. now \in Nat /\ tagged \in Nat /\ scene \in [Ids -> SceneRecord]
    BY DEF SInv, Types
<1>2. UNCHANGED <<now, writerVars>>
    BY DEF View, Find, CacheScene, ReadLoading, Draw, Answer
<1>3. \/ scene' = scene
      \/ \E i \in Ids : \E t \in {scene[i].tagTime, TagTime(scene[i])} :
            scene' = [scene EXCEPT ![i].tagTime = t]
    BY DEF View, Find, CacheScene, ReadLoading, Draw, Answer, sceneVars
<1>4. \A i \in Ids : TagTime(scene[i]) \in {scene[i].tagTime, tagged}
    BY DEF TagTime
<1>5. \A i \in Ids :
         /\ scene'[i].created = scene[i].created /\ scene'[i].listed = scene[i].listed
         /\ scene'[i].content = scene[i].content /\ scene'[i].dependent = scene[i].dependent
         /\ scene'[i].searched = scene[i].searched
         /\ scene'[i].tagTime \in {scene[i].tagTime, tagged}
    BY <1>1, <1>3, <1>4 DEF SceneRecord
<1>6. Past'
    BY <1>1, <1>2, <1>5 DEF Past, writerVars
<1>7. Marked' /\ Shown' /\ MissedIsReported'
    BY <1>2, <1>5 DEF Marked, Shown, Complete, MissedIsReported, writerVars
<1> QED
    BY <1>6, <1>7

LEMMA NInvNext == NInv /\ [Next]_vars => NInv'
<1> SUFFICES ASSUME NInv, [Next]_vars PROVE NInv'
    OBVIOUS
<1>1. SInv'
    BY SInvNext DEF NInv
<1>2. CASE Writer \/ Pass
    BY <1>1, <1>2, NInvWriter DEF NInv
<1>3. ASSUME NEW i \in Ids, Add(i) \/ List(i) \/ DependOnTags(i) \/ Layout(i) \/ LoadEnds(i) PROVE NInv'
    BY <1>1, <1>3, NInvScene DEF NInv
<1>4. ASSUME NEW v \in Viewers, View(v) PROVE NInv'
    BY <1>1, <1>4, NInvView DEF NInv
<1>5. CASE UNCHANGED vars
    <2>1. Marked' /\ Past' /\ Shown' /\ MissedIsReported'
        BY <1>5 DEF vars, writerVars, sceneVars, NInv, Marked, Past, Shown, Complete, MissedIsReported
    <2> QED
        BY <1>1, <2>1 DEF NInv
<1> QED
    BY <1>2, <1>3, <1>4, <1>5 DEF Next

LEMMA NInvariance == Spec => []NInv
<1> QED
    BY NInvInit, NInvNext, PTL DEF Spec

\* A loaded scene that does not show the committed files is stale at the next
\* lookup, or the writer has still to report the directory, for any order of
\* writes, commits, tag operations, listings and lookups.
THEOREM ChangesNoticed == Spec => []ChangesAreNoticed
<1>1. NInv => ChangesAreNoticed
    <2> SUFFICES ASSUME NInv, NEW i \in Ids, scene[i].dependent, scene[i].content # saved
                 PROVE  Stale(scene[i]) \/ dirty \/ unindexed
        BY DEF ChangesAreNoticed
    <2>1. scene[i].listed \notin {Partial, saved}
        BY DEF NInv, Shown, Complete
    <2>2. invalidated > scene[i].created \/ dirty \/ unindexed
        BY <2>1 DEF NInv, MissedIsReported
    <2> QED
        BY <2>2 DEF Stale
<1> QED
    BY <1>1, NInvariance, PTL

\* A change of a tag searched for makes a scene that shows photos stale from the next
\* second on, though the scene had no dependency when the tag changed, and
\* although a dependency asks the database once a second and the database keeps
\* milliseconds.
THEOREM TagChangesNoticed == Spec => []TagChangesAreNoticed
<1>1. NInv => TagChangesAreNoticed
    <2> SUFFICES ASSUME NInv, NEW i \in Ids, scene[i].content # Partial,
                        tagged > Millisecond(scene[i].created), Second(now) > Second(tagged)
                 PROVE  scene[i].searched /\ TagTime(scene[i]) > scene[i].created
        BY DEF TagChangesAreNoticed, Stale
    <2> DEFINE c == scene[i].created
               r == scene[i].tagTime
    <2>1. c \in Nat /\ r \in Nat /\ tagged \in Nat /\ now \in Nat
        BY DEF NInv, SInv, Types, SceneRecord
    <2>2. r <= tagged /\ Millisecond(tagged) = tagged
        BY DEF NInv, Past
    <2> HIDE DEF c, r
    <2>3. Second(r) <= Second(tagged) /\ Second(r) \in Nat /\ Second(tagged) \in Nat /\ Second(now) \in Nat
        BY <2>1, <2>2, Rounding
    <2>4. Second(r) # Second(now)
        BY <2>3
    <2>5. TagTime(scene[i]) = tagged
        BY <2>4 DEF TagTime, r
    <2>6. tagged > c
        BY <2>1, <2>2, Rounding DEF c
    <2>7. scene[i].searched
        BY DEF NInv, Shown, Complete
    <2> QED
        BY <2>5, <2>6, <2>7 DEF c
<1> QED
    BY <1>1, NInvariance, PTL

----------------------------------------------------------------------------
(* The dates that a scene is searched by.                                  *)

Years == MinYear..MaxYear
IsTime(t) ==
    /\ t \in Years \X (1..12) \X (1..31) \X {0, 1}
    /\ t[3] <= DaysIn(t[1], t[2])
IsPattern(p) == p \in Seq(Nat) /\ Len(p) \in 1..3 /\ ValidDate(p)

\* Lexicographic order, spelled out.
LEMMA BeforeIs ==
    ASSUME NEW a1 \in Int, NEW a2 \in Int, NEW a3 \in Int, NEW a4 \in Int,
           NEW b1 \in Int, NEW b2 \in Int, NEW b3 \in Int, NEW b4 \in Int
    PROVE  Before(<<a1, a2, a3, a4>>, <<b1, b2, b3, b4>>) <=>
              \/ a1 < b1
              \/ a1 = b1 /\ (a2 < b2 \/ (a2 = b2 /\ (a3 < b3 \/ (a3 = b3 /\ a4 < b4))))
<1>. DEFINE a == <<a1, a2, a3, a4>>
            b == <<b1, b2, b3, b4>>
<1>1. /\ a[1] = a1 /\ a[2] = a2 /\ a[3] = a3 /\ a[4] = a4
      /\ b[1] = b1 /\ b[2] = b2 /\ b[3] = b3 /\ b[4] = b4
  OBVIOUS
<1>. HIDE DEF a, b
<1>2. 1..4 = {1, 2, 3, 4} /\ 1..(1 - 1) = {} /\ 1..(2 - 1) = {1}
      /\ 1..(3 - 1) = {1, 2} /\ 1..(4 - 1) = {1, 2, 3}
  OBVIOUS
<1>3. Before(a, b) <=> \/ a1 < b1
                       \/ a2 < b2 /\ a1 = b1
                       \/ a3 < b3 /\ a1 = b1 /\ a2 = b2
                       \/ a4 < b4 /\ a1 = b1 /\ a2 = b2 /\ a3 = b3
  BY <1>1, <1>2 DEF Before
<1>. QED  BY <1>3 DEF a, b

LEMMA DaysInIs ==
    ASSUME NEW y \in Int, NEW m \in 1..12
    PROVE  DaysIn(y, m) \in 28..31 /\ (m = 12 => DaysIn(y, m) = 31)
           /\ (m # 2 => DaysIn(y, m) = DaysIn(2023, m))
BY DEF DaysIn

\* A day of the month, and the day after.
LEMMA DateIs ==
    ASSUME NEW y \in Int, NEW m \in 1..12, NEW d \in 1..DaysIn(y, m)
    PROVE  /\ Date(y, m, d) = <<y, m, d, 0>>
           /\ Date(y, m, d + 1) =
                 IF d < DaysIn(y, m) THEN <<y, m, d + 1, 0>>
                 ELSE IF m = 12 THEN <<y + 1, 1, 1, 0>> ELSE <<y, m + 1, 1, 0>>
           /\ Date(y + 1, 1, 1) = <<y + 1, 1, 1, 0>>
           /\ Date(y, m + 1, 1) = IF m = 12 THEN <<y + 1, 1, 1, 0>> ELSE <<y, m + 1, 1, 0>>
<1>1. DaysIn(y, m) \in 28..31 /\ (m = 12 => DaysIn(y, m) = 31)
  BY DaysInIs
<1>2. DaysIn(y + 1, 1) \in 28..31 /\ (m # 12 => DaysIn(y, m + 1) \in 28..31)
  BY DaysInIs
<1>3. Date(y, m, d) = <<y, m, d, 0>>
  BY <1>1 DEF Date
<1>4. Date(y, m, d + 1) =
          IF d < DaysIn(y, m) THEN <<y, m, d + 1, 0>>
          ELSE IF m = 12 THEN <<y + 1, 1, 1, 0>> ELSE <<y, m + 1, 1, 0>>
  BY <1>1 DEF Date
<1>5. Date(y + 1, 1, 1) = <<y + 1, 1, 1, 0>>
  BY <1>2 DEF Date
<1>6. Date(y, m + 1, 1) = IF m = 12 THEN <<y + 1, 1, 1, 0>> ELSE <<y, m + 1, 1, 0>>
  BY <1>2 DEF Date
<1>. QED  BY <1>3, <1>4, <1>5, <1>6

\* What a time and a pattern without wildcards are made of.
LEMMA TimeHas ==
    ASSUME NEW t, IsTime(t)
    PROVE  /\ t[1] \in Int /\ t[1] \in Years /\ t[2] \in 1..12 /\ t[3] \in 1..31 /\ t[4] \in {0, 1}
           /\ t[3] <= DaysIn(t[1], t[2])
<1>1. t[1] \in Years /\ t[2] \in 1..12 /\ t[3] \in 1..31 /\ t[4] \in {0, 1}
  BY DEF IsTime
<1>2. Years \subseteq Int
  BY DEF Years, MinYear, MaxYear
<1>. QED  BY <1>1, <1>2 DEF IsTime

LEMMA PatternHas ==
    ASSUME NEW p, IsPattern(p), Wildcards(p) = {}
    PROVE  /\ Len(p) \in 1..3 /\ DOMAIN p = 1..Len(p)
           /\ p[1] \in Int /\ p[1] \in Years
           /\ Len(p) >= 2 => p[2] \in 1..12
           /\ Len(p) = 3 => p[3] \in 1..31
<1>1. p \in Seq(Nat) /\ Len(p) \in 1..3 /\ DOMAIN p = 1..Len(p)
  BY DEF IsPattern
<1>2. \A i \in 1..Len(p) : p[i] \in Bounds[i]
  BY <1>1 DEF IsPattern, ValidDate, Wildcards
<1>3. Bounds[1] = Years /\ Bounds[2] = 1..12 /\ Bounds[3] = 1..31
  BY DEF Bounds, Years
<1>4. Years \subseteq Int
  BY DEF Years, MinYear, MaxYear
<1>5. 1 \in 1..Len(p) /\ (Len(p) >= 2 => 2 \in 1..Len(p)) /\ (Len(p) = 3 => 3 \in 1..Len(p))
  BY <1>1
<1>. QED  BY <1>1, <1>2, <1>3, <1>4, <1>5

\* How a time compares with a midnight.
LEMMA BeforeMidnight ==
    ASSUME NEW t, IsTime(t), NEW y \in Int, NEW m \in Int, NEW d \in Int
    PROVE  /\ Before(t, <<y, m, d, 0>>) <=>
                 \/ t[1] < y
                 \/ t[1] = y /\ (t[2] < m \/ (t[2] = m /\ t[3] < d))
           /\ Before(<<y, m, d, 0>>, t) <=>
                 \/ y < t[1]
                 \/ y = t[1] /\ (m < t[2] \/ (m = t[2] /\ (d < t[3] \/ (d = t[3] /\ t[4] = 1))))
<1>. DEFINE b == <<y, m, d, 0>>
<1>1. b[1] = y /\ b[2] = m /\ b[3] = d /\ b[4] = 0
  OBVIOUS
<1>2. 1..4 = {1, 2, 3, 4} /\ 1..(1 - 1) = {} /\ 1..(2 - 1) = {1}
      /\ 1..(3 - 1) = {1, 2} /\ 1..(4 - 1) = {1, 2, 3}
  OBVIOUS
<1>3. t[1] \in Int /\ t[2] \in Int /\ t[3] \in Int /\ t[4] \in {0, 1}
  BY TimeHas
<1>. HIDE DEF b
<1>4. Before(t, b) <=> \/ t[1] < y
                       \/ t[2] < m /\ t[1] = y
                       \/ t[3] < d /\ t[1] = y /\ t[2] = m
                       \/ t[4] < 0 /\ t[1] = y /\ t[2] = m /\ t[3] = d
  BY <1>1, <1>2 DEF Before
<1>5. Before(b, t) <=> \/ y < t[1]
                       \/ m < t[2] /\ t[1] = y
                       \/ d < t[3] /\ t[1] = y /\ t[2] = m
                       \/ 0 < t[4] /\ t[1] = y /\ t[2] = m /\ t[3] = d
  BY <1>1, <1>2 DEF Before
<1>6. ~(t[4] < 0) /\ (0 < t[4] <=> t[4] = 1)
  BY <1>3
<1>7. /\ Before(t, b) <=>
            \/ t[1] < y
            \/ t[1] = y /\ (t[2] < m \/ (t[2] = m /\ t[3] < d))
      /\ Before(b, t) <=>
            \/ y < t[1]
            \/ y = t[1] /\ (m < t[2] \/ (m = t[2] /\ (d < t[3] \/ (d = t[3] /\ t[4] = 1))))
  BY <1>4, <1>5, <1>6
<1>. QED  BY <1>7 DEF b

\* The bounds of the period that a pattern names, against what is said of the period.
Begins(p, t) == ~Before(t, ParseDate(p, TRUE)) <=> NotBefore(p, t)
Finishes(p, t) == Before(t, ParseDate(p, FALSE)) <=> (~NotBefore(p, t) \/ InPeriod(p, t))

LEMMA YearEnds ==
    ASSUME NEW p, IsPattern(p), Wildcards(p) = {}, Len(p) = 1, NEW t, IsTime(t)
    PROVE  /\ Begins(p, t) /\ Finishes(p, t)
           /\ ParseDate(p, TRUE) # NoTime /\ ParseDate(p, FALSE) # NoTime
<1>. DEFINE y == p[1]
            from == <<y, 1, 1, 0>>
            next == <<y + 1, 1, 1, 0>>
<1>1. y \in Int /\ y \in Years /\ DOMAIN p = {1}
  BY PatternHas
<1>. HIDE DEF y
<1>2. y # Star /\ y + 1 \in Int /\ 1 \in 1..12
  BY <1>1 DEF Years, MinYear, MaxYear, Star
<1>3. DaysIn(y, 1) \in 28..31
  BY <1>1, <1>2, DaysInIs
<1>4. 1 \in 1..DaysIn(y, 1) /\ ~(1 > DaysIn(y, 1))
  BY <1>3
<1>5. Date(y, 1, 1) = from /\ Date(y + 1, 1, 1) = next
  BY <1>1, <1>2, <1>4, DateIs
<1>. HIDE DEF from, next
<1>6. /\ Component(p, 1, TRUE) = y /\ Component(p, 2, TRUE) = 1 /\ Component(p, 3, TRUE) = 1
      /\ Component(p, 1, FALSE) = y /\ Component(p, 2, FALSE) = 1 /\ Component(p, 3, FALSE) = 1
  BY <1>2 DEF Component, y
<1>7. ParseDate(p, TRUE) = from
  BY <1>4, <1>5, <1>6 DEF ParseDate
<1>8. ParseDate(p, FALSE) = next
  <2>1. Len(p) # 2 /\ Len(p) # 3
    OBVIOUS
  <2>. QED  BY <1>4, <1>5, <1>6, <2>1, Zenon DEF ParseDate
<1>9. Normal(p) = p
  BY DEF Normal
<1>10. InPeriod(p, t) <=> t[1] = y
  BY <1>1, <1>2, <1>9 DEF InPeriod, y
<1>11. NotBefore(p, t) <=> (t[1] = y \/ Before(from, t))
  BY <1>5, <1>6, <1>9, <1>10 DEF NotBefore
<1>12. t[1] \in Int /\ t[2] \in 1..12 /\ t[3] \in 1..31
  BY TimeHas
<1>13. NotBefore(p, t) <=> y <= t[1]
  <2>1. Before(from, t) <=>
                 \/ y < t[1]
                 \/ y = t[1] /\ (1 < t[2] \/ (1 = t[2] /\ (1 < t[3] \/ (1 = t[3] /\ t[4] = 1))))
    BY <1>1, BeforeMidnight DEF from, next
  <2>. QED  BY <1>1, <1>11, <1>12, <2>1
<1>14. Before(t, from) <=> t[1] < y
  <2>1. Before(t, from) <=>
                 \/ t[1] < y
                 \/ t[1] = y /\ (t[2] < 1 \/ (t[2] = 1 /\ t[3] < 1))
    BY <1>1, BeforeMidnight DEF from, next
  <2>. QED  BY <1>12, <2>1
<1>15. Before(t, next) <=> t[1] < y + 1
  <2>1. Before(t, next) <=>
                 \/ t[1] < y + 1
                 \/ t[1] = y + 1 /\ (t[2] < 1 \/ (t[2] = 1 /\ t[3] < 1))
    BY <1>2, BeforeMidnight DEF from, next
  <2>. QED  BY <1>12, <2>1
<1>16. Begins(p, t)
  <2>1. ~Before(t, from) <=> NotBefore(p, t)
    BY <1>1, <1>12, <1>13, <1>14
  <2>. QED  BY <1>7, <2>1 DEF Begins
<1>17. Finishes(p, t)
  <2>1. Before(t, next) <=> (~NotBefore(p, t) \/ InPeriod(p, t))
    BY <1>1, <1>10, <1>12, <1>13, <1>15
  <2>. QED  BY <1>8, <2>1 DEF Finishes
<1>18. from # NoTime /\ next # NoTime
  BY DEF from, next, NoTime
<1>. QED  BY <1>7, <1>8, <1>16, <1>17, <1>18

LEMMA MonthEnds ==
    ASSUME NEW p, IsPattern(p), Wildcards(p) = {}, Len(p) = 2, NEW t, IsTime(t)
    PROVE  /\ Begins(p, t) /\ Finishes(p, t)
           /\ ParseDate(p, TRUE) # NoTime /\ ParseDate(p, FALSE) # NoTime
<1>. DEFINE y == p[1]
            m == p[2]
            from == <<y, m, 1, 0>>
            next == IF m = 12 THEN <<y + 1, 1, 1, 0>> ELSE <<y, m + 1, 1, 0>>
<1>1. y \in Int /\ y \in Years /\ m \in 1..12 /\ DOMAIN p = {1, 2}
  BY PatternHas
<1>. HIDE DEF y, m
<1>2. y # Star /\ m # Star /\ y + 1 \in Int /\ m \in Int /\ m + 1 \in Int
  <2>1. y >= 10
    BY <1>1 DEF Years, MinYear, MaxYear
  <2>. QED  BY <1>1, <2>1 DEF Star
<1>3. DaysIn(y, m) \in 28..31
  BY <1>1, DaysInIs
<1>4. 1 \in 1..DaysIn(y, m) /\ ~(1 > DaysIn(y, m))
  BY <1>3
<1>5. Date(y, m, 1) = from /\ Date(y, m + 1, 1) = next
  BY <1>1, <1>4, DateIs
<1>. HIDE DEF from, next
<1>6. /\ Component(p, 1, TRUE) = y /\ Component(p, 2, TRUE) = m /\ Component(p, 3, TRUE) = 1
      /\ Component(p, 1, FALSE) = y /\ Component(p, 2, FALSE) = m /\ Component(p, 3, FALSE) = 1
  BY <1>2 DEF Component, y, m
<1>7. ParseDate(p, TRUE) = from
  BY <1>4, <1>5, <1>6 DEF ParseDate
<1>8. ParseDate(p, FALSE) = next
  <2>1. Len(p) # 1 /\ Len(p) # 3
    OBVIOUS
  <2>. QED  BY <1>4, <1>5, <1>6, <2>1, Zenon DEF ParseDate
<1>9. Normal(p) = p
  BY DEF Normal
<1>10. InPeriod(p, t) <=> (t[1] = y /\ t[2] = m)
  BY <1>1, <1>2, <1>9 DEF InPeriod, y, m
<1>11. NotBefore(p, t) <=> ((t[1] = y /\ t[2] = m) \/ Before(from, t))
  BY <1>5, <1>6, <1>9, <1>10 DEF NotBefore
<1>12. t[1] \in Int /\ t[2] \in 1..12 /\ t[3] \in 1..31
  BY TimeHas
<1>13. NotBefore(p, t) <=> (y < t[1] \/ (y = t[1] /\ m <= t[2]))
  <2>1. Before(from, t) <=>
                 \/ y < t[1]
                 \/ y = t[1] /\ (m < t[2] \/ (m = t[2] /\ (1 < t[3] \/ (1 = t[3] /\ t[4] = 1))))
    BY <1>1, <1>2, BeforeMidnight DEF from, next
  <2>. QED  BY <1>1, <1>11, <1>12, <2>1
<1>14. Before(t, from) <=> (t[1] < y \/ (t[1] = y /\ t[2] < m))
  <2>1. Before(t, from) <=>
                 \/ t[1] < y
                 \/ t[1] = y /\ (t[2] < m \/ (t[2] = m /\ t[3] < 1))
    BY <1>1, <1>2, BeforeMidnight DEF from, next
  <2>. QED  BY <1>12, <2>1
<1>15. Before(t, next) <=> (t[1] < y \/ (t[1] = y /\ t[2] <= m))
  <2>. USE DEF next
  <2>1. CASE m = 12
    <3>1. Before(t, <<y + 1, 1, 1, 0>>) <=>
                 \/ t[1] < y + 1
                 \/ t[1] = y + 1 /\ (t[2] < 1 \/ (t[2] = 1 /\ t[3] < 1))
      BY <1>2, BeforeMidnight DEF from, next
    <3>. QED  BY <1>1, <1>12, <2>1, <3>1
  <2>2. CASE m # 12
    <3>1. Before(t, <<y, m + 1, 1, 0>>) <=>
                 \/ t[1] < y
                 \/ t[1] = y /\ (t[2] < m + 1 \/ (t[2] = m + 1 /\ t[3] < 1))
      BY <1>1, <1>2, BeforeMidnight DEF from, next
    <3>. QED  BY <1>1, <1>12, <2>2, <3>1
  <2>. QED  BY <2>1, <2>2
<1>16. Begins(p, t)
  <2>1. ~Before(t, from) <=> NotBefore(p, t)
    BY <1>1, <1>12, <1>13, <1>14
  <2>. QED  BY <1>7, <2>1 DEF Begins
<1>17. Finishes(p, t)
  <2>1. Before(t, next) <=> (~NotBefore(p, t) \/ InPeriod(p, t))
    BY <1>1, <1>10, <1>12, <1>13, <1>15
  <2>. QED  BY <1>8, <2>1 DEF Finishes
<1>18. from # NoTime /\ next # NoTime
  BY DEF from, next, NoTime
<1>. QED  BY <1>7, <1>8, <1>16, <1>17, <1>18

\* The day before the first of a month.
LEMMA ZeroDayIs ==
    ASSUME NEW y \in Int, NEW m \in 1..11
    PROVE  /\ Date(y + 1, 1, 0) = <<y, 12, 31, 0>>
           /\ Date(y, m + 1, 0) = <<y, m, DaysIn(y, m), 0>>
<1>. DEFINE n == m + 1
            z == y + 1
<1>1. n \in 2..12 /\ n - 1 = m /\ z \in Int /\ z - 1 = y
  OBVIOUS
<1>. HIDE DEF n, z
<1>2. DaysIn(y, n) \in 28..31 /\ DaysIn(z, 1) \in 28..31
  BY <1>1, DaysInIs
<1>3. ~(n > 12) /\ ~(0 > DaysIn(y, n)) /\ n # 1 /\ ~(0 > DaysIn(z, 1))
  BY <1>1, <1>2
<1>4. Date(z, 1, 0) = <<z - 1, 12, 31, 0>>
  BY <1>1, <1>3 DEF Date
<1>5. Date(y, n, 0) = <<y, n - 1, DaysIn(y, n - 1), 0>>
  BY <1>1, <1>3 DEF Date
<1>6. Date(z, 1, 0) = <<y, 12, 31, 0>> /\ Date(y, n, 0) = <<y, m, DaysIn(y, m), 0>>
  BY <1>1, <1>4, <1>5
<1>. QED  BY <1>6 DEF n, z

LEMMA DayEnds ==
    ASSUME NEW p, IsPattern(p), Wildcards(p) = {}, Len(p) = 3, NEW t, IsTime(t)
    PROVE  /\ Begins(p, t) /\ Finishes(p, t)
           /\ ParseDate(p, TRUE) # NoTime /\ ParseDate(p, FALSE) # NoTime
           /\ AddDay(ParseDate(p, TRUE), 1) = ParseDate(p, FALSE)
           /\ AddDay(ParseDate(p, FALSE), -1) = ParseDate(p, TRUE)
<1>. DEFINE y == p[1]
            m == p[2]
            d == p[3]
            days == DaysIn(y, m)
            day == IF d > days THEN days ELSE d
            from == <<y, m, day, 0>>
            next == IF day < days THEN <<y, m, day + 1, 0>>
                    ELSE IF m = 12 THEN <<y + 1, 1, 1, 0>> ELSE <<y, m + 1, 1, 0>>
<1>1. y \in Int /\ y \in Years /\ m \in 1..12 /\ d \in 1..31 /\ DOMAIN p = {1, 2, 3}
  <2>1. 1..3 = {1, 2, 3} /\ 3 >= 2
    OBVIOUS
  <2>. QED  BY PatternHas, <2>1
<1>. HIDE DEF y, m, d
<1>2. y # Star /\ m # Star /\ d # Star /\ y + 1 \in Int /\ m \in Int /\ m + 1 \in Int
  <2>1. y >= 10
    BY <1>1 DEF Years, MinYear, MaxYear
  <2>. QED  BY <1>1, <2>1 DEF Star
<1>3. days \in 28..31 /\ (m = 12 => days = 31)
  BY <1>1, DaysInIs
<1>. HIDE DEF days
<1>4. day \in 1..days /\ day \in Int /\ day + 1 \in Int /\ day # Star
  BY <1>1, <1>3 DEF Star
<1>5. day = IF d > days THEN days ELSE d
  OBVIOUS
<1>. HIDE DEF day
<1>6. Date(y, m, day) = from /\ Date(y, m, day + 1) = next
  BY <1>1, <1>4, DateIs DEF days
<1>. HIDE DEF from, next
<1>7. /\ Component(p, 1, TRUE) = y /\ Component(p, 2, TRUE) = m /\ Component(p, 3, TRUE) = d
      /\ Component(p, 1, FALSE) = y /\ Component(p, 2, FALSE) = m /\ Component(p, 3, FALSE) = d
  BY <1>2 DEF Component, y, m, d
<1>8. ParseDate(p, TRUE) = from
  BY <1>5, <1>6, <1>7 DEF ParseDate, days
<1>9. ParseDate(p, FALSE) = next
  <2>1. Len(p) # 1 /\ Len(p) # 2
    OBVIOUS
  <2>. QED  BY <1>5, <1>6, <1>7, <2>1, Zenon DEF ParseDate, days
<1>10. Normal(p) = <<y, m, day>>
  BY <1>5 DEF Normal, y, m, d, days
<1>11. Normal(p)[1] = y /\ Normal(p)[2] = m /\ Normal(p)[3] = day /\ Len(Normal(p)) = 3
  BY <1>10
<1>12. InPeriod(p, t) <=> (t[1] = y /\ t[2] = m /\ t[3] = day)
  BY <1>1, <1>2, <1>11 DEF InPeriod, y, m, d
<1>13. NotBefore(p, t) <=> ((t[1] = y /\ t[2] = m /\ t[3] = day) \/ Before(from, t))
  <2>1. Component(Normal(p), 3, TRUE) = day
    BY <1>4, <1>11 DEF Component
  <2>. QED  BY <1>6, <1>7, <1>12, <2>1 DEF NotBefore
<1>14. t[1] \in Int /\ t[2] \in 1..12 /\ t[3] \in 1..31 /\ t[3] <= DaysIn(t[1], t[2])
  BY TimeHas
<1>15. NotBefore(p, t) <=>
          (y < t[1] \/ (y = t[1] /\ (m < t[2] \/ (m = t[2] /\ day <= t[3]))))
  <2>1. Before(from, t) <=>
          \/ y < t[1]
          \/ y = t[1] /\ (m < t[2] \/ (m = t[2] /\ (day < t[3] \/ (day = t[3] /\ t[4] = 1))))
    BY <1>1, <1>2, <1>4, BeforeMidnight DEF from
  <2>. QED  BY <1>1, <1>4, <1>13, <1>14, <2>1
<1>16. Before(t, from) <=>
          (t[1] < y \/ (t[1] = y /\ (t[2] < m \/ (t[2] = m /\ t[3] < day))))
  BY <1>1, <1>2, <1>4, BeforeMidnight DEF from
<1>17. Before(t, next) <=>
          (t[1] < y \/ (t[1] = y /\ (t[2] < m \/ (t[2] = m /\ t[3] <= day))))
  <2>1. CASE day < days
    <3>1. next = <<y, m, day + 1, 0>>
      BY <2>1 DEF next
    <3>2. Before(t, <<y, m, day + 1, 0>>) <=>
             (t[1] < y \/ (t[1] = y /\ (t[2] < m \/ (t[2] = m /\ t[3] < day + 1))))
      BY <1>1, <1>2, <1>4, BeforeMidnight
    <3>3. t[3] < day + 1 <=> t[3] <= day
      BY <1>4, <1>14
    <3>. QED  BY <3>1, <3>2, <3>3, Zenon
  <2>2. CASE ~(day < days)
    <3>1. day = days
      BY <1>3, <1>4, <2>2
    <3>2. t[2] = m /\ t[1] = y => t[3] <= day
      BY <1>14, <3>1 DEF days
    <3>3. CASE m = 12
      <4>1. next = <<y + 1, 1, 1, 0>>
        BY <2>2, <3>3 DEF next
      <4>2. Before(t, <<y + 1, 1, 1, 0>>) <=>
                 (t[1] < y + 1 \/ (t[1] = y + 1 /\ (t[2] < 1 \/ (t[2] = 1 /\ t[3] < 1))))
        BY <1>2, BeforeMidnight
      <4>3. Before(t, <<y + 1, 1, 1, 0>>) <=>
               (t[1] < y \/ (t[1] = y /\ (t[2] < m \/ (t[2] = m /\ t[3] <= day))))
        BY <1>1, <1>14, <3>2, <3>3, <4>2
      <4>. QED  BY <4>1, <4>3, Zenon
    <3>4. CASE m # 12
      <4>1. next = <<y, m + 1, 1, 0>>
        BY <2>2, <3>4 DEF next
      <4>2. Before(t, <<y, m + 1, 1, 0>>) <=>
                 (t[1] < y \/ (t[1] = y /\ (t[2] < m + 1 \/ (t[2] = m + 1 /\ t[3] < 1))))
        BY <1>1, <1>2, BeforeMidnight
      <4>3. Before(t, <<y, m + 1, 1, 0>>) <=>
               (t[1] < y \/ (t[1] = y /\ (t[2] < m \/ (t[2] = m /\ t[3] <= day))))
        BY <1>1, <1>14, <3>2, <4>2
      <4>. QED  BY <4>1, <4>3, Zenon
    <3>. QED  BY <3>3, <3>4
  <2>. QED  BY <2>1, <2>2
<1>18. Begins(p, t)
  <2>1. ~Before(t, from) <=> NotBefore(p, t)
    BY <1>1, <1>4, <1>14, <1>15, <1>16
  <2>. QED  BY <1>8, <2>1 DEF Begins
<1>19. Finishes(p, t)
  <2>1. Before(t, next) <=> (~NotBefore(p, t) \/ InPeriod(p, t))
    BY <1>1, <1>4, <1>12, <1>14, <1>15, <1>17
  <2>. QED  BY <1>9, <2>1 DEF Finishes
<1>20. AddDay(from, 1) = next
  <2>1. from[1] = y /\ from[2] = m /\ from[3] = day
    BY DEF from
  <2>. QED  BY <1>6, <2>1 DEF AddDay
<1>21. AddDay(next, -1) = from
  <2>1. CASE day < days
    <3>1. next[1] = y /\ next[2] = m /\ next[3] + -1 = day
      BY <1>4, <2>1 DEF next
    <3>. QED  BY <1>6, <3>1 DEF AddDay
  <2>2. CASE ~(day < days)
    <3>1. day = days
      BY <1>3, <1>4, <2>2
    <3>2. CASE m = 12
      <4>1. next[1] = y + 1 /\ next[2] = 1 /\ next[3] + -1 = 0
        BY <2>2, <3>2 DEF next
      <4>2. Date(y + 1, 1, 0) = <<y, 12, 31, 0>>
        BY <1>1, ZeroDayIs
      <4>. QED  BY <1>3, <3>1, <3>2, <4>1, <4>2 DEF AddDay, from
    <3>3. CASE m # 12
      <4>1. next[1] = y /\ next[2] = m + 1 /\ next[3] + -1 = 0
        BY <2>2, <3>3 DEF next
      <4>2. m \in 1..11
        BY <1>1, <3>3
      <4>3. Date(y, m + 1, 0) = <<y, m, days, 0>>
        BY <1>1, <4>2, ZeroDayIs DEF days
      <4>. QED  BY <3>1, <4>1, <4>3 DEF AddDay, from
    <3>. QED  BY <3>2, <3>3
  <2>. QED  BY <2>1, <2>2
<1>22. from # NoTime /\ next # NoTime
  BY DEF from, next, NoTime
<1>. QED  BY <1>8, <1>9, <1>18, <1>19, <1>20, <1>21, <1>22

LEMMA PeriodEnds ==
    ASSUME NEW p, IsPattern(p), Wildcards(p) = {}, NEW t, IsTime(t)
    PROVE  /\ Begins(p, t) /\ Finishes(p, t)
           /\ ParseDate(p, TRUE) # NoTime /\ ParseDate(p, FALSE) # NoTime
           /\ Len(p) = 3 => /\ AddDay(ParseDate(p, TRUE), 1) = ParseDate(p, FALSE)
                            /\ AddDay(ParseDate(p, FALSE), -1) = ParseDate(p, TRUE)
<1>1. Len(p) = 1 \/ Len(p) = 2 \/ Len(p) = 3
  BY DEF IsPattern
<1>2. CASE Len(p) = 1
  <2>1. Len(p) # 3
    BY <1>2
  <2>. QED  BY <1>2, <2>1, YearEnds, Zenon
<1>3. CASE Len(p) = 2
  <2>1. Len(p) # 3
    BY <1>3
  <2>. QED  BY <1>3, <2>1, MonthEnds, Zenon
<1>4. CASE Len(p) = 3
  BY <1>4, DayEnds
<1>. QED  BY <1>1, <1>2, <1>3, <1>4

\* The range of a qualifier without wildcards.
RangeHas(r, op, from, to, last) ==
    /\ r.fromWild = {} /\ r.toWild = {}
    /\ op = ">=" => r.from = from /\ r.to = NoTime
    /\ op = "<=" => r.from = NoTime /\ r.to = to
    /\ op = ">" => r.from = AddDay(from, 1) /\ r.to = NoTime
    /\ op = "<" => r.from = NoTime /\ r.to = AddDay(to, -1)
    /\ op = "" => r.from = from /\ r.to = to
    /\ op = ".." => r.from = from /\ r.to = last

LEMMA RangeIs ==
    ASSUME NEW op \in {"", "..", ">=", "<=", ">", "<"}, NEW p, NEW q,
           Wildcards(p) = {}, Wildcards(q) = {}
    PROVE  RangeHas(DateRange(op, p, q), op, ParseDate(p, TRUE), ParseDate(p, FALSE),
                    ParseDate(q, FALSE))
BY DEF DateRange, RangeHas

LEMMA PlainDates ==
    ASSUME NEW op \in {"", "..", ">=", "<=", ">", "<"},
           NEW p, IsPattern(p), Wildcards(p) = {},
           NEW q, op = ".." => IsPattern(q), Wildcards(q) = {},
           op \in {"<", ">"} => Full(p),
           NEW t, IsTime(t)
    PROVE  Created(op, p, q, t) <=> Documented(op, p, q, t)
<1>. DEFINE r == DateRange(op, p, q)
            from == ParseDate(p, TRUE)
            to == ParseDate(p, FALSE)
<1>1. RangeHas(r, op, from, to, ParseDate(q, FALSE))
  BY RangeIs
<1>2. Created(op, p, q, t) <=> /\ r.from = NoTime \/ ~Before(t, r.from)
                               /\ r.to = NoTime \/ Before(t, r.to)
  BY <1>1 DEF Created, MatchesRange, InCreatedRange, RangeHas
<1>3. /\ from # NoTime /\ to # NoTime
      /\ ~Before(t, from) <=> NotBefore(p, t)
      /\ Before(t, to) <=> (~NotBefore(p, t) \/ InPeriod(p, t))
  BY PeriodEnds DEF Begins, Finishes
<1>4. op \in {"<", ">"} => AddDay(from, 1) = to /\ AddDay(to, -1) = from
  BY PeriodEnds DEF Full
<1>5. op = ".." => /\ ParseDate(q, FALSE) # NoTime
                   /\ Before(t, ParseDate(q, FALSE)) <=> (~NotBefore(q, t) \/ InPeriod(q, t))
  BY PeriodEnds DEF Finishes
<1>6. InPeriod(p, t) => NotBefore(p, t)
  BY DEF NotBefore
<1>. HIDE DEF r, from, to
<1>7. CASE op = ""
  <2>1. Documented(op, p, q, t) <=> InPeriod(p, t)
    BY <1>7 DEF Documented
  <2>. QED  BY <1>1, <1>2, <1>3, <1>6, <1>7, <2>1 DEF RangeHas
<1>8. CASE op = ".."
  <2>1. Documented(op, p, q, t) <=> NotBefore(p, t) /\ (~NotBefore(q, t) \/ InPeriod(q, t))
    BY <1>8 DEF Documented
  <2>. QED  BY <1>1, <1>2, <1>3, <1>5, <1>8, <2>1 DEF RangeHas
<1>9. CASE op = ">="
  <2>1. Documented(op, p, q, t) <=> NotBefore(p, t)
    BY <1>9 DEF Documented
  <2>. QED  BY <1>1, <1>2, <1>3, <1>9, <2>1 DEF RangeHas
<1>10. CASE op = "<="
  <2>1. Documented(op, p, q, t) <=> (~NotBefore(p, t) \/ InPeriod(p, t))
    BY <1>10 DEF Documented
  <2>. QED  BY <1>1, <1>2, <1>3, <1>10, <2>1 DEF RangeHas
<1>11. CASE op = ">"
  <2>1. Documented(op, p, q, t) <=> (NotBefore(p, t) /\ ~InPeriod(p, t))
    BY <1>11 DEF Documented
  <2>. QED  BY <1>1, <1>2, <1>3, <1>4, <1>11, <2>1 DEF RangeHas
<1>12. CASE op = "<"
  <2>1. Documented(op, p, q, t) <=> ~NotBefore(p, t)
    BY <1>12 DEF Documented
  <2>. QED  BY <1>1, <1>2, <1>3, <1>4, <1>12, <2>1 DEF RangeHas
<1>. QED  BY <1>7, <1>8, <1>9, <1>10, <1>11, <1>12

\* The day nm, nd follows m, d of the same year z, and how time.Date gives them.
Follows(z, m, d, nm, nd) ==
    /\ z \in Int /\ m \in 1..12 /\ d \in 1..DaysIn(z, m)
    /\ d < DaysIn(z, m) => nm = m /\ nd = d + 1
    /\ ~(d < DaysIn(z, m)) => m # 12 /\ nm = m + 1 /\ nd = 1
DatesOf(z, m, d, nm, nd) ==
    /\ Date(z, m, d) = <<z, m, d, 0>>
    /\ Date(z, m, d + 1) = <<z, nm, nd, 0>>
    /\ Date(z, nm, nd) = <<z, nm, nd, 0>>

LEMMA NextDay ==
    ASSUME NEW z, NEW m, NEW d, NEW nm, NEW nd, Follows(z, m, d, nm, nd)
    PROVE  DatesOf(z, m, d, nm, nd)
<1>0. /\ z \in Int /\ m \in 1..12 /\ d \in 1..DaysIn(z, m)
      /\ d < DaysIn(z, m) => nm = m /\ nd = d + 1
      /\ ~(d < DaysIn(z, m)) => m # 12 /\ nm = m + 1 /\ nd = 1
  BY DEF Follows
<1>1. DaysIn(z, m) \in 28..31
  BY <1>0, DaysInIs
<1>2. nm \in 1..12 /\ nd \in Int
  BY <1>0, <1>1
<1>3. DaysIn(z, nm) \in 28..31
  BY <1>0, <1>2, DaysInIs
<1>4. nd \in 1..DaysIn(z, nm)
  BY <1>0, <1>1, <1>3
<1>5. Date(z, m, d) = <<z, m, d, 0>>
  BY <1>0, DateIs
<1>6. Date(z, m, d + 1) =
          IF d < DaysIn(z, m) THEN <<z, m, d + 1, 0>>
          ELSE IF m = 12 THEN <<z + 1, 1, 1, 0>> ELSE <<z, m + 1, 1, 0>>
  BY <1>0, DateIs
<1>7. Date(z, nm, nd) = <<z, nm, nd, 0>>
  BY <1>0, <1>2, <1>4, DateIs
<1>8. Date(z, m, d + 1) = <<z, nm, nd, 0>>
  <2>1. CASE d < DaysIn(z, m)
    BY <1>0, <1>6, <2>1
  <2>2. CASE ~(d < DaysIn(z, m))
    BY <1>0, <1>6, <2>2
  <2>. QED  BY <2>1, <2>2
<1>. QED  BY <1>5, <1>7, <1>8 DEF DatesOf

\* The operator of a qualifier that has none, as in created:2023.
On == ""

LEMMA RangeOfOne ==
    ASSUME NEW p, NEW r, r = DateRange(On, p, p)
    PROVE  /\ r.from = ParseDate(p, TRUE) /\ r.to = ParseDate(p, FALSE)
           /\ r.fromWild = Wildcards(p) /\ r.toWild = Wildcards(p)
BY DEF DateRange, On

\* A day of any year.
OfAnyYear(p) ==
    /\ IsPattern(p) /\ Len(p) = 3 /\ Wildcards(p) = {1}
    /\ p[2] # 2 /\ p[3] <= DaysIn(2023, p[2]) /\ ~(p[2] = 12 /\ p[3] = 31)

LEMMA AnyYear ==
    ASSUME NEW p, OfAnyYear(p), NEW t, IsTime(t), t[4] # 0
    PROVE  Created(On, p, p, t) <=> InPeriod(p, t)
<1>. DEFINE m == p[2]
            d == p[3]
            days == DaysIn(2023, m)
            nm == IF d < days THEN m ELSE m + 1
            nd == IF d < days THEN d + 1 ELSE 1
            from == <<MinYear, m, d, 0>>
            to == <<MaxYear, nm, nd, 0>>
            y == t[1]
            wild == {1}
            r == DateRange(On, p, p)
<1>1. DOMAIN p = {1, 2, 3} /\ p \in Seq(Nat) /\ Len(p) = 3 /\ Wildcards(p) = wild
  BY DEF IsPattern, OfAnyYear
<1>2. m # 2 /\ p[1] = Star /\ m # Star /\ d # Star /\ m \in 1..12 /\ d \in 1..31
  <2>1. p[1] = Star /\ p[2] # Star /\ p[3] # Star
    BY <1>1, wild = {1} DEF Wildcards
  <2>2. Bounds[2] = 1..12 /\ Bounds[3] = 1..31
    BY DEF Bounds
  <2>3. p[2] \in Bounds[2] /\ p[3] \in Bounds[3]
    BY <1>1, <2>1 DEF IsPattern, ValidDate, OfAnyYear
  <2>. QED  BY <2>1, <2>2, <2>3 DEF OfAnyYear
<1>3. ~(m = 12 /\ d = 31)
  BY DEF m, d, OfAnyYear
<1>4. y \in Int /\ y \in Years /\ t[2] \in 1..12 /\ t[3] \in 1..31 /\ t[4] = 1
      /\ t[3] <= DaysIn(y, t[2])
  BY TimeHas
<1>. HIDE DEF m, d, y
<1>5. MinYear <= y /\ y <= MaxYear /\ MinYear \in Int /\ MaxYear \in Int
  BY <1>4 DEF Years, MinYear, MaxYear
<1>6. days \in 28..31 /\ (m = 12 => days = 31) /\ d <= days
      /\ \A z \in Int : DaysIn(z, m) = days
  <2>1. \A z \in Int : DaysIn(z, m) = days
    BY <1>2, DaysInIs
  <2>. QED  BY <1>2, <2>1, DaysInIs DEF m, d, OfAnyYear
<1>. HIDE DEF days
<1>7. /\ nm \in 1..12 /\ nd \in 1..31 /\ nm \in Int /\ nd \in Int
      /\ d < days => nm = m /\ nd = d + 1
      /\ ~(d < days) => d = days /\ m # 12 /\ nm = m + 1 /\ nd = 1
  BY <1>2, <1>3, <1>6
<1>8. \A z \in Int : /\ Date(z, m, d) = <<z, m, d, 0>>
                     /\ Date(z, m, d + 1) = <<z, nm, nd, 0>>
                     /\ Date(z, nm, nd) = <<z, nm, nd, 0>>
  <2>. SUFFICES ASSUME NEW z \in Int
                PROVE  /\ Date(z, m, d) = <<z, m, d, 0>>
                       /\ Date(z, m, d + 1) = <<z, nm, nd, 0>>
                       /\ Date(z, nm, nd) = <<z, nm, nd, 0>>
    OBVIOUS
  <2>. HIDE DEF nm, nd
  <2>1. DaysIn(z, m) = days
    BY <1>6
  <2>2. Follows(z, m, d, nm, nd)
    BY <1>2, <1>6, <1>7, <2>1 DEF Follows
  <2>. QED  BY <2>2, NextDay DEF DatesOf
<1>. HIDE DEF nm, nd
<1>9. ParseDate(p, TRUE) = from /\ ParseDate(p, FALSE) = to
  <2>1. /\ Component(p, 1, TRUE) = MinYear /\ Component(p, 1, FALSE) = MaxYear
        /\ Component(p, 2, TRUE) = m /\ Component(p, 2, FALSE) = m
        /\ Component(p, 3, TRUE) = d /\ Component(p, 3, FALSE) = d
    BY <1>1, <1>2 DEF Component, Lowest, Highest, m, d
  <2>2. DaysIn(MinYear, m) = days /\ DaysIn(MaxYear, m) = days /\ ~(d > days)
    BY <1>2, <1>5, <1>6
  <2>3. Date(MinYear, m, d) = from /\ Date(MaxYear, m, d + 1) = to
    BY <1>5, <1>8
  <2>4. Len(p) # 1 /\ Len(p) # 2 /\ Len(p) = 3
    BY <1>1
  <2>. HIDE DEF from, to
  <2>5. ParseDate(p, TRUE) = from
    BY <2>1, <2>2, <2>3, Zenon DEF ParseDate
  <2>6. ParseDate(p, FALSE) = to
    BY <2>1, <2>2, <2>3, <2>4, Zenon DEF ParseDate
  <2>. QED  BY <2>5, <2>6
<1>10. r.from = from /\ r.fromWild = wild /\ r.to = to /\ r.toWild = wild
  <2>. HIDE DEF from, to
  <2>1. /\ r.from = ParseDate(p, TRUE) /\ r.to = ParseDate(p, FALSE)
        /\ r.fromWild = Wildcards(p) /\ r.toWild = Wildcards(p)
    BY RangeOfOne
  <2>. HIDE DEF r, wild
  <2>. QED  BY <1>1, <1>9, <2>1
<1>11. from # NoTime /\ to # NoTime /\ wild # {} /\ wild # 1..3
  <2>1. 2 \in 1..3 /\ 2 \notin wild /\ 1 \in wild
    OBVIOUS
  <2>. QED  BY <2>1 DEF NoTime
<1>12. Applied({1}, from, t) = <<y, m, d, 0>>
  <2>1. [i \in 1..3 |-> IF i \in {1} THEN t[i] ELSE from[i]] = <<y, m, d>>
    BY DEF y
  <2>. QED  BY <1>2, <1>4, <1>8, <2>1 DEF Applied
<1>13. Applied({1}, to, t) = <<y, nm, nd, 0>>
  <2>1. [i \in 1..3 |-> IF i \in {1} THEN t[i] ELSE to[i]] = <<y, nm, nd>>
    BY DEF y
  <2>2. ~(nm = 2 /\ nd = 28)
    BY <1>2, <1>7
  <2>. QED  BY <1>4, <1>8, <2>1, <2>2 DEF Applied
<1>. HIDE DEF from, to, r
<1>14. Created(On, p, p, t) <=> /\ ~Before(t, from) /\ Before(t, to)
                                /\ ~Before(t, <<y, m, d, 0>>) /\ ~Before(<<y, nm, nd, 0>>, t)
  <2>. DEFINE first == <<y, m, d, 0>>
              last == <<y, nm, nd, 0>>
  <2>1. Applied(wild, from, t) = first /\ Applied(wild, to, t) = last
    BY <1>12, <1>13
  <2>. HIDE DEF first, last, wild
  <2>2. Created(On, p, p, t) <=> /\ ~Before(t, from) /\ Before(t, to)
                                 /\ ~Before(t, first) /\ ~Before(last, t)
    BY <1>10, <1>11, <2>1 DEF Created, InCreatedRange, MatchesRange, r
  <2>. QED  BY <2>2, Zenon DEF first, last
<1>15. InPeriod(p, t) <=> t[2] = m /\ t[3] = d
  <2>1. Normal(p) = p
    BY <1>1, wild # {} DEF Normal
  <2>. QED  BY <1>1, <1>2, <2>1 DEF InPeriod, m, d
<1>16. Before(t, from) <=> \/ y < MinYear
                           \/ y = MinYear /\ (t[2] < m \/ (t[2] = m /\ t[3] < d))
  BY <1>2, <1>5, BeforeMidnight DEF from, y
<1>17. Before(t, to) <=> \/ y < MaxYear
                         \/ y = MaxYear /\ (t[2] < nm \/ (t[2] = nm /\ t[3] < nd))
  BY <1>5, <1>7, BeforeMidnight DEF to, y
<1>18. Before(t, <<y, m, d, 0>>) <=> (t[2] < m \/ (t[2] = m /\ t[3] < d))
  BY <1>2, <1>4, BeforeMidnight DEF y
<1>19. Before(<<y, nm, nd, 0>>, t) <=> (nm < t[2] \/ (nm = t[2] /\ nd <= t[3]))
  <2>1. Before(<<y, nm, nd, 0>>, t) <=>
           \/ y < t[1]
           \/ y = t[1] /\ (nm < t[2] \/ (nm = t[2] /\ (nd < t[3] \/ (nd = t[3] /\ t[4] = 1))))
    BY <1>4, <1>7, BeforeMidnight
  <2>. QED  BY <1>4, <1>7, <2>1 DEF y
<1>20. t[2] = m => t[3] <= days
  BY <1>4, <1>6
<1>21. (~Before(t, <<y, m, d, 0>>) /\ ~Before(<<y, nm, nd, 0>>, t)) <=> (t[2] = m /\ t[3] = d)
  BY <1>2, <1>4, <1>7, <1>18, <1>19, <1>20
<1>22. t[2] = m /\ t[3] = d => ~Before(t, from) /\ Before(t, to)
  BY <1>2, <1>5, <1>4, <1>7, <1>16, <1>17
<1>. HIDE DEF m, d, y
<1>. QED  BY <1>14, <1>15, <1>21, <1>22

----------------------------------------------------------------------------
\* What DateSpec can ask for.
Asked ==
    \/ input = Nothing
    \/ \E op \in {"", ">=", "<=", ">", "<"}, p \in Dates :
          input = [kind |-> "date", op |-> op, p |-> p, q |-> NoTime]
    \/ \E p, q \in RangeDates : input = [kind |-> "date", op |-> "..", p |-> p, q |-> q]

LEMMA AskedMatches == Asked => DatesMatch
<1>. SUFFICES ASSUME Asked PROVE DatesMatch
  OBVIOUS
<1>1. \A t \in Times : IsTime(t)
  BY DatesAssumption DEF IsTime, Years
<1>2. input.kind = "date" =>
          /\ input.op \in {"", "..", ">=", "<=", ">", "<"} /\ IsPattern(input.p)
          /\ input.op = ".." => IsPattern(input.q)
  <2>1. \A p \in Dates \cup RangeDates : IsPattern(p)
    BY DatesAssumption DEF IsPattern
  <2>2. CASE input = Nothing
    BY <2>2, Zenon DEF Nothing
  <2>3. CASE \E op \in {"", ">=", "<=", ">", "<"}, p \in Dates :
                input = [kind |-> "date", op |-> op, p |-> p, q |-> NoTime]
    <3>1. PICK op \in {"", ">=", "<=", ">", "<"}, p \in Dates :
              input = [kind |-> "date", op |-> op, p |-> p, q |-> NoTime]
      BY <2>3, Zenon
    <3>2. input.op = op /\ input.p = p
      BY <3>1
    <3>3. op # ".."
      BY <3>1
    <3>. QED  BY <2>1, <3>2, <3>3, Zenon
  <2>4. CASE \E p, q \in RangeDates : input = [kind |-> "date", op |-> "..", p |-> p, q |-> q]
    <3>1. PICK p, q \in RangeDates : input = [kind |-> "date", op |-> "..", p |-> p, q |-> q]
      BY <2>4, Zenon
    <3>2. input.op = ".." /\ input.p = p /\ input.q = q
      BY <3>1
    <3>. QED  BY <2>1, <3>2, Zenon
  <2>. QED  BY <2>2, <2>3, <2>4, Zenon DEF Asked
<1>3. ASSUME input.kind = "date", Wildcards(input.p) = {}, Wildcards(input.q) = {},
             input.op \in {"<", ">"} => Full(input.p), NEW t \in Times
      PROVE  Created(input.op, input.p, input.q, t) <=> Documented(input.op, input.p, input.q, t)
  BY <1>1, <1>2, <1>3, PlainDates, Zenon
<1>4. ASSUME input.kind = "date", AnyYearsDay, NEW t \in Times, t[4] # 0
      PROVE  Created("", input.p, input.p, t) <=> InPeriod(input.p, t)
  <2>1. Created(On, input.p, input.p, t) <=> InPeriod(input.p, t)
    <3>1. /\ Wildcards(input.p) = {1} /\ Len(input.p) = 3 /\ input.p[2] # 2
          /\ input.p[3] <= DaysIn(2023, input.p[2]) /\ input.p # <<Star, 12, 31>>
      BY <1>4 DEF AnyYearsDay, Full
    <3>2. ~(input.p[2] = 12 /\ input.p[3] = 31)
      <4>1. input.p = <<input.p[1], input.p[2], input.p[3]>> /\ DOMAIN input.p = 1..3
        <5>1. input.p \in Seq(Nat) /\ Len(input.p) = 3
          <6>1. IsPattern(input.p)
            BY <1>2, <1>4
          <6>. QED  BY ONLY <3>1, <6>1 DEF IsPattern
        <5>. QED  BY ONLY <5>1
      <4>2. input.p[1] = Star
        BY <3>1 DEF Wildcards
      <4>. QED  BY <3>1, <4>1, <4>2
    <3>3. IsPattern(input.p) /\ IsTime(t) /\ t[4] # 0
      BY <1>1, <1>2, <1>4
    <3>. QED  BY <3>1, <3>2, <3>3, AnyYear DEF OfAnyYear
  <2>. QED  BY <2>1, Zenon DEF On
<1>. QED  BY <1>3, <1>4 DEF DatesMatch

\* A search by date finds what it says (search/date.go), for any patterns and any times of
\* the years that can be named: the bounds that parseFlexibleDate gives a year, a month and
\* a day, over the ends of months and years and the days that a month does not have, and
\* the second comparison that a wildcard for the year needs.
THEOREM DatesFound == DateSpec => []DatesMatch
<1>1. input = Nothing => Asked
  BY DEF Asked
<1>2. Asked /\ [PickDate]_input => Asked'
  <2>. SUFFICES ASSUME Asked, [PickDate]_input PROVE Asked'
    OBVIOUS
  <2>1. CASE PickDate
    BY <2>1 DEF PickDate, Asked
  <2>2. CASE UNCHANGED input
    BY <2>2 DEF Asked
  <2>. QED  BY <2>1, <2>2
<1>. QED  BY <1>1, <1>2, AskedMatches, PTL DEF DateSpec

----------------------------------------------------------------------------
(* Where the layouts put photos.                                           *)

\* Lengths that are scaled by m / d.
LEMMA ScaledIs ==
    ASSUME NEW m \in Nat, NEW d \in Nat \ {0}
    PROVE  /\ \A a \in Nat : Scaled(a, <<m, d>>) \in Nat
           /\ \A a, e \in Nat : Scaled(a, <<m, d>>) + Scaled(e, <<m, d>>) <= Scaled(a + e, <<m, d>>)
           /\ Scaled(d, <<m, d>>) = m
<1>. DEFINE D(a) == (a * m) \div d
<1>1. \A a : Scaled(a, <<m, d>>) = D(a)
  BY DEF Scaled
<1>2. \A a \in Nat : D(a) \in Nat /\ D(a) * d <= a * m
  <2>. TAKE a \in Nat
  <2>1. a * m \in Nat
    OBVIOUS
  <2>. QED  BY <2>1, DivIs
<1>3. ASSUME NEW a \in Nat, NEW e \in Nat PROVE D(a) + D(e) <= D(a + e)
  <2>1. (a + e) * m = a * m + e * m
    BY Z3
  <2>. DEFINE p == D(a)
              q == D(e)
              u == a * m
              v == e * m
  <2>2. p \in Nat /\ q \in Nat /\ p * d <= u /\ q * d <= v /\ u \in Nat /\ v \in Nat
    BY <1>2
  <2>3. (a + e) * m \in Nat /\ (a + e) * m = u + v
    BY <2>1
  <2>. HIDE DEF p, q, u, v
  <2>4. (p + q) * d = p * d + q * d /\ p * d \in Nat /\ q * d \in Nat
    BY <2>2, Z3
  <2>5. (p + q) * d <= (a + e) * m
    BY <2>2, <2>3, <2>4
  <2>6. p + q <= ((a + e) * m) \div d
    BY <2>2, <2>3, <2>5, DivAtLeast
  <2>. QED  BY <2>6 DEF p, q
<1>4. D(d) = m
  <2>. DEFINE q == D(d)
  <2>1. d * m \in Nat /\ d * m = m * d
    OBVIOUS
  <2>2. m <= q
    BY <2>1, DivAtLeast
  <2>3. q \in Nat /\ q * d <= d * m
    BY <1>2
  <2>. HIDE DEF q
  <2>4. ~(m + 1 <= q)
    <3>. SUFFICES ASSUME m + 1 <= q PROVE FALSE
      OBVIOUS
    <3>1. (m + 1) * d <= q * d
      BY <2>3, Z3
    <3>2. (m + 1) * d = m * d + d
      BY Z3
    <3>. QED  BY <2>1, <2>3, <3>1, <3>2
  <2>5. q = m
    BY <2>2, <2>3, <2>4
  <2>. QED  BY <2>5 DEF q
<1>5. \A a \in Nat : Scaled(a, <<m, d>>) \in Nat
  BY <1>1, <1>2, Zenon
<1>6. \A a, e \in Nat :
          Scaled(a, <<m, d>>) + Scaled(e, <<m, d>>) <= Scaled(a + e, <<m, d>>)
  <2>. HIDE DEF D
  <2>. QED  BY <1>1, <1>3, Zenon
<1>7. Scaled(d, <<m, d>>) = m
  BY <1>1, <1>4, Zenon
<1>. QED  BY <1>5, <1>6, <1>7, Zenon

Rects == [x : Nat, y : Nat, w : Nat, h : Nat]

\* The photos from first on stand next to each other in a row.
RowFrom(rects, first, left, width, spacing) ==
    /\ rects \in Seq(Rects)
    /\ first \in 1..Len(rects)
    /\ rects[first].x = left
    /\ \A k \in first..Len(rects) - 1 : rects[k + 1].x = Right(rects[k]) + spacing
    /\ first < Len(rects) => Right(rects[Len(rects)]) <= left + width

LEMMA RectIs ==
    ASSUME NEW x \in Nat, NEW y \in Nat, NEW w \in Nat, NEW h \in Nat
    PROVE  /\ Rect(x, y, w, h) \in Rects
           /\ Rect(x, y, w, h).x = x /\ Rect(x, y, w, h).y = y
           /\ Rect(x, y, w, h).w = w /\ Rect(x, y, w, h).h = h
           /\ Right(Rect(x, y, w, h)) = x + w /\ Bottom(Rect(x, y, w, h)) = y + h
BY DEF Rect, Rects, Right, Bottom

\* Without the gaps, a row is as wide as its photos and at least the left margin.
RowGaps(g, rects, first, left, width, spacing) ==
    LET W(k) == Right(rects[k]) - g[k]
    IN  /\ g[first] = 0
        /\ \A k \in first..Len(rects) : W(k) \in Nat /\ left <= W(k)
        /\ \A k \in first..Len(rects) - 1 :
              g[k + 1] = g[k] + spacing /\ W(k + 1) = W(k) + rects[k + 1].w
        /\ Scale(rects, first, width, spacing) = <<width - g[Len(rects)], W(Len(rects))>>
        /\ width - g[Len(rects)] \in Nat

LEMMA RowIs ==
    ASSUME NEW rects, NEW first, NEW left \in Nat \ {0}, NEW width \in Nat, NEW spacing \in Nat,
           RowFrom(rects, first, left, width, spacing)
    PROVE  \E g \in [first..Len(rects) -> Nat] : RowGaps(g, rects, first, left, width, spacing)
<1>. DEFINE g == [k \in first..Len(rects) |-> (k - first) * spacing]
            W(k) == Right(rects[k]) - g[k]
            n == Len(rects)
<1>1. /\ rects \in Seq(Rects) /\ n \in Nat /\ first \in Nat /\ 1 <= first /\ first <= n
      /\ rects[first].x = left
      /\ \A k \in first..n - 1 : rects[k + 1].x = Right(rects[k]) + spacing
      /\ first < n => Right(rects[n]) <= left + width
  BY DEF RowFrom
<1>2. \A k \in first..n : rects[k].x \in Nat /\ rects[k].w \in Nat /\ Right(rects[k]) = rects[k].x + rects[k].w
  <2>1. \A k \in first..n : rects[k] \in Rects
    BY <1>1
  <2>. QED  BY <2>1 DEF Rects, Right
<1>. DEFINE P(k) == (k - first) * spacing
<1>10. g = [k \in first..n |-> P(k)]
  OBVIOUS
<1>11. (\A k \in first..n : P(k) \in Nat) /\ P(first) = 0
  <2>1. \A k \in first..n : k - first \in Nat
    BY <1>1
  <2>2. \A k \in first..n : (k - first) * spacing \in Nat
    BY <2>1
  <2>3. (first - first) * spacing = 0
    BY <1>1
  <2>. QED  BY <2>2, <2>3
<1>12. ASSUME NEW k \in first..n - 1 PROVE P(k + 1) = P(k) + spacing
  <2>1. k - first \in Nat /\ (k + 1) - first = (k - first) + 1
    BY <1>1
  <2>2. \A e \in Nat : (e + 1) * spacing = e * spacing + spacing
    BY Z3
  <2>3. ((k - first) + 1) * spacing = (k - first) * spacing + spacing
    BY <2>1, <2>2, Zenon
  <2>4. P(k + 1) = ((k - first) + 1) * spacing
    BY <2>1, Zenon
  <2>. QED  BY <2>3, <2>4, Zenon
<1>. HIDE DEF g, P
<1>3. /\ g \in [first..n -> Nat]
      /\ g[first] = 0
  BY <1>1, <1>10, <1>11
<1>4. ASSUME NEW k \in first..n - 1 PROVE g[k + 1] = g[k] + spacing
  <2>1. k \in first..n /\ k + 1 \in first..n
    BY <1>1
  <2>. QED  BY <1>10, <1>12, <2>1
<1>. DEFINE gap == g[n]
<1>5. Scale(rects, first, width, spacing) = <<width - gap, Right(rects[n]) - gap>>
  <2>1. (n - first) * spacing = gap
    <3>1. n \in first..n
      BY <1>1
    <3>. QED  BY <1>10, <3>1 DEF P
  <2>2. ~(first > Len(rects))
    BY <1>1
  <2>. HIDE DEF gap
  <2>. QED  BY <2>1, <2>2 DEF Scale
<1>6. ASSUME NEW k \in first..n - 1 PROVE W(k + 1) = W(k) + rects[k + 1].w
  <2>1. k \in first..n /\ k + 1 \in first..n
    BY <1>1
  <2>2. rects[k + 1].x = Right(rects[k]) + spacing /\ g[k + 1] = g[k] + spacing
    BY <1>1, <1>4
  <2>3. Right(rects[k + 1]) = rects[k + 1].x + rects[k + 1].w /\ rects[k + 1].w \in Nat
    BY <1>2, <2>1
  <2>4. Right(rects[k]) \in Nat /\ g[k] \in Nat
    <3>1. /\ rects[k].x \in Nat /\ rects[k].w \in Nat
          /\ Right(rects[k]) = rects[k].x + rects[k].w
      BY <1>2, <2>1, Zenon
    <3>. QED  BY ONLY <1>3, <2>1, <3>1
  <2>. DEFINE u == Right(rects[k])
              v == Right(rects[k + 1])
              x == rects[k + 1].x
              w == rects[k + 1].w
              e == g[k]
              d == g[k + 1]
  <2>5. v = x + w /\ x = u + spacing /\ d = e + spacing /\ u \in Nat /\ e \in Nat /\ w \in Nat
    BY <2>2, <2>3, <2>4
  <2>6. W(k + 1) = v - d /\ W(k) = u - e
    OBVIOUS
  <2>. HIDE DEF W, u, v, x, w, e, d
  <2>7. v - d = (u - e) + w
    BY ONLY <2>5, spacing \in Nat
  <2>. QED  BY <2>6, <2>7, Zenon DEF w
<1>7. ASSUME NEW k \in first..n PROVE W(k) \in Nat /\ left <= W(k)
  <2>. DEFINE S == {i \in Nat : i \in first..n /\ left <= W(i)}
  <2>1. ASSUME NEW i \in first..n PROVE W(i) \in Int
    <3>1. Right(rects[i]) \in Int /\ g[i] \in Int
      BY <1>2, <1>3
    <3>. QED  BY <3>1
  <2>2. first \in S
    BY <1>1, <1>2, <1>3
  <2>3. ASSUME NEW i \in Nat, first <= i, i < k, i \in S
        PROVE  i + 1 \in S
    <3>1. i \in first..n - 1 /\ i + 1 \in first..n
      BY <1>1, <2>3
    <3>2. W(i + 1) = W(i) + rects[i + 1].w /\ rects[i + 1].w \in Nat /\ W(i) \in Int
      BY <1>2, <1>6, <2>1, <3>1
    <3>3. left <= W(i)
      BY <2>3
    <3>. HIDE DEF W
    <3>. QED  BY <1>1, <3>1, <3>2, <3>3
  <2>4. first <= k /\ k \in Nat
    BY <1>1
  <2>. HIDE DEF S
  <2>5. k \in S
    BY <1>1, <2>2, <2>3, <2>4, Upwards
  <2>. QED  BY <2>1, <2>5 DEF S
<1>8. width - gap \in Nat
  <2>1. n \in first..n
    BY <1>1
  <2>2. left <= Right(rects[n]) - gap /\ gap \in Nat /\ Right(rects[n]) \in Nat
    BY <1>2, <1>3, <1>7, <2>1
  <2>3. first < n => Right(rects[n]) <= left + width
    BY <1>1
  <2>4. first = n => gap = 0
    BY <1>3
  <2>5. first < n \/ first = n
    BY <1>1
  <2>. HIDE DEF gap, W, n
  <2>. QED  BY <2>2, <2>3, <2>4, <2>5
<1>9. RowGaps(g, rects, first, left, width, spacing)
  BY <1>1, <1>3, <1>4, <1>5, <1>6, <1>7, <1>8, Zenon DEF RowGaps
<1>. QED  BY <1>3, <1>9

\* A row that is scaled begins where it began and ends inside of the width.
LEMMA FitRowIs ==
    ASSUME NEW rects, NEW first, NEW left \in Nat \ {0}, NEW width \in Nat, NEW spacing \in Nat,
           RowFrom(rects, first, left, width, spacing)
    PROVE  LET s == Scale(rects, first, width, spacing)
               R == FitRow(rects, first, width, spacing)
               n == Len(rects)
           IN  /\ \A a \in Nat : Scaled(a, s) \in Nat
               /\ R \in Seq(Rects) /\ Len(R) = n
               /\ \A k \in 1..first - 1 : R[k] = rects[k]
               /\ \A k \in first..n :
                     /\ R[k].y = rects[k].y /\ R[k].h = Scaled(rects[k].h, s)
                     /\ left <= R[k].x /\ Right(R[k]) <= left + width
               /\ \A i, j \in first..n : i < j => Right(R[i]) <= R[j].x
<1>. DEFINE n == Len(rects)
            s == Scale(rects, first, width, spacing)
            W(g, k) == Right(rects[k]) - g[k]
<1>1. /\ rects \in Seq(Rects) /\ n \in Nat /\ first \in Nat /\ 1 <= first /\ first <= n
      /\ rects[first].x = left
  BY DEF RowFrom
<1>0. PICK g \in [first..n -> Nat] : RowGaps(g, rects, first, left, width, spacing)
  BY RowIs
<1>2. /\ g[first] = 0
      /\ \A k \in first..n : W(g, k) \in Nat /\ left <= W(g, k)
      /\ \A k \in first..n - 1 :
            g[k + 1] = g[k] + spacing /\ W(g, k + 1) = W(g, k) + rects[k + 1].w
      /\ s = <<width - g[n], W(g, n)>>
      /\ width - g[n] \in Nat
  BY <1>0, Zenon DEF RowGaps
<1>. DEFINE V == [k \in first..n |-> W(g, k)]
            D == [a \in Nat |-> Scaled(a, s)]
            gap == g[n]
            d == W(g, n)
<1>3. /\ \A k \in first..n : V[k] \in Nat /\ left <= V[k] /\ V[k] = Right(rects[k]) - g[k]
      /\ \A k \in first..n - 1 : V[k + 1] = V[k] + rects[k + 1].w
      /\ V[n] = d
  <2>1. \A k \in first..n - 1 : k \in first..n /\ k + 1 \in first..n
    BY <1>1
  <2>2. n \in first..n
    BY <1>1
  <2>. HIDE DEF W
  <2>3. \A k \in first..n : V[k] = W(g, k)
    OBVIOUS
  <2>4. \A k \in first..n - 1 : V[k + 1] = V[k] + rects[k + 1].w
    BY <1>2, <2>1, <2>3
  <2>. QED  BY <1>2, <2>2, <2>3, <2>4 DEF W
<1>. HIDE DEF V
<1>4. /\ \A a \in Nat : Scaled(a, s) \in Nat
      /\ \A a, e \in Nat : Scaled(a, s) + Scaled(e, s) <= Scaled(a + e, s)
      /\ Scaled(d, s) = width - gap
  <2>1. d \in Nat \ {0} /\ width - gap \in Nat /\ s = <<width - gap, d>>
    <3>1. n \in first..n
      BY <1>1
    <3>2. d \in Nat /\ left <= d
      BY <1>2, <3>1
    <3>. HIDE DEF d
    <3>3. d \in Nat \ {0}
      BY <3>2
    <3>. QED  BY <1>2, <3>3 DEF d
  <2>. HIDE DEF d, gap, s
  <2>. QED  BY <2>1, ScaledIs
<1>5. \A k \in first..n : /\ rects[k] \in Rects
                          /\ rects[k].x \in Nat /\ rects[k].y \in Nat
                          /\ rects[k].w \in Nat /\ rects[k].h \in Nat
                          /\ Right(rects[k]) = rects[k].x + rects[k].w
  <2>1. \A k \in first..n : rects[k] \in Rects
    BY <1>1
  <2>. QED  BY <2>1 DEF Rects, Right
<1>. HIDE DEF s, W
<1>. DEFINE At(f) == [k \in first..n |->
                         IF k = first THEN rects[k].x
                         ELSE f[k - 1] + Scaled(rects[k - 1].w, s) + spacing]
            x == CHOOSE f : f = At(f)
<1>6. \E f : f = At(f)
  <2>. DEFINE F == [k \in Nat |-> [v \in Nat |->
                      IF k - 1 \in first..n THEN v + Scaled(rects[k - 1].w, s) + spacing ELSE v]]
  <2>1. F \in [Nat -> [Nat -> Nat]]
    <3>1. \A k \in Nat : k - 1 \in first..n => Scaled(rects[k - 1].w, s) \in Nat
      BY <1>4, <1>5
    <3>2. \A k, v \in Nat : (IF k - 1 \in first..n THEN v + Scaled(rects[k - 1].w, s) + spacing ELSE v) \in Nat
      BY <3>1
    <3>. QED  BY <3>2
  <2>2. \A k \in first + 1..n, v \in Nat : F[k][v] = v + Scaled(rects[k - 1].w, s) + spacing
    <3>1. \A k \in first + 1..n : k \in Nat /\ k - 1 \in first..n
      BY <1>1
    <3>. QED  BY <3>1
  <2>. HIDE DEF F
  <2>3. rects[first].x \in Nat
    BY <1>1
  <2>. DEFINE v == rects[first].x
  <2>. PICK f \in [first..n -> Nat] : Iterates(f, F, v, first, n)
    <3>1. v \in Nat /\ first \in Nat /\ n \in Nat /\ first <= n
      BY <1>1, <2>3
    <3>. HIDE DEF v, n
    <3>. QED  BY ONLY <2>1, <3>1, Iterated
  <2>4. f[first] = v /\ \A k \in first + 1..n : f[k] = F[k][f[k - 1]]
    BY DEF Iterates
  <2>5. ASSUME NEW k \in first..n
        PROVE  f[k] = IF k = first THEN rects[k].x
                      ELSE f[k - 1] + Scaled(rects[k - 1].w, s) + spacing
    <3>1. CASE k = first
      BY <2>4, <3>1
    <3>2. CASE k # first
      <4>1. k \in first + 1..n /\ k - 1 \in first..n
        BY <1>1, <3>2
      <4>2. f[k - 1] \in Nat
        BY <4>1
      <4>. QED  BY <2>2, <2>4, <3>2, <4>1, <4>2
    <3>. QED  BY <3>1, <3>2
  <2>6. f = At(f)
    BY <2>5
  <2>. QED  BY <2>6
<1>7. x = At(x)
  <2>. HIDE DEF At
  <2>. QED  BY <1>6, Zenon
<1>8. FitRow(rects, first, width, spacing) =
      [k \in DOMAIN rects |->
          IF k < first THEN rects[k]
          ELSE Rect(x[k], rects[k].y, Scaled(rects[k].w, s), Scaled(rects[k].h, s))]
  BY Zenon DEF FitRow, s
<1>. HIDE DEF x
<1>9. x[first] = left /\ \A k \in first..n - 1 : x[k + 1] = x[k] + Scaled(rects[k].w, s) + spacing
  <2>1. first \in first..n
    BY <1>1
  <2>2. \A k \in first..n - 1 : k + 1 \in first..n /\ k + 1 # first /\ k + 1 - 1 = k
    BY <1>1
  <2>3. ASSUME NEW k \in first..n - 1
        PROVE  x[k + 1] = x[k] + Scaled(rects[k].w, s) + spacing
    <3>1. x[k + 1] = At(x)[k + 1]
      BY <1>7, Zenon
    <3>2. x[k + 1] = x[(k + 1) - 1] + Scaled(rects[(k + 1) - 1].w, s) + spacing
      BY <2>2, <3>1
    <3>3. (k + 1) - 1 = k
      BY <1>1
    <3>. QED  BY <3>2, <3>3, Zenon
  <2>4. x[first] = At(x)[first]
    BY <1>7, Zenon
  <2>. QED  BY <1>1, <2>1, <2>3, <2>4
<1>. HIDE DEF At
<1>10. \A k \in first..n : Right(rects[k]) - g[k] = V[k] /\ g[k] \in Nat /\ V[k] \in Nat
  BY <1>3
<1>. DEFINE Sc(k) == Scaled(rects[k].w, s)
<1>11. \A k \in first..n : Sc(k) \in Nat
  BY <1>4, <1>5
<1>20. ASSUME NEW k \in first..n, NEW v \in Nat
       PROVE  /\ Scaled(v, s) \in Nat /\ Scaled(v + rects[k].w, s) \in Nat
              /\ Scaled(v, s) + Sc(k) <= Scaled(v + rects[k].w, s)
  <2>. DEFINE w == rects[k].w
  <2>1. w \in Nat
    BY <1>5
  <2>. HIDE DEF w
  <2>2. v + w \in Nat
    BY <2>1
  <2>3. /\ Scaled(v, s) \in Nat /\ Scaled(v + w, s) \in Nat
        /\ Scaled(v, s) + Scaled(w, s) <= Scaled(v + w, s)
    BY ONLY <1>4, <2>1, <2>2, v \in Nat
  <2>. QED  BY <2>3, Zenon DEF w
<1>21. \A k \in first..n - 1 : x[k + 1] = x[k] + Sc(k) + spacing
  BY <1>9, Zenon
<1>22. \A k \in first..n : Sc(k) = Scaled(rects[k].w, s)
  OBVIOUS
<1>. HIDE DEF Sc
<1>12. ASSUME NEW k \in first..n
       PROVE  x[k] \in Nat /\ left <= x[k] /\ x[k] + Sc(k) <= left + g[k] + Scaled(V[k], s)
  <2>. DEFINE P(i) == /\ i \in first..n
                      /\ x[i] \in Nat /\ left <= x[i]
                      /\ x[i] + Sc(i) <= left + g[i] + Scaled(V[i], s)
              S == {i \in Nat : P(i)}
  <2>1. first \in S
    <3>1. first \in first..n
      BY <1>1
    <3>2. V[first] = left + rects[first].w /\ rects[first].w \in Nat
      BY <1>1, <1>2, <1>3, <1>5, <3>1
    <3>3. Scaled(left, s) + Sc(first) <= Scaled(V[first], s)
      BY <1>20, <3>1, <3>2
    <3>4. Scaled(left, s) \in Nat /\ Sc(first) \in Nat /\ Scaled(V[first], s) \in Nat
      BY <1>4, <1>10, <1>11, <3>1
    <3>5. x[first] + Sc(first) <= left + g[first] + Scaled(V[first], s)
      BY <1>2, <1>9, <3>3, <3>4
    <3>6. x[first] \in Nat /\ left <= x[first] /\ first \in Nat
      BY <1>1, <1>9
    <3>7. P(first)
      BY <3>1, <3>5, <3>6
    <3>. HIDE DEF P
    <3>. QED  BY <3>6, <3>7
  <2>2. ASSUME NEW i \in Nat, first <= i, i < k, i \in S
        PROVE  i + 1 \in S
    <3>1. i \in first..n - 1 /\ i \in first..n /\ i + 1 \in first..n
      BY <1>1, <2>2
    <3>2. /\ x[i + 1] = x[i] + Sc(i) + spacing
          /\ g[i + 1] = g[i] + spacing
          /\ V[i + 1] = V[i] + rects[i + 1].w
      BY <1>2, <1>3, <1>21, <3>1
    <3>3. rects[i + 1].w \in Nat /\ V[i] \in Nat
      BY <1>5, <1>10, <3>1
    <3>4. Scaled(V[i], s) + Sc(i + 1) <= Scaled(V[i + 1], s)
      BY <1>20, <3>1, <3>2, <3>3
    <3>5. /\ Sc(i) \in Nat /\ Sc(i + 1) \in Nat /\ g[i] \in Nat
          /\ Scaled(V[i], s) \in Nat /\ Scaled(V[i + 1], s) \in Nat
      BY <1>4, <1>10, <1>11, <3>1
    <3>6. x[i] \in Nat /\ left <= x[i] /\ x[i] + Sc(i) <= left + g[i] + Scaled(V[i], s)
      BY <2>2
    <3>. DEFINE a == x[i]
                e == Sc(i)
                f == Scaled(V[i], s)
                o == g[i]
                e1 == Sc(i + 1)
                f1 == Scaled(V[i + 1], s)
    <3>7. /\ a \in Nat /\ e \in Nat /\ f \in Nat /\ o \in Nat /\ e1 \in Nat /\ f1 \in Nat
          /\ left <= a /\ a + e <= left + o + f /\ f + e1 <= f1
      BY <3>4, <3>5, <3>6, Zenon
    <3>8. x[i + 1] = a + e + spacing /\ g[i + 1] = o + spacing
      BY <3>2, Zenon
    <3>. HIDE DEF a, e, f, o, e1, f1
    <3>9. /\ a + e + spacing \in Nat /\ left <= a + e + spacing
          /\ (a + e + spacing) + e1 <= left + (o + spacing) + f1
      BY ONLY <3>7, left \in Nat, spacing \in Nat
    <3>10. x[i + 1] \in Nat /\ left <= x[i + 1] /\ x[i + 1] + e1 <= left + g[i + 1] + f1
      BY <3>8, <3>9, Zenon
    <3>11. P(i + 1)
      BY <3>1, <3>10 DEF e1, f1
    <3>. HIDE DEF P
    <3>. QED  BY <3>11
  <2>3. first <= k /\ k \in Nat
    BY <1>1
  <2>. HIDE DEF S, P
  <2>4. k \in S
    BY <1>1, <2>1, <2>2, <2>3, Upwards
  <2>. QED  BY <2>4 DEF S, P
<1>13. ASSUME NEW i \in first..n, NEW j \in first..n, i < j
       PROVE  x[i] + Sc(i) <= x[j]
  <2>. DEFINE P(k) == k \in first..n /\ x[i] + Sc(i) <= x[k]
              S == {k \in Nat : P(k)}
  <2>1. i + 1 \in S /\ i \in Nat
    <3>1. i \in first..n - 1 /\ i + 1 \in first..n
      BY <1>1, <1>13
    <3>2. x[i + 1] = x[i] + Sc(i) + spacing /\ x[i] \in Nat /\ Sc(i) \in Nat
      BY <1>21, <1>11, <1>12, <3>1
    <3>3. x[i] + Sc(i) <= x[i + 1]
      BY ONLY <3>2, spacing \in Nat
    <3>4. P(i + 1) /\ i \in Nat
      BY <1>1, <3>1, <3>3
    <3>. HIDE DEF P
    <3>. QED  BY <3>4
  <2>2. ASSUME NEW k \in Nat, i + 1 <= k, k < j, k \in S
        PROVE  k + 1 \in S
    <3>1. k \in first..n - 1 /\ k + 1 \in first..n /\ k \in first..n
      BY <1>1, <2>2
    <3>2. x[k + 1] = x[k] + Sc(k) + spacing /\ x[k] \in Nat /\ Sc(k) \in Nat
      BY <1>21, <1>11, <1>12, <3>1
    <3>3. x[i] + Sc(i) <= x[k] /\ x[i] \in Nat /\ Sc(i) \in Nat
      BY <1>11, <1>12, <2>2
    <3>4. x[i] + Sc(i) <= x[k + 1]
      BY ONLY <3>2, <3>3, spacing \in Nat
    <3>5. P(k + 1)
      BY <3>1, <3>4
    <3>. HIDE DEF P
    <3>. QED  BY <2>2, <3>5
  <2>3. i + 1 <= j /\ j \in Nat /\ i + 1 \in Nat
    BY <1>1, <1>13
  <2>. HIDE DEF S, P
  <2>4. j \in S
    BY <2>1, <2>2, <2>3, Upwards
  <2>. QED  BY <2>4 DEF S, P
<1>14. ASSUME NEW k \in first..n PROVE x[k] + Sc(k) <= left + width
  <2>1. n \in first..n
    BY <1>1
  <2>2. x[n] + Sc(n) <= left + gap + (width - gap)
    BY <1>3, <1>4, <1>12, <2>1
  <2>3. gap \in Nat /\ width - gap \in Nat
    BY <1>2, <2>1
  <2>4. x[n] + Sc(n) <= left + width
    <3>1. x[n] \in Nat /\ Sc(n) \in Nat
      BY <1>11, <1>12, <2>1
    <3>. HIDE DEF gap
    <3>. QED  BY <2>2, <2>3, <3>1
  <2>5. CASE k = n
    BY <2>4, <2>5
  <2>6. CASE k # n
    <3>1. k < n
      BY <1>1, <2>6
    <3>2. x[k] + Sc(k) <= x[n]
      BY <1>13, <2>1, <3>1
    <3>3. x[k] \in Nat /\ Sc(k) \in Nat /\ x[n] \in Nat /\ Sc(n) \in Nat
      BY <1>11, <1>12, <2>1
    <3>. QED  BY <2>4, <3>2, <3>3
  <2>. QED  BY <2>5, <2>6
<1>. DEFINE R == FitRow(rects, first, width, spacing)
<1>15. ASSUME NEW k \in first..n
       PROVE  /\ R[k] \in Rects /\ R[k].x = x[k] /\ Right(R[k]) = x[k] + Sc(k)
              /\ R[k].y = rects[k].y /\ R[k].h = Scaled(rects[k].h, s)
  <2>1. k \in DOMAIN rects /\ ~(k < first)
    BY <1>1
  <2>2. R[k] = Rect(x[k], rects[k].y, Sc(k), Scaled(rects[k].h, s))
    BY <1>8, <1>22, <2>1
  <2>3. x[k] \in Nat /\ rects[k].y \in Nat /\ Sc(k) \in Nat /\ Scaled(rects[k].h, s) \in Nat
    BY <1>4, <1>5, <1>11, <1>12
  <2>. DEFINE y == rects[k].y
              w == Sc(k)
              e == Scaled(rects[k].h, s)
              u == x[k]
  <2>4. u \in Nat /\ y \in Nat /\ w \in Nat /\ e \in Nat /\ R[k] = Rect(u, y, w, e)
    BY <2>2, <2>3
  <2>. HIDE DEF y, w, e, u, R
  <2>. DEFINE r == Rect(u, y, w, e)
  <2>5. /\ r \in Rects /\ r.x = u /\ Right(r) = u + w
        /\ r.y = y /\ r.h = e
    BY ONLY <2>4 DEF Rect, Rects, Right
  <2>. QED  BY <2>4, <2>5, Zenon DEF y, w, e, u
<1>16. ASSUME NEW k \in 1..first - 1
       PROVE  R[k] = rects[k] /\ R[k] \in Rects
  <2>1. k \in DOMAIN rects /\ k < first /\ k \in 1..n
    BY <1>1
  <2>2. R[k] = rects[k]
    BY <1>8, <2>1
  <2>. QED  BY <1>1, <2>1, <2>2
<1>17. R \in Seq(Rects) /\ Len(R) = n
  <2>1. \A k \in 1..n : k \in 1..first - 1 \/ k \in first..n
    BY <1>1
  <2>2. \A k \in 1..n : R[k] \in Rects
    BY <1>15, <1>16, <2>1
  <2>3. DOMAIN rects = 1..n
    BY <1>1
  <2>4. R = [k \in 1..n |-> R[k]]
    <3>. DEFINE e(k) == IF k < first THEN rects[k]
                        ELSE Rect(x[k], rects[k].y, Scaled(rects[k].w, s), Scaled(rects[k].h, s))
    <3>1. R = [k \in 1..n |-> e(k)]
      BY <1>8, <2>3
    <3>. HIDE DEF e, R
    <3>. QED  BY <3>1
  <2>. HIDE DEF R, n
  <2>. QED  BY <1>1, <2>2, <2>4
<1>. HIDE DEF R
<1>18. ASSUME NEW k \in first..n
       PROVE  left <= R[k].x /\ Right(R[k]) <= left + width
  BY <1>12, <1>14, <1>15
<1>19. ASSUME NEW i \in first..n, NEW j \in first..n, i < j
       PROVE  Right(R[i]) <= R[j].x
  BY <1>13, <1>15, <1>19
<1>. QED  BY <1>4, <1>15, <1>16, <1>17, <1>18, <1>19 DEF R, s

\* Where a section may be laid out and the lengths it is laid out with.
Measures(b, c) ==
    /\ b.x \in Nat \ {0} /\ b.y \in Nat /\ b.w \in Nat
    /\ c.height \in Nat /\ c.spacing \in Nat /\ c.line \in Nat

\* A photo that is laid out after another lies apart from it and ends no higher.
LaidAfter(r, s) == Apart2(r, s) /\ Bottom(r) <= Bottom(s)
Clear(rects) == \A i, j \in DOMAIN rects : i < j => LaidAfter(rects[i], rects[j])

\* A photo of a row that is scaled: inside of the section and not below y.
Placed(r, b, y) ==
    b.x <= r.x /\ b.y <= r.y /\ Right(r) <= b.x + b.w /\ Bottom(r) <= b.y + y

\* A photo of the row that is being filled, which begins below y and ends before x.
InRow(r, b, c, x, y) ==
    r.y = b.y + y /\ r.h = c.height /\ b.x <= r.x /\ Right(r) + c.spacing <= b.x + x

RowStates == [rects : Seq(Rects), first : Nat \ {0}, x : Nat, y : Nat]

\* The inductive invariant of the photos of a section.
RowInv(st, b, c) ==
    /\ st \in RowStates
    /\ st.first <= Len(st.rects) + 1
    /\ \A i \in 1..st.first - 1 : Placed(st.rects[i], b, st.y)
    /\ \A i \in st.first..Len(st.rects) : InRow(st.rects[i], b, c, st.x, st.y)
    /\ Clear(st.rects)
    /\ st.first > Len(st.rects) => st.x = 0
    /\ st.first <= Len(st.rects) =>
          /\ RowFrom(st.rects, st.first, b.x, b.w, c.spacing)
          /\ Right(st.rects[Len(st.rects)]) + c.spacing = b.x + st.x

LEMMA RowStateHas ==
    ASSUME NEW st \in RowStates
    PROVE  /\ st.rects \in Seq(Rects) /\ Len(st.rects) \in Nat
           /\ st.first \in Nat /\ 1 <= st.first
           /\ st.x \in Nat /\ st.y \in Nat
BY DEF RowStates

LEMMA RectHas ==
    ASSUME NEW r \in Rects
    PROVE  /\ r.x \in Nat /\ r.y \in Nat /\ r.w \in Nat /\ r.h \in Nat
           /\ Right(r) = r.x + r.w /\ Bottom(r) = r.y + r.h
           /\ Right(r) \in Nat /\ Bottom(r) \in Nat
BY DEF Rects, Right, Bottom

\* The next photo is in a row below, or in the same row further right.
LEMMA NextIsBelow ==
    ASSUME NEW r \in Rects, NEW s \in Rects, Bottom(r) <= s.y
    PROVE  LaidAfter(r, s)
<1>1. /\ s.y \in Nat /\ s.h \in Nat /\ Bottom(s) = s.y + s.h
      /\ Bottom(r) \in Nat
  BY RectHas
<1>2. Bottom(r) <= Bottom(s)
  BY ONLY <1>1, Bottom(r) <= s.y
<1>. QED  BY <1>2 DEF LaidAfter, Apart2

LEMMA NextIsBeside ==
    ASSUME NEW r \in Rects, NEW s \in Rects, r.y = s.y, r.h = s.h, Right(r) <= s.x
    PROVE  LaidAfter(r, s)
<1>1. Bottom(r) = r.y + r.h /\ Bottom(s) = s.y + s.h /\ Bottom(s) \in Nat
  BY RectHas
<1>2. Bottom(r) <= Bottom(s)
  <2>1. Bottom(r) = Bottom(s)
    BY <1>1
  <2>. QED  BY ONLY <1>1, <2>1
<1>. QED  BY <1>2 DEF LaidAfter, Apart2

\* What is placed stays placed when more rows follow.
LEMMA PlacedBelow ==
    ASSUME NEW b, NEW c, Measures(b, c), NEW r \in Rects, NEW y \in Nat, NEW z \in Nat, y <= z,
           Placed(r, b, y)
    PROVE  Placed(r, b, z)
BY RectHas DEF Placed, Measures

LEMMA NextRowKeeps ==
    ASSUME NEW b, NEW c, Measures(b, c), NEW st, RowInv(st, b, c)
    PROVE  RowInv(NextRow(st, b, c), b, c) /\ Len(NextRow(st, b, c).rects) = Len(st.rects)
<1>. DEFINE n == Len(st.rects)
            s == Scale(st.rects, st.first, b.w, c.spacing)
            R == FitRow(st.rects, st.first, b.w, c.spacing)
            h == Scaled(c.height, s)
            z == st.y + h + c.line
            new == NextRow(st, b, c)
<1>1. /\ st \in RowStates /\ st.rects \in Seq(Rects) /\ n \in Nat
      /\ st.first \in Nat /\ 1 <= st.first /\ st.first <= n + 1
      /\ st.x \in Nat /\ st.y \in Nat
  BY RowStateHas DEF RowInv
<1>2. /\ b.x \in Nat \ {0} /\ b.y \in Nat /\ b.w \in Nat
      /\ c.height \in Nat /\ c.spacing \in Nat /\ c.line \in Nat
  BY DEF Measures
<1>3. /\ \A i \in 1..st.first - 1 : Placed(st.rects[i], b, st.y)
      /\ \A i \in st.first..n : InRow(st.rects[i], b, c, st.x, st.y)
      /\ \A i, j \in 1..n : i < j => LaidAfter(st.rects[i], st.rects[j])
      /\ st.first <= n => RowFrom(st.rects, st.first, b.x, b.w, c.spacing)
  BY <1>1 DEF RowInv, Clear
<1>4. /\ new.rects = R /\ new.first = n + 1 /\ new.x = 0 /\ new.y = z
      /\ new = [rects |-> R, first |-> n + 1, x |-> 0, y |-> z]
  BY DEF NextRow
<1>. HIDE DEF new, z, h, R
<1>5. ASSUME h \in Nat, R \in Seq(Rects), Len(R) = n,
             \A i \in 1..n : Placed(R[i], b, z),
             \A i, j \in 1..n : i < j => LaidAfter(R[i], R[j])
      PROVE  RowInv(new, b, c) /\ Len(new.rects) = n
  <2>1. z \in Nat
    BY <1>1, <1>2, <1>5 DEF z
  <2>2. n + 1 \in Nat \ {0} /\ 0 \in Nat
    BY <1>1
  <2>3. new \in RowStates
    <3>. HIDE DEF n
    <3>. QED  BY <1>4, <1>5, <2>1, <2>2 DEF RowStates
  <2>4. 1..(n + 1) - 1 = 1..n /\ n + 1..n = {} /\ ~(n + 1 <= n)
    BY <1>1
  <2>5. DOMAIN R = 1..n
    BY <1>1, <1>5
  <2>. HIDE DEF n
  <2>6. Clear(new.rects) /\ Len(new.rects) = n
    BY <1>4, <1>5, <2>5 DEF Clear
  <2>. QED  BY <1>4, <1>5, <2>2, <2>3, <2>4, <2>6, <1>1 DEF RowInv
<1>6. CASE st.first > n
  <2>1. s = <<1, 1>>
    BY <1>1, <1>6 DEF Scale
  <2>2. h \in Nat
    <3>. HIDE DEF s
    <3>1. 1 \in Nat /\ 1 \in Nat \ {0}
      OBVIOUS
    <3>2. \A a \in Nat : Scaled(a, <<1, 1>>) \in Nat
      BY <3>1, ScaledIs, Zenon
    <3>. QED  BY <1>2, <2>1, <3>2 DEF h
  <2>3. R = st.rects
    <3>1. \A k \in DOMAIN st.rects : k < st.first
      BY <1>1, <1>6
    <3>2. R = [k \in DOMAIN st.rects |-> st.rects[k]]
      BY <3>1 DEF R, FitRow
    <3>3. R = st.rects
      <4>. HIDE DEF R
      <4>1. DOMAIN st.rects = 1..n
        BY <1>1
      <4>. QED  BY <1>1, <3>2
    <3>. QED  BY <3>3
  <2>4. st.y <= z /\ z \in Nat
    BY <1>1, <1>2, <2>2 DEF z
  <2>5. ASSUME NEW i \in 1..n PROVE Placed(R[i], b, z)
    <3>1. i \in 1..st.first - 1 /\ st.rects[i] \in Rects
      BY <1>1, <1>6
    <3>. QED  BY <1>1, <1>3, <2>3, <2>4, <3>1, PlacedBelow
  <2>6. R \in Seq(Rects) /\ Len(R) = n /\ \A i, j \in 1..n : i < j => LaidAfter(R[i], R[j])
    BY <1>1, <1>3, <2>3
  <2>. QED  BY <1>5, <2>2, <2>5, <2>6, Zenon DEF new
<1>7. CASE st.first <= n
  <2>. DEFINE f == st.first
  <2>1. RowFrom(st.rects, f, b.x, b.w, c.spacing)
    BY <1>3, <1>7
  <2>2. /\ \A a \in Nat : Scaled(a, s) \in Nat
        /\ R \in Seq(Rects) /\ Len(R) = n
        /\ \A k \in 1..f - 1 : R[k] = st.rects[k]
        /\ \A k \in f..n :
              /\ R[k].y = st.rects[k].y /\ R[k].h = Scaled(st.rects[k].h, s)
              /\ b.x <= R[k].x /\ Right(R[k]) <= b.x + b.w
        /\ \A i, j \in f..n : i < j => Right(R[i]) <= R[j].x
    <3>. HIDE DEF f
    <3>. QED  BY <1>2, <2>1, FitRowIs DEF R, f
  <2>3. h \in Nat
    BY <1>2, <2>2 DEF h
  <2>4. st.y <= z /\ st.y + h <= z /\ z \in Nat
    <3>1. st.y \in Nat /\ c.line \in Nat
      BY <1>1, <1>2
    <3>. QED  BY ONLY <2>3, <3>1 DEF z
  <2>5. ASSUME NEW i \in f..n
        PROVE  R[i].y = b.y + st.y /\ R[i].h = h
    <3>1. st.rects[i].y = b.y + st.y /\ st.rects[i].h = c.height
      <4>. HIDE DEF n, f
      <4>1. InRow(st.rects[i], b, c, st.x, st.y)
        BY <1>3 DEF f
      <4>. QED  BY <4>1 DEF InRow
    <3>2. R[i].y = st.rects[i].y /\ R[i].h = Scaled(st.rects[i].h, s)
      BY <2>2
    <3>. HIDE DEF s, f, n
    <3>3. h = Scaled(c.height, s)
      BY DEF h
    <3>. QED  BY ONLY <3>1, <3>2, <3>3, Zenon
  <2>6. \A i \in 1..n : R[i] \in Rects /\ st.rects[i] \in Rects
    <3>1. R \in Seq(Rects) /\ Len(R) = n /\ st.rects \in Seq(Rects)
      BY <1>1, <2>2
    <3>. QED  BY ONLY <3>1
  <2>7. ASSUME NEW i \in 1..n PROVE Placed(R[i], b, z)
    <3>1. CASE i < f
      <4>1. i \in 1..f - 1
        BY <1>1, <3>1
      <4>. QED  BY <1>1, <1>3, <2>2, <2>4, <2>6, <4>1, PlacedBelow
    <3>2. CASE f <= i
      <4>1. i \in f..n
        BY <1>1, <3>2
      <4>2. b.x <= R[i].x /\ Right(R[i]) <= b.x + b.w
        BY <2>2, <4>1
      <4>3. Bottom(R[i]) = b.y + st.y + h
        BY <2>5, <4>1 DEF Bottom
      <4>4. b.y <= R[i].y
        BY <1>1, <1>2, <2>5, <4>1
      <4>5. Bottom(R[i]) <= b.y + z
        BY <1>1, <1>2, <2>3, <2>4, <4>3
      <4>. QED  BY <4>2, <4>4, <4>5 DEF Placed
    <3>. QED  BY <1>1, <3>1, <3>2
  <2>8. ASSUME NEW i \in 1..n, NEW j \in 1..n, i < j PROVE LaidAfter(R[i], R[j])
    <3>1. CASE j < f
      <4>1. i \in 1..f - 1 /\ j \in 1..f - 1
        BY <1>1, <2>8, <3>1
      <4>. QED  BY <1>3, <2>2, <2>8, <4>1
    <3>2. CASE i < f /\ f <= j
      <4>1. i \in 1..f - 1 /\ j \in f..n
        BY <1>1, <3>2
      <4>2. Bottom(R[i]) <= b.y + st.y
        BY <1>3, <2>2, <4>1 DEF Placed
      <4>3. R[j].y = b.y + st.y
        BY <2>5, <4>1
      <4>. QED  BY <2>6, <4>2, <4>3, NextIsBelow
    <3>3. CASE f <= i
      <4>1. i \in f..n /\ j \in f..n
        BY <1>1, <2>8, <3>3
      <4>2. Right(R[i]) <= R[j].x
        BY <2>2, <2>8, <4>1
      <4>3. R[i].y = R[j].y /\ R[i].h = R[j].h
        BY <2>5, <4>1
      <4>. QED  BY <2>6, <4>2, <4>3, NextIsBeside
    <3>. QED  BY <1>1, <3>1, <3>2, <3>3
  <2>. QED  BY <1>5, <2>2, <2>3, <2>7, <2>8, Zenon DEF new
<1>. QED  BY <1>1, <1>6, <1>7 DEF new

LEMMA PutPhotoKeeps ==
    ASSUME NEW b, NEW c, Measures(b, c), NEW st, RowInv(st, b, c), NEW w \in Nat,
           st.first <= Len(st.rects) => st.x + w <= b.w
    PROVE  /\ RowInv(PutPhoto(st, w, b, c), b, c)
           /\ Len(PutPhoto(st, w, b, c).rects) = Len(st.rects) + 1
<1>. DEFINE rs == st.rects
            n == Len(rs)
            f == st.first
            r == Rect(b.x + st.x, b.y + st.y, w, c.height)
            R == Append(rs, r)
            x == st.x + w + c.spacing
            new == PutPhoto(st, w, b, c)
<1>1. /\ st \in RowStates /\ rs \in Seq(Rects) /\ n \in Nat
      /\ f \in Nat /\ 1 <= f /\ f <= n + 1
      /\ st.x \in Nat /\ st.y \in Nat
  BY RowStateHas DEF RowInv
<1>2. /\ b.x \in Nat \ {0} /\ b.y \in Nat /\ b.w \in Nat
      /\ c.height \in Nat /\ c.spacing \in Nat /\ c.line \in Nat
  BY DEF Measures
<1>0. /\ b.x \in Nat /\ b.y \in Nat /\ b.w \in Nat /\ c.height \in Nat /\ c.spacing \in Nat
      /\ st.x \in Nat /\ st.y \in Nat /\ w \in Nat
  BY <1>1, <1>2
<1>3. /\ \A i \in 1..f - 1 : Placed(rs[i], b, st.y)
      /\ \A i \in f..n : InRow(rs[i], b, c, st.x, st.y)
      /\ \A i, j \in 1..n : i < j => LaidAfter(rs[i], rs[j])
      /\ f > n => st.x = 0
      /\ f <= n => RowFrom(rs, f, b.x, b.w, c.spacing) /\ Right(rs[n]) + c.spacing = b.x + st.x
  BY <1>1 DEF RowInv, Clear
<1>4. /\ new.rects = R /\ new.first = f /\ new.x = x /\ new.y = st.y
      /\ new = [rects |-> R, first |-> f, x |-> x, y |-> st.y]
  BY DEF PutPhoto
<1>5. /\ r \in Rects /\ r.x = b.x + st.x /\ r.y = b.y + st.y /\ r.h = c.height
      /\ Right(r) = b.x + st.x + w
  <2>. DEFINE u == b.x + st.x
              v == b.y + st.y
              h == c.height
  <2>1. u \in Nat /\ v \in Nat /\ h \in Nat
    BY ONLY <1>0
  <2>. HIDE DEF u, v, h
  <2>2. /\ Rect(u, v, w, h) \in Rects /\ Rect(u, v, w, h).x = u /\ Rect(u, v, w, h).y = v
        /\ Rect(u, v, w, h).h = h /\ Right(Rect(u, v, w, h)) = u + w
    BY ONLY <2>1, w \in Nat DEF Rect, Rects, Right
  <2>. QED  BY <2>2, Zenon DEF u, v, h
<1>. HIDE DEF r
<1>6. /\ R \in Seq(Rects) /\ Len(R) = n + 1
      /\ \A i \in 1..n : R[i] = rs[i]
      /\ R[n + 1] = r
  BY <1>1, <1>5
<1>7. x \in Nat /\ st.x + w + c.spacing = x
  BY <1>1, <1>2
<1>. HIDE DEF new, R, x
<1>8. new \in RowStates
  BY <1>1, <1>4, <1>6, <1>7 DEF RowStates
<1>9. ASSUME NEW i \in 1..f - 1 PROVE Placed(R[i], b, st.y)
  <2>1. i \in 1..n
    BY <1>1
  <2>. QED  BY <1>3, <1>6, <2>1
<1>10. ASSUME NEW i \in f..n + 1 PROVE InRow(R[i], b, c, x, st.y)
  <2>1. CASE i = n + 1
    <3>1. R[i] = r
      BY <1>6, <2>1
    <3>2. Right(r) + c.spacing <= b.x + x /\ b.x <= r.x
      <4>1. Right(r) + c.spacing = b.x + x
        BY ONLY <1>0, <1>5, <1>7
      <4>2. b.x + x \in Nat
        BY ONLY <1>0, <1>7
      <4>3. Right(r) + c.spacing <= b.x + x
        BY ONLY <4>1, <4>2
      <4>4. b.x <= r.x
        BY ONLY <1>0, <1>5
      <4>. QED  BY <4>3, <4>4
    <3>. QED  BY <1>5, <3>1, <3>2 DEF InRow
  <2>2. CASE i # n + 1
    <3>1. i \in f..n /\ i \in 1..n
      BY <1>1, <2>2
    <3>2. InRow(rs[i], b, c, st.x, st.y) /\ R[i] = rs[i] /\ rs[i] \in Rects
      BY <1>1, <1>3, <1>6, <3>1
    <3>3. Right(rs[i]) \in Nat
      BY <3>2, RectHas
    <3>4. Right(rs[i]) + c.spacing <= b.x + x
      <4>1. Right(rs[i]) + c.spacing <= b.x + st.x
        BY <3>2 DEF InRow
      <4>. DEFINE e == Right(rs[i])
      <4>2. e \in Nat /\ e + c.spacing <= b.x + st.x
        BY <3>3, <4>1
      <4>. HIDE DEF e
      <4>3. e + c.spacing <= b.x + x
        BY ONLY <1>0, <1>7, <4>2
      <4>. QED  BY <4>3 DEF e
    <3>. QED  BY <3>2, <3>4 DEF InRow
  <2>. QED  BY <2>1, <2>2
<1>11. ASSUME NEW i \in 1..n + 1, NEW j \in 1..n + 1, i < j PROVE LaidAfter(R[i], R[j])
  <2>1. i \in 1..n /\ R[i] = rs[i]
    BY <1>1, <1>6, <1>11
  <2>2. CASE j # n + 1
    <3>1. j \in 1..n
      BY <1>1, <2>2
    <3>. QED  BY <1>3, <1>6, <1>11, <2>1, <3>1
  <2>3. CASE j = n + 1
    <3>1. R[j] = r
      BY <1>6, <2>3
    <3>2. CASE i < f
      <4>1. i \in 1..f - 1
        BY <1>1, <3>2
      <4>2. Bottom(rs[i]) <= r.y
        BY <1>3, <1>5, <4>1 DEF Placed
      <4>3. rs[i] \in Rects
        BY <1>1, <2>1
      <4>. QED  BY <1>5, <2>1, <3>1, <4>2, <4>3, NextIsBelow
    <3>3. CASE f <= i
      <4>1. i \in f..n /\ rs[i] \in Rects
        BY <1>1, <2>1, <3>3
      <4>2. Right(rs[i]) + c.spacing <= b.x + st.x /\ Right(rs[i]) \in Nat
        BY <1>3, <4>1, RectHas DEF InRow
      <4>3. Right(rs[i]) <= r.x
        <5>. DEFINE e == Right(rs[i])
        <5>1. e \in Nat /\ e + c.spacing <= b.x + st.x /\ r.x = b.x + st.x
          BY <1>5, <4>2
        <5>. HIDE DEF e
        <5>2. e <= r.x
          BY ONLY <1>0, <5>1
        <5>. QED  BY <5>2 DEF e
      <4>4. rs[i].y = r.y /\ rs[i].h = r.h
        BY <1>3, <1>5, <4>1 DEF InRow
      <4>. QED  BY <1>5, <2>1, <3>1, <4>1, <4>3, <4>4, NextIsBeside
    <3>. QED  BY <1>1, <3>2, <3>3
  <2>. QED  BY <2>2, <2>3
<1>12. RowFrom(R, f, b.x, b.w, c.spacing)
  <2>1. f \in 1..Len(R)
    BY <1>1, <1>6
  <2>2. R[f].x = b.x
    <3>1. CASE f <= n
      <4>1. f \in 1..n
        BY <1>1, <3>1
      <4>. QED  BY <1>3, <1>6, <3>1, <4>1 DEF RowFrom
    <3>2. CASE f > n
      <4>1. f = n + 1
        BY <1>1, <3>2
      <4>2. st.x = 0
        BY <1>3, <3>2
      <4>. QED  BY <1>2, <1>5, <1>6, <4>1, <4>2
    <3>. QED  BY <1>1, <3>1, <3>2
  <2>3. ASSUME NEW k \in f..Len(R) - 1 PROVE R[k + 1].x = Right(R[k]) + c.spacing
    <3>0. k \in f..n /\ k \in 1..n /\ f <= n
      BY <1>1, <1>6
    <3>1. CASE k = n
      <4>1. R[k + 1] = r /\ R[k] = rs[n]
        BY <1>6, <3>0, <3>1
      <4>. QED  BY <1>3, <1>5, <3>0, <4>1
    <3>2. CASE k # n
      <4>1. k \in f..n - 1 /\ k + 1 \in 1..n
        BY <1>1, <3>0, <3>2
      <4>2. rs[k + 1].x = Right(rs[k]) + c.spacing
        BY <1>3, <3>0, <4>1 DEF RowFrom
      <4>3. R[k + 1] = rs[k + 1] /\ R[k] = rs[k]
        BY <1>6, <3>0, <4>1
      <4>. QED  BY <4>2, <4>3
    <3>. QED  BY <3>1, <3>2
  <2>4. ASSUME f < Len(R) PROVE Right(R[Len(R)]) <= b.x + b.w
    <3>1. f <= n
      BY <1>1, <1>6, <2>4
    <3>2. st.x + w <= b.w
      BY <3>1
    <3>3. R[Len(R)] = r
      BY <1>6
    <3>. QED  BY <1>1, <1>2, <1>5, <3>2, <3>3
  <2>. QED  BY <1>6, <2>1, <2>2, <2>3, <2>4 DEF RowFrom
<1>13. Right(R[n + 1]) + c.spacing = b.x + x
  <2>1. Right(r) + c.spacing = b.x + x
    BY ONLY <1>0, <1>5, <1>7
  <2>. QED  BY <1>6, <2>1
<1>14. Len(new.rects) = n + 1 /\ Clear(new.rects)
  <2>1. DOMAIN R = 1..n + 1
    BY <1>1, <1>6
  <2>. QED  BY <1>4, <1>6, <1>11, <2>1 DEF Clear
<1>15. f <= (n + 1) + 1 /\ ~(f > n + 1)
  BY <1>1
<1>. HIDE DEF n, rs, f
<1>16. RowInv(new, b, c)
  BY <1>4, <1>6, <1>8, <1>9, <1>10, <1>12, <1>13, <1>14, <1>15 DEF RowInv
<1>. QED  BY <1>14, <1>16 DEF new, n, rs

\* addSectionToScene keeps the invariant with every photo.
LEMMA AddToRowKeeps ==
    ASSUME NEW b, NEW c, Measures(b, c), NEW st, RowInv(st, b, c), NEW w \in Nat
    PROVE  /\ RowInv(AddToRow(st, w, b, c), b, c)
           /\ Len(AddToRow(st, w, b, c).rects) = Len(st.rects) + 1
<1>. DEFINE next == NextRow(st, b, c)
<1>1. RowInv(next, b, c) /\ Len(next.rects) = Len(st.rects)
  BY NextRowKeeps
<1>2. st.x \in Nat /\ b.w \in Nat /\ Len(st.rects) \in Nat
  BY RowStateHas DEF RowInv, Measures
<1>3. CASE st.x + w > b.w
  <2>1. AddToRow(st, w, b, c) = PutPhoto(next, w, b, c)
    BY <1>3 DEF AddToRow, PutPhoto, NextRow
  <2>2. next.first = Len(st.rects) + 1
    BY DEF NextRow
  <2>. HIDE DEF next
  <2>3. ~(next.first <= Len(next.rects))
    BY <1>1, <1>2, <2>2
  <2>4. /\ RowInv(PutPhoto(next, w, b, c), b, c)
        /\ Len(PutPhoto(next, w, b, c).rects) = Len(next.rects) + 1
    BY <1>1, <2>3, PutPhotoKeeps
  <2>. QED  BY <1>1, <2>1, <2>4, Zenon
<1>4. CASE ~(st.x + w > b.w)
  <2>1. AddToRow(st, w, b, c) = PutPhoto(st, w, b, c)
    BY <1>4 DEF AddToRow, PutPhoto
  <2>2. st.x + w <= b.w
    BY <1>2, <1>4
  <2>3. /\ RowInv(PutPhoto(st, w, b, c), b, c)
        /\ Len(PutPhoto(st, w, b, c).rects) = Len(st.rects) + 1
    BY <2>2, PutPhotoKeeps
  <2>. QED  BY <2>1, <2>3, Zenon
<1>. QED  BY <1>3, <1>4

LEMMA NoRowIs ==
    ASSUME NEW b, NEW c, Measures(b, c)
    PROVE  RowInv(NoRow, b, c) /\ Len(NoRow.rects) = 0
<1>1. NoRow.rects = <<>> /\ NoRow.first = 1 /\ NoRow.x = 0 /\ NoRow.y = 0
  BY DEF NoRow
<1>2. NoRow \in RowStates
  <2>1. <<>> \in Seq(Rects)
    OBVIOUS
  <2>. QED  BY <2>1 DEF NoRow, RowStates
<1>3. Clear(<<>>)
  BY DEF Clear
<1>4. 1..1 - 1 = {} /\ 1..0 = {} /\ Len(<<>>) = 0
  OBVIOUS
<1>. QED  BY <1>1, <1>2, <1>3, <1>4 DEF RowInv

LEMMA AddPhotosIs ==
    ASSUME NEW b, NEW c, Measures(b, c), NEW widths \in Seq(Nat)
    PROVE  LET end == AddPhotos(widths, b, c)
           IN  RowInv(end, b, c) /\ Len(end.rects) = Len(widths)
<1>. DEFINE n == Len(widths)
            At(f) == [k \in 0..n |-> IF k = 0 THEN NoRow ELSE AddToRow(f[k - 1], widths[k], b, c)]
            st == CHOOSE f : f = At(f)
            S == {s \in RowStates : RowInv(s, b, c)}
<1>1. n \in Nat /\ \A k \in 1..n : widths[k] \in Nat
  OBVIOUS
<1>2. \A s \in S, w \in Nat : AddToRow(s, w, b, c) \in S
  BY AddToRowKeeps DEF RowInv
<1>3. NoRow \in S
  BY NoRowIs DEF RowInv
<1>4. \E f : f = At(f)
  <2>. DEFINE F == [k \in Nat |-> [s \in S |->
                      IF k \in 1..n THEN AddToRow(s, widths[k], b, c) ELSE s]]
  <2>. HIDE DEF S
  <2>1. F \in [Nat -> [S -> S]]
    <3>1. \A k \in Nat, s \in S :
              (IF k \in 1..n THEN AddToRow(s, widths[k], b, c) ELSE s) \in S
      BY <1>1, <1>2
    <3>. HIDE DEF n
    <3>. QED  BY <3>1
  <2>2. \A k \in 1..n, s \in S : F[k][s] = AddToRow(s, widths[k], b, c)
    <3>1. \A k \in 1..n : k \in Nat
      BY <1>1
    <3>. QED  BY <3>1
  <2>. HIDE DEF F
  <2>3. PICK f \in [0..n -> S] : Iterates(f, F, NoRow, 0, n)
    <3>. HIDE DEF n
    <3>1. 0 \in Nat /\ 0 <= n
      BY <1>1
    <3>. QED  BY ONLY <1>1, <1>3, <2>1, <3>1, Iterated
  <2>4. ASSUME NEW k \in 0..n
        PROVE  f[k] = IF k = 0 THEN NoRow ELSE AddToRow(f[k - 1], widths[k], b, c)
    <3>1. CASE k = 0
      BY <2>3, <3>1 DEF Iterates
    <3>2. CASE k # 0
      <4>1. k \in 0 + 1..n /\ k \in 1..n /\ k - 1 \in 0..n
        BY <1>1, <3>2
      <4>2. f[k - 1] \in S
        BY <4>1
      <4>3. f[k] = F[k][f[k - 1]]
        BY <2>3, <4>1 DEF Iterates
      <4>. QED  BY <2>2, <3>2, <4>1, <4>2, <4>3
    <3>. QED  BY <3>1, <3>2
  <2>5. f = At(f)
    BY <2>4
  <2>. QED  BY <2>5
<1>5. st = At(st)
  <2>. HIDE DEF At
  <2>. QED  BY <1>4, Zenon
<1>6. AddPhotos(widths, b, c) = st[n]
  BY Zenon DEF AddPhotos
<1>. HIDE DEF st
<1>7. st[0] = NoRow
  <2>1. 0 \in 0..n
    BY <1>1
  <2>2. st[0] = At(st)[0]
    BY <1>5, Zenon
  <2>. QED  BY <2>1, <2>2
<1>8. ASSUME NEW k \in 0..n - 1 PROVE st[k + 1] = AddToRow(st[k], widths[k + 1], b, c)
  <2>1. k + 1 \in 0..n /\ k + 1 # 0 /\ (k + 1) - 1 = k
    BY <1>1
  <2>2. st[k + 1] = At(st)[k + 1]
    BY <1>5, Zenon
  <2>3. st[k + 1] = AddToRow(st[(k + 1) - 1], widths[k + 1], b, c)
    BY <2>1, <2>2
  <2>. QED  BY <2>1, <2>3, Zenon
<1>. HIDE DEF At
<1>. DEFINE P(k) == RowInv(st[k], b, c) /\ Len(st[k].rects) = k
            N == {k \in Nat : P(k)}
<1>9. 0 \in N
  <2>1. P(0)
    BY <1>7, NoRowIs
  <2>. QED  BY <2>1
<1>10. ASSUME NEW k \in Nat, 0 <= k, k < n, k \in N PROVE k + 1 \in N
  <2>1. k \in 0..n - 1 /\ k + 1 \in 1..n
    BY <1>1, <1>10
  <2>2. P(k)
    BY <1>10
  <2>3. widths[k + 1] \in Nat
    BY <1>1, <2>1
  <2>4. /\ RowInv(AddToRow(st[k], widths[k + 1], b, c), b, c)
        /\ Len(AddToRow(st[k], widths[k + 1], b, c).rects) = Len(st[k].rects) + 1
    BY <2>2, <2>3, AddToRowKeeps
  <2>5. P(k + 1)
    BY <1>8, <2>1, <2>2, <2>4, Zenon
  <2>. HIDE DEF P
  <2>. QED  BY <2>5
<1>11. n \in N
  <2>. HIDE DEF N, P, n
  <2>1. 0 \in Nat /\ 0 <= n
    BY <1>1
  <2>. QED  BY <1>1, <1>9, <1>10, <2>1, Upwards
<1>. QED  BY <1>6, <1>11

\* A photo of a section of the height: only a photo that begins a row may be wider.
InSection(r, b, height) ==
    /\ b.x <= r.x /\ b.y <= r.y /\ Bottom(r) <= b.y + height
    /\ Right(r) <= b.x + b.w \/ r.x = b.x

\* So the photos of a section are in it, the last row included.
LEMMA RowsEnd ==
    ASSUME NEW b, NEW c, Measures(b, c), NEW end, RowInv(end, b, c),
           NEW h \in Nat, end.y + c.height <= h
    PROVE  \A i \in DOMAIN end.rects : InSection(end.rects[i], b, h)
<1>. DEFINE rs == end.rects
            n == Len(rs)
            f == end.first
<1>1. /\ rs \in Seq(Rects) /\ n \in Nat /\ f \in Nat /\ 1 <= f /\ f <= n + 1 /\ DOMAIN rs = 1..n
      /\ end.x \in Nat /\ end.y \in Nat
  BY RowStateHas DEF RowInv
<1>2. /\ b.x \in Nat /\ b.y \in Nat /\ b.w \in Nat
      /\ c.height \in Nat /\ c.spacing \in Nat /\ c.line \in Nat
  BY DEF Measures
<1>3. h \in Nat /\ end.y <= h /\ end.y + c.height <= h
  <2>. DEFINE u == end.y
              v == c.height
  <2>1. u \in Nat /\ v \in Nat /\ u + v <= h
    BY <1>1, <1>2
  <2>. HIDE DEF u, v
  <2>2. u <= h
    BY ONLY <2>1, h \in Nat
  <2>. QED  BY <2>1, <2>2 DEF u, v
<1>4. ASSUME NEW i \in 1..n PROVE InSection(rs[i], b, h)
  <2>. DEFINE r == rs[i]
  <2>1. r \in Rects
    BY <1>1
  <2>2. /\ r.x \in Nat /\ r.y \in Nat /\ r.w \in Nat /\ r.h \in Nat
        /\ Right(r) = r.x + r.w /\ Bottom(r) = r.y + r.h
    BY <2>1, RectHas
  <2>3. CASE i < f
    <3>1. i \in 1..f - 1
      BY <1>1, <2>3
    <3>2. Placed(r, b, end.y)
      BY <3>1 DEF RowInv
    <3>. HIDE DEF r
    <3>3. Placed(r, b, h)
      BY <1>1, <1>3, <2>1, <3>2, PlacedBelow
    <3>4. InSection(r, b, h)
      BY <3>3 DEF Placed, InSection
    <3>. QED  BY <3>4 DEF r
  <2>4. CASE f <= i
    <3>1. i \in f..n /\ f <= n
      BY <1>1, <2>4
    <3>2. InRow(r, b, c, end.x, end.y)
      BY <3>1 DEF RowInv
    <3>3. Bottom(r) <= b.y + h /\ b.y <= r.y
      <4>1. r.y = b.y + end.y /\ r.h = c.height
        BY <3>2 DEF InRow
      <4>. DEFINE u == end.y
                  v == c.height
                  e == b.y
      <4>2. u \in Nat /\ v \in Nat /\ e \in Nat /\ h \in Nat /\ u + v <= h
        BY <1>1, <1>2, <1>3
      <4>3. r.y = e + u /\ Bottom(r) = (e + u) + v
        BY <2>2, <4>1, Zenon
      <4>. HIDE DEF r, u, v, e
      <4>4. (e + u) + v <= e + h /\ e <= e + u
        BY ONLY <4>2
      <4>5. Bottom(r) <= e + h /\ e <= r.y
        BY <4>3, <4>4, Zenon
      <4>. QED  BY <4>5 DEF e
    <3>4. RowFrom(rs, f, b.x, b.w, c.spacing) /\ Right(rs[n]) + c.spacing = b.x + end.x
      BY <3>1 DEF RowInv
    <3>5. Right(r) <= b.x + b.w \/ r.x = b.x
      <4>1. CASE f = n
        <5>1. i = f
          BY <1>1, <3>1, <4>1
        <5>. QED  BY <3>4, <5>1 DEF RowFrom
      <4>2. CASE f # n
        <5>1. f < n
          BY <1>1, <3>1, <4>2
        <5>2. Right(rs[n]) <= b.x + b.w /\ rs[n] \in Rects
          BY <1>1, <3>4, <5>1 DEF RowFrom
        <5>3. Right(r) + c.spacing <= Right(rs[n]) + c.spacing
          BY <3>2, <3>4 DEF InRow
        <5>. DEFINE u == Right(r)
                    v == Right(rs[n])
        <5>4. u \in Nat /\ v \in Nat
          BY <2>1, <5>2, RectHas
        <5>5. v <= b.x + b.w /\ u + c.spacing <= v + c.spacing
          BY <5>2, <5>3
        <5>. HIDE DEF u, v
        <5>6. u <= b.x + b.w
          BY ONLY <1>2, <5>4, <5>5
        <5>. QED  BY <5>6 DEF u
      <4>. QED  BY <4>1, <4>2
    <3>6. b.x <= r.x
      BY <3>2 DEF InRow
    <3>. HIDE DEF r
    <3>7. InSection(r, b, h)
      BY <3>3, <3>5, <3>6 DEF InSection
    <3>. QED  BY <3>7 DEF r
  <2>. QED  BY <1>1, <2>3, <2>4
<1>. QED  BY <1>1, <1>4

\* However wide its photos are, addSectionToScene puts every one of them inside of the
\* section, over no other and ending no higher than the one before it, and reports a
\* height that covers them.
THEOREM SectionsArePlaced ==
    ASSUME NEW b, NEW c, Measures(b, c), NEW widths \in Seq(Nat)
    PROVE  LET section == AddSection(widths, b, c)
           IN  /\ section.rects \in Seq(Rects) /\ Len(section.rects) = Len(widths)
               /\ section.height \in Nat
               /\ Clear(section.rects)
               /\ \A i \in DOMAIN section.rects : InSection(section.rects[i], b, section.height)
<1>. DEFINE end == AddPhotos(widths, b, c)
            rs == end.rects
            n == Len(rs)
            f == end.first
            h == end.y + c.height + c.line
<1>1. RowInv(end, b, c) /\ n = Len(widths)
  BY AddPhotosIs
<1>2. AddSection(widths, b, c) = [rects |-> rs, height |-> h]
  BY DEF AddSection
<1>. HIDE DEF end
<1>3. /\ rs \in Seq(Rects) /\ n \in Nat /\ f \in Nat /\ 1 <= f /\ f <= n + 1 /\ DOMAIN rs = 1..n
      /\ end.x \in Nat /\ end.y \in Nat
  BY <1>1, RowStateHas DEF RowInv
<1>4. /\ b.x \in Nat /\ b.y \in Nat /\ b.w \in Nat
      /\ c.height \in Nat /\ c.spacing \in Nat /\ c.line \in Nat
  BY DEF Measures
<1>5. h \in Nat /\ end.y <= h /\ end.y + c.height <= h
  <2>. DEFINE u == end.y
              v == c.height
              w == c.line
  <2>1. u \in Nat /\ v \in Nat /\ w \in Nat
    BY <1>3, <1>4
  <2>. HIDE DEF u, v, w
  <2>2. u + v + w \in Nat /\ u <= u + v + w /\ u + v <= u + v + w
    BY ONLY <2>1
  <2>. QED  BY <2>2 DEF u, v, w
<1>6. \A i \in 1..n : InSection(rs[i], b, h)
  <2>1. h \in Nat /\ end.y + c.height <= h /\ DOMAIN rs = 1..n
    BY <1>3, <1>5
  <2>. HIDE DEF h
  <2>. QED  BY <1>1, <2>1, RowsEnd
<1>7. Clear(rs)
  BY <1>1 DEF RowInv
<1>. DEFINE section == AddSection(widths, b, c)
<1>8. section.rects = rs /\ section.height = h
  BY <1>2
<1>. HIDE DEF h, rs, section
<1>9. /\ section.rects \in Seq(Rects) /\ Len(section.rects) = Len(widths)
      /\ section.height \in Nat
      /\ Clear(section.rects)
      /\ \A i \in DOMAIN section.rects : InSection(section.rects[i], b, section.height)
  BY <1>1, <1>3, <1>5, <1>6, <1>7, <1>8
<1>. QED  BY <1>9 DEF section

\* A photo between the tops of a scene and y: only one at the margin may be wider.
InBand(r, b, y) ==
    /\ b.x <= r.x /\ b.y <= r.y /\ Bottom(r) <= y
    /\ Right(r) <= b.x + b.w \/ r.x = b.x

\* The inductive invariant of the events of an album or a timeline.
EventInv(st, b) ==
    /\ st \in [rects : Seq(Rects), y : Nat]
    /\ b.y <= st.y
    /\ Clear(st.rects)
    /\ \A i \in DOMAIN st.rects : InBand(st.rects[i], b, st.y)

EventFits(event, before, after) ==
    Widths(event) \in Seq(Nat) /\ before \in Nat /\ after \in Nat

\* An event is added below the others.
Grown(new, st, event, b) ==
    EventInv(new, b) /\ Len(new.rects) = Len(st.rects) + Len(Widths(event))

LEMMA AddEventKeeps ==
    ASSUME NEW b \in Rects, NEW c, Measures(b, c), NEW st, EventInv(st, b),
           NEW event, NEW before, NEW after, EventFits(event, before, after)
    PROVE  Grown(AddEvent(st, event, before, after, b, c), st, event, b)
<1>. DEFINE top == st.y + before
            bb == [b EXCEPT !.y = top]
            section == AddSection(Widths(event), bb, c)
            h == section.height
            q == section.rects
            rs == st.rects
            m == Len(rs)
            n == Len(q)
            R == rs \o q
            y == top + h + after
            new == AddEvent(st, event, before, after, b, c)
<1>0. Widths(event) \in Seq(Nat) /\ before \in Nat /\ after \in Nat
  BY DEF EventFits
<1>1. /\ rs \in Seq(Rects) /\ m \in Nat /\ st.y \in Nat /\ b.y <= st.y
      /\ DOMAIN rs = 1..m
      /\ \A i, j \in 1..m : i < j => LaidAfter(rs[i], rs[j])
      /\ \A i \in 1..m : InBand(rs[i], b, st.y)
  BY DEF EventInv, Clear
<1>2. b.x \in Nat /\ b.y \in Nat /\ b.w \in Nat
  BY DEF Measures
<1>3. top \in Nat /\ st.y <= top /\ b.y <= top
  <2>. DEFINE u == st.y
  <2>1. u \in Nat /\ b.y <= u
    BY <1>1
  <2>. HIDE DEF u
  <2>2. u + before \in Nat /\ u <= u + before /\ b.y <= u + before
    BY ONLY <1>0, <1>2, <2>1
  <2>. QED  BY <2>2 DEF u
<1>4. bb.x = b.x /\ bb.y = top /\ bb.w = b.w
  BY DEF Rects
<1>5. Measures(bb, c)
  BY <1>3, <1>4 DEF Measures
<1>6. /\ q \in Seq(Rects) /\ n = Len(Widths(event)) /\ n \in Nat /\ DOMAIN q = 1..n
      /\ h \in Nat
      /\ \A i, j \in 1..n : i < j => LaidAfter(q[i], q[j])
      /\ \A i \in 1..n : InSection(q[i], bb, h)
  <2>1. /\ q \in Seq(Rects) /\ n = Len(Widths(event)) /\ h \in Nat
        /\ Clear(q) /\ \A i \in DOMAIN q : InSection(q[i], bb, h)
    BY <1>0, <1>5, SectionsArePlaced, Zenon
  <2>2. n \in Nat /\ DOMAIN q = 1..n
    BY <2>1
  <2>. HIDE DEF q, n, bb, h
  <2>. QED  BY <2>1, <2>2 DEF Clear
<1>7. new = [rects |-> R, y |-> y]
  BY DEF AddEvent
<1>. HIDE DEF bb, section, top
<1>8. y \in Nat /\ top + h <= y /\ st.y <= y /\ b.y <= y
  <2>. DEFINE u == st.y
  <2>1. u \in Nat /\ u <= top /\ b.y <= top /\ b.y \in Nat
    BY <1>1, <1>2, <1>3
  <2>. HIDE DEF h, u
  <2>2. y \in Nat /\ top + h <= y /\ u <= y /\ b.y <= y
    BY ONLY <1>0, <1>3, <1>6, <2>1
  <2>. QED  BY <2>2 DEF u
<1>. HIDE DEF y, h, q, rs, new
<1>9. /\ R \in Seq(Rects) /\ Len(R) = m + n /\ DOMAIN R = 1..m + n
      /\ \A i \in 1..m + n : R[i] = IF i <= m THEN rs[i] ELSE q[i - m]
  <2>1. rs \in Seq(Rects) /\ q \in Seq(Rects) /\ m \in Nat /\ n \in Nat
    BY <1>1, <1>6
  <2>2. /\ R \in Seq(Rects) /\ Len(R) = m + n
        /\ \A i \in 1..m + n : R[i] = IF i <= m THEN rs[i] ELSE q[i - m]
    BY ONLY <2>1, ConcatProperties
  <2>. HIDE DEF R, m, n
  <2>. QED  BY <2>1, <2>2
<1>. HIDE DEF R
<1>10. ASSUME NEW i \in 1..m PROVE R[i] = rs[i] /\ Bottom(R[i]) <= st.y /\ InBand(R[i], b, y)
  <2>. DEFINE r == rs[i]
  <2>1. r \in Rects /\ InBand(r, b, st.y)
    BY <1>1
  <2>2. R[i] = r
    BY <1>1, <1>6, <1>9
  <2>3. Bottom(r) \in Nat /\ Bottom(r) <= st.y
    BY <2>1, RectHas DEF InBand
  <2>4. Bottom(r) <= y
    BY ONLY <1>1, <1>8, <2>3
  <2>. HIDE DEF r
  <2>. QED  BY <2>1, <2>2, <2>3, <2>4 DEF InBand, r
<1>11. ASSUME NEW i \in 1..n PROVE top <= q[i].y /\ InBand(q[i], b, y)
  <2>. DEFINE r == q[i]
  <2>1. r \in Rects /\ InSection(r, bb, h)
    BY <1>6
  <2>2. /\ b.x <= r.x /\ top <= r.y /\ Bottom(r) <= top + h
        /\ Right(r) <= b.x + b.w \/ r.x = b.x
    BY <1>4, <2>1 DEF InSection
  <2>3. Bottom(r) \in Nat /\ r.y \in Nat
    BY <2>1, RectHas
  <2>. HIDE DEF r
  <2>4. Bottom(r) <= y /\ b.y <= r.y
    BY ONLY <1>2, <1>3, <1>6, <1>8, <2>2, <2>3
  <2>. QED  BY <2>2, <2>4 DEF InBand, r
<1>12. \A i \in 1..m + n : i \notin 1..m => i - m \in 1..n /\ R[i] = q[i - m]
  <2>. HIDE DEF m, n
  <2>1. ASSUME NEW i \in 1..m + n, i \notin 1..m PROVE i - m \in 1..n /\ ~(i <= m)
    BY ONLY <1>1, <1>6, <2>1, i \in 1..m + n
  <2>. QED  BY ONLY <1>9, <2>1
<1>13. ASSUME NEW i \in 1..m + n PROVE InBand(R[i], b, y)
  BY <1>10, <1>11, <1>12
<1>14. ASSUME NEW i \in 1..m + n, NEW j \in 1..m + n, i < j PROVE LaidAfter(R[i], R[j])
  <2>1. CASE j \in 1..m
    <3>1. i \in 1..m
      BY <1>1, <1>14, <2>1
    <3>. QED  BY <1>1, <1>10, <1>14, <2>1, <3>1
  <2>2. CASE i \in 1..m /\ j \notin 1..m
    <3>1. Bottom(R[i]) <= st.y /\ R[i] \in Rects
      BY <1>9, <1>10, <2>2
    <3>2. top <= R[j].y /\ R[j] \in Rects
      BY <1>9, <1>11, <1>12, <2>2
    <3>. DEFINE u == Bottom(R[i])
                v == R[j].y
    <3>3. u \in Nat /\ v \in Nat /\ u <= st.y /\ top <= v
      BY <3>1, <3>2, RectHas
    <3>. HIDE DEF u, v
    <3>4. u <= v
      BY ONLY <1>1, <1>3, <3>3
    <3>. QED  BY <3>1, <3>2, <3>4, NextIsBelow DEF u, v
  <2>3. CASE i \notin 1..m /\ j \notin 1..m
    <3>1. i - m \in 1..n /\ j - m \in 1..n /\ i - m < j - m
      BY <1>1, <1>12, <1>14, <2>3
    <3>. QED  BY <1>6, <1>12, <2>3, <3>1
  <2>. QED  BY <1>1, <1>14, <2>1, <2>2, <2>3
<1>15. EventInv(new, b) /\ new.rects = R
  <2>1. new.rects = R /\ new.y = y
    BY <1>7
  <2>2. new \in [rects : Seq(Rects), y : Nat]
    BY <1>7, <1>8, <1>9
  <2>3. Clear(R)
    BY <1>9, <1>14 DEF Clear
  <2>4. \A i \in DOMAIN R : InBand(R[i], b, y)
    BY <1>9, <1>13
  <2>. QED  BY <1>8, <2>1, <2>2, <2>3, <2>4 DEF EventInv
<1>16. Len(new.rects) = m + Len(Widths(event))
  BY <1>6, <1>9, <1>15
<1>. QED  BY <1>15, <1>16 DEF new, rs, Grown

\* How many photos the first events have, and all of them.
Counts(total, events, n) ==
    /\ total \in [0..Len(events) -> Nat]
    /\ total[0] = 0
    /\ \A k \in 1..Len(events) : total[k] = total[k - 1] + Len(events[k])
    /\ total[Len(events)] = n

More(t, m, n, total, k) ==
    t \in [0..m -> Nat] /\ t[0] = 0 /\ t[m] = n /\ \A i \in 0..k : t[i] = total[i]

LEMMA OneMore ==
    ASSUME NEW m \in Nat, NEW n \in Nat, NEW total \in [0..m -> Nat], total[0] = 0
    PROVE  /\ \E t : More(t, m + 1, n + 1, total, m)
           /\ m # 0 => \E t : More(t, m, n + 1, total, m - 1)
<1>. DEFINE t == [k \in 0..m + 1 |-> IF k = m + 1 THEN n + 1 ELSE total[k]]
            u == [k \in 0..m |-> IF k = m THEN n + 1 ELSE total[k]]
<1>1. t \in [0..m + 1 -> Nat] /\ u \in [0..m -> Nat]
  <2>1. \A k \in 0..m + 1 : k # m + 1 => total[k] \in Nat
    OBVIOUS
  <2>2. \A k \in 0..m : k # m => total[k] \in Nat
    OBVIOUS
  <2>. QED  BY <2>1, <2>2
<1>2. t[0] = 0 /\ t[m + 1] = n + 1 /\ \A k \in 0..m : t[k] = total[k]
  <2>1. \A k \in 0..m : k \in 0..m + 1 /\ k # m + 1
    OBVIOUS
  <2>2. 0 \in 0..m /\ m + 1 \in 0..m + 1
    OBVIOUS
  <2>. QED  BY <2>1, <2>2
<1>3. ASSUME m # 0 PROVE u[0] = 0 /\ u[m] = n + 1 /\ \A k \in 0..m - 1 : u[k] = total[k]
  <2>1. \A k \in 0..m - 1 : k \in 0..m /\ k # m
    OBVIOUS
  <2>2. 0 \in 0..m - 1 /\ m \in 0..m
    BY <1>3
  <2>. QED  BY <2>1, <2>2
<1>. HIDE DEF t, u
<1>4. More(t, m + 1, n + 1, total, m)
  BY <1>1, <1>2 DEF More
<1>5. m # 0 => More(u, m, n + 1, total, m - 1)
  BY <1>1, <1>3 DEF More
<1>. QED  BY <1>4, <1>5

\* The events are the photos after the first ones, lost of them, in their order.
InOrder(total, events, photos, lost) ==
    \A j \in 1..Len(events) : \A l \in 1..Len(events[j]) :
        events[j][l] = photos[lost + total[j - 1] + l]

Split(events, photos, lost, n) ==
    \E total : Counts(total, events, n) /\ InOrder(total, events, photos, lost)

LEMMA AppendIs ==
    ASSUME NEW S, NEW s \in Seq(S), NEW e \in S
    PROVE  /\ Append(s, e) \in Seq(S) /\ Len(s) \in Nat /\ Len(Append(s, e)) = Len(s) + 1
           /\ Append(s, e)[Len(s) + 1] = e /\ \A k \in 1..Len(s) : Append(s, e)[k] = s[k]
  OBVIOUS

\* A new event is of the next photo.
LEMMA AppendEvent ==
    ASSUME NEW Photos, NEW photos \in Seq(Photos), NEW events \in Seq(Seq(Photos)),
           NEW lost \in Nat, NEW n \in Nat, NEW p \in Photos, p = photos[lost + n + 1],
           Split(events, photos, lost, n)
    PROVE  /\ Append(events, <<p>>) \in Seq(Seq(Photos))
           /\ Split(Append(events, <<p>>), photos, lost, n + 1)
<1>. DEFINE m == Len(events)
            q == Append(events, <<p>>)
<1>0. PICK total : Counts(total, events, n) /\ InOrder(total, events, photos, lost)
  BY DEF Split
<1>1. /\ m \in Nat /\ \A k \in 1..m : events[k] \in Seq(Photos) /\ Len(events[k]) \in Nat
      /\ DOMAIN events = 1..m
  OBVIOUS
<1>2. /\ total \in [0..m -> Nat] /\ total[0] = 0 /\ total[m] = n
      /\ \A k \in 1..m : total[k] = total[k - 1] + Len(events[k])
      /\ \A j \in 1..m : \A l \in 1..Len(events[j]) :
            events[j][l] = photos[lost + total[j - 1] + l]
  BY <1>0 DEF Counts, InOrder
<1>3. <<p>> \in Seq(Photos) /\ Len(<<p>>) = 1 /\ <<p>>[1] = p
  OBVIOUS
<1>4. /\ q \in Seq(Seq(Photos)) /\ Len(q) = m + 1
      /\ q[m + 1] = <<p>> /\ \A k \in 1..m : q[k] = events[k]
  BY ONLY <1>3, events \in Seq(Seq(Photos)), AppendIs
<1>. HIDE DEF q
<1>5. PICK t : More(t, m + 1, n + 1, total, m)
  <2>1. m \in Nat /\ total \in [0..m -> Nat] /\ total[0] = 0
    BY <1>1, <1>2
  <2>. HIDE DEF m
  <2>. QED  BY ONLY <2>1, n \in Nat, OneMore
<1>6. /\ t \in [0..m + 1 -> Nat] /\ t[0] = 0 /\ t[m + 1] = n + 1
      /\ \A k \in 0..m : t[k] = total[k]
  BY <1>5 DEF More
<1>7. m \in 0..m /\ \A k \in 1..m : k \in 0..m /\ k - 1 \in 0..m
  <2>. HIDE DEF m
  <2>. QED  BY ONLY <1>1
<1>8. t[m] = n /\ \A k \in 1..m : t[k] = total[k] /\ t[k - 1] = total[k - 1]
  BY <1>2, <1>6, <1>7
<1>9. ASSUME NEW k \in 1..m + 1
      PROVE  /\ t[k] = t[k - 1] + Len(q[k])
             /\ \A l \in 1..Len(q[k]) : q[k][l] = photos[lost + t[k - 1] + l]
  <2>1. CASE k = m + 1
    <3>1. k - 1 = m
      BY <1>1, <2>1
    <3>2. t[k] = n + 1 /\ t[k - 1] = n /\ q[k] = <<p>>
      BY <1>4, <1>6, <1>8, <2>1, <3>1
    <3>3. \A l \in 1..Len(q[k]) : l = 1
      BY <1>3, <3>2
    <3>. QED  BY <1>3, <3>2, <3>3
  <2>2. CASE k # m + 1
    <3>. HIDE DEF m
    <3>1. k \in 1..m
      <4>1. m \in Nat
        BY <1>1
      <4>. QED  BY ONLY k \in 1..m + 1, <2>2, <4>1
    <3>2. t[k] = total[k] /\ t[k - 1] = total[k - 1] /\ q[k] = events[k]
      BY <1>4, <1>8, <3>1
    <3>3. t[k] = t[k - 1] + Len(q[k])
      BY <1>2, <3>1, <3>2
    <3>. QED  BY <1>2, <3>1, <3>2, <3>3
  <2>. QED  BY <2>1, <2>2
<1>. HIDE DEF m
<1>10. Counts(t, q, n + 1) /\ InOrder(t, q, photos, lost)
  BY <1>4, <1>6, <1>9 DEF Counts, InOrder
<1>. QED  BY <1>4, <1>10 DEF q, Split

\* The last event, e, gets the next photo.
LEMMA ExtendEvent ==
    ASSUME NEW Photos, NEW photos \in Seq(Photos), NEW done \in Seq(Seq(Photos)),
           NEW e \in Seq(Photos), NEW lost \in Nat, NEW n \in Nat, NEW p \in Photos,
           p = photos[lost + n + 1], Split(Append(done, e), photos, lost, n)
    PROVE  Split(Append(done, Append(e, p)), photos, lost, n + 1)
<1>. DEFINE events == Append(done, e)
            f == Append(e, p)
            q == Append(done, f)
            m == Len(done) + 1
<1>0. PICK total : Counts(total, events, n) /\ InOrder(total, events, photos, lost)
  BY DEF Split
<1>1. /\ m \in Nat /\ m # 0 /\ Len(events) = m /\ events[m] = e
      /\ \A k \in 1..m : events[k] \in Seq(Photos) /\ Len(events[k]) \in Nat
  <2>1. /\ events \in Seq(Seq(Photos)) /\ Len(done) \in Nat /\ Len(events) = m
        /\ events[m] = e
    BY ONLY done \in Seq(Seq(Photos)), e \in Seq(Photos), AppendIs
  <2>. HIDE DEF events
  <2>2. \A k \in 1..m : events[k] \in Seq(Photos)
    BY <2>1
  <2>3. \A k \in 1..m : Len(events[k]) \in Nat
    BY <2>2
  <2>4. m \in Nat /\ m # 0
    BY ONLY <2>1
  <2>. HIDE DEF m
  <2>. QED  BY <2>1, <2>2, <2>3, <2>4
<1>2. /\ f \in Seq(Photos) /\ Len(f) = Len(e) + 1 /\ f[Len(e) + 1] = p /\ Len(e) \in Nat
      /\ \A l \in 1..Len(e) : f[l] = e[l]
  OBVIOUS
<1>. HIDE DEF f
<1>3. Len(q) = m /\ q[m] = f /\ \A k \in 1..m : k # m => q[k] = events[k]
  <2>1. /\ Len(done) \in Nat /\ Len(q) = m /\ q[m] = f
        /\ \A k \in 1..Len(done) : q[k] = done[k]
    BY ONLY done \in Seq(Seq(Photos)), <1>2, AppendIs
  <2>2. \A k \in 1..Len(done) : events[k] = done[k]
    BY ONLY done \in Seq(Seq(Photos)), e \in Seq(Photos), AppendIs
  <2>. HIDE DEF q, events
  <2>3. \A k \in 1..m : k # m => k \in 1..Len(done)
    BY <2>1
  <2>. QED  BY <2>1, <2>2, <2>3
<1>. HIDE DEF q, events
<1>4. /\ total \in [0..m -> Nat] /\ total[0] = 0 /\ total[m] = n
      /\ \A k \in 1..m : total[k] = total[k - 1] + Len(events[k])
      /\ \A j \in 1..m : \A l \in 1..Len(events[j]) :
            events[j][l] = photos[lost + total[j - 1] + l]
  BY <1>0, <1>1 DEF Counts, InOrder
<1>. HIDE DEF m
<1>5. PICK t : More(t, m, n + 1, total, m - 1)
  BY ONLY <1>1, <1>4, n \in Nat, OneMore
<1>6. /\ t \in [0..m -> Nat] /\ t[0] = 0 /\ t[m] = n + 1
      /\ \A k \in 0..m - 1 : t[k] = total[k]
  BY <1>5 DEF More
<1>7. ASSUME NEW k \in 1..m
      PROVE  /\ t[k] = t[k - 1] + Len(q[k])
             /\ \A l \in 1..Len(q[k]) : q[k][l] = photos[lost + t[k - 1] + l]
  <2>1. k - 1 \in 0..m - 1 /\ k - 1 \in 0..m /\ (k # m => k \in 0..m - 1)
    BY ONLY k \in 1..m, <1>1
  <2>2. t[k - 1] = total[k - 1] /\ total[k - 1] \in Nat
    BY <1>4, <1>6, <2>1
  <2>3. CASE k = m
    <3>1. n = total[k - 1] + Len(e)
      BY <1>1, <1>4, <2>3
    <3>2. t[k] = n + 1 /\ q[k] = f
      BY <1>3, <1>6, <2>3
    <3>. DEFINE before == total[k - 1]
                size == Len(e)
    <3>0. before \in Nat /\ size \in Nat /\ n = before + size
      BY <1>2, <2>2, <3>1
    <3>. HIDE DEF before, size
    <3>3. t[k] = t[k - 1] + Len(q[k])
      <4>1. t[k] = n + 1 /\ t[k - 1] = before /\ Len(q[k]) = size + 1
        BY <1>2, <2>2, <3>2 DEF before, size
      <4>. QED  BY ONLY <3>0, <4>1
    <3>4. ASSUME NEW l \in 1..Len(q[k]) PROVE q[k][l] = photos[lost + t[k - 1] + l]
      <4>1. CASE l = Len(e) + 1
        <5>1. lost + before + (size + 1) = lost + n + 1
          BY ONLY <3>0, lost \in Nat
        <5>2. t[k - 1] = before /\ l = size + 1
          BY <2>2, <4>1 DEF before, size
        <5>3. lost + t[k - 1] + l = lost + n + 1
          BY ONLY <5>1, <5>2
        <5>. QED  BY <1>2, <3>2, <4>1, <5>3
      <4>2. CASE l # Len(e) + 1
        <5>1. l \in 1..Len(e)
          <6>1. l \in 1..size + 1 /\ l # size + 1
            BY <1>2, <3>2, <4>2 DEF size
          <6>2. l \in 1..size
            BY ONLY <3>0, <6>1
          <6>. QED  BY <6>2 DEF size
        <5>2. e[l] = photos[lost + total[k - 1] + l]
          BY <1>1, <1>4, <2>3, <5>1
        <5>. QED  BY <1>2, <2>2, <3>2, <5>1, <5>2
      <4>. QED  BY <4>1, <4>2
    <3>. QED  BY <3>3, <3>4
  <2>4. CASE k # m
    <3>1. t[k] = total[k] /\ q[k] = events[k]
      BY <1>3, <1>6, <2>1, <2>4
    <3>2. t[k] = t[k - 1] + Len(q[k])
      BY <1>4, <2>2, <3>1
    <3>. QED  BY <1>4, <2>2, <3>1, <3>2
  <2>. QED  BY <2>3, <2>4
<1>8. Counts(t, q, n + 1) /\ InOrder(t, q, photos, lost)
  BY <1>3, <1>6, <1>7 DEF Counts, InOrder
<1>. QED  BY <1>8 DEF q, f, Split

LEMMA SplitNone ==
    ASSUME NEW Photos, NEW photos, NEW lost
    PROVE  <<>> \in Seq(Seq(Photos)) /\ Split(<<>>, photos, lost, 0)
<1>. DEFINE t == [k \in 0..0 |-> 0]
<1>1. t \in [0..0 -> Nat] /\ t[0] = 0 /\ 1..0 = {} /\ Len(<<>>) = 0
  OBVIOUS
<1>. HIDE DEF t
<1>2. Counts(t, <<>>, 0) /\ InOrder(t, <<>>, photos, lost)
  BY <1>1 DEF Counts, InOrder
<1>. QED  BY <1>2 DEF Split

\* Photos as the layouts get them: the times of those with a date are of a later day.
ArePhotos(Photos) ==
    \A p \in Photos : p.w \in Nat /\ p.time \in Nat /\ (p.time = 0 \/ p.time >= 48)

States(Photos) ==
    [done : Seq(Seq(Photos)), infos : Seq(Photos), began : BOOLEAN, end : Nat, last : Nat]

\* The first photo with a date is the one after the lost ones, if an event has begun.
Lost(photos, st, k, lost) ==
    IF st.began THEN /\ lost \in 0..k - 1 /\ photos[lost + 1].time # 0
                     /\ \A i \in 1..lost : photos[i].time = 0
    ELSE lost = 0 /\ \A i \in 1..k : photos[i].time = 0

\* What was collected from the first k photos.
Collects(Photos, photos, st, k) ==
    /\ st \in States(Photos)
    /\ k # 0 => st.infos # <<>>
    /\ ~st.began => st.done = <<>> /\ st.end = 0 /\ st.last = 0
    /\ \E lost \in 0..k : /\ Lost(photos, st, k, lost)
                          /\ Split(Append(st.done, st.infos), photos, lost, k - lost)

\* Before an event has begun, one begins with a photo that has a date and with no other.
LEMMA DatesBegin ==
    ASSUME NEW Photos, ArePhotos(Photos), NEW p \in Photos, NEW layout, NEW st,
           st.end = 0, st.last = 0
    PROVE  StartsEvent(st, p, layout) <=> p.time # 0
<1>1. p.time \in Nat /\ (p.time = 0 \/ p.time >= 48)
  BY DEF ArePhotos
<1>. DEFINE t == p.time
<1>. HIDE DEF t
<1>2. t \in Nat /\ (t = 0 \/ t >= 48)
  BY <1>1 DEF t
<1>3. /\ t - 0 > 2 <=> t # 0
      /\ ~(0 - t > 1)
      /\ t \div 48 # 0 \div 48 <=> t # 0
  BY ONLY <1>2
<1>. QED  BY <1>3 DEF t, StartsEvent, Day

\* One more photo is collected.
LEMMA WithPhotoCollects ==
    ASSUME NEW Photos, ArePhotos(Photos), NEW photos \in Seq(Photos), NEW layout, NEW st,
           NEW k \in Nat, k < Len(photos), Collects(Photos, photos, st, k)
    PROVE  Collects(Photos, photos, WithPhoto(st, photos[k + 1], layout), k + 1)
<1>. DEFINE p == photos[k + 1]
            new == WithPhoto(st, p, layout)
<1>1. p \in Photos /\ p.time \in Nat
  BY DEF ArePhotos
<1>2. st \in States(Photos) /\ (~st.began => st.done = <<>> /\ st.end = 0 /\ st.last = 0)
  BY DEF Collects
<1>3. PICK lost \in 0..k : /\ Lost(photos, st, k, lost)
                           /\ Split(Append(st.done, st.infos), photos, lost, k - lost)
  BY DEF Collects
<1>4. /\ st.done \in Seq(Seq(Photos)) /\ st.infos \in Seq(Photos) /\ st.began \in BOOLEAN
      /\ st.end \in Nat /\ st.last \in Nat
      /\ DOMAIN st = {"done", "infos", "began", "end", "last"}
  BY <1>2 DEF States
<1>5. lost \in Nat /\ k - lost \in Nat /\ p = photos[lost + (k - lost) + 1]
      /\ (k - lost) + 1 = (k + 1) - lost /\ lost \in 0..k + 1
  <2>1. lost + (k - lost) + 1 = k + 1
    BY <1>3
  <2>. QED  BY <1>3, <2>1
<1>. HIDE DEF p
<1>6. CASE StartsEvent(st, p, layout) /\ st.began
  <2>1. /\ new.done = Append(st.done, st.infos) /\ new.infos = <<p>> /\ new.began = TRUE
        /\ new.end = p.time /\ new.last = p.time
        /\ new = [done |-> new.done, infos |-> new.infos, began |-> new.began,
                  end |-> new.end, last |-> new.last]
    BY <1>6 DEF WithPhoto, NewEvent
  <2>. HIDE DEF new
  <2>2. new \in States(Photos) /\ new.infos # <<>>
    <3>1. <<p>> \in Seq(Photos) /\ <<p>> # <<>> /\ Append(st.done, st.infos) \in Seq(Seq(Photos))
      BY <1>1, <1>4
    <3>. QED  BY <1>1, <2>1, <3>1 DEF States
  <2>3. Split(Append(new.done, new.infos), photos, lost, (k + 1) - lost)
    <3>. DEFINE q == Append(st.done, st.infos)
    <3>1. q \in Seq(Seq(Photos))
      BY <1>4
    <3>2. Split(q, photos, lost, k - lost)
      BY <1>3
    <3>. HIDE DEF q
    <3>3. Split(Append(q, <<p>>), photos, lost, (k - lost) + 1)
      BY <1>1, <1>5, <3>1, <3>2, AppendEvent
    <3>. QED  BY <1>5, <2>1, <3>3 DEF q
  <2>4. Lost(photos, new, k + 1, lost)
    BY <1>3, <1>6, <2>1 DEF Lost
  <2>5. Collects(Photos, photos, new, k + 1)
    BY <1>5, <2>1, <2>2, <2>3, <2>4 DEF Collects
  <2>. QED  BY <2>5 DEF new, p
<1>7. CASE StartsEvent(st, p, layout) /\ ~st.began
  <2>1. /\ new.done = <<>> /\ new.infos = <<p>> /\ new.began = TRUE
        /\ new.end = p.time /\ new.last = p.time
        /\ new = [done |-> new.done, infos |-> new.infos, began |-> new.began,
                  end |-> new.end, last |-> new.last]
    BY <1>2, <1>7 DEF WithPhoto, NewEvent
  <2>. HIDE DEF new
  <2>2. new \in States(Photos) /\ new.infos # <<>>
    <3>1. <<p>> \in Seq(Photos) /\ <<p>> # <<>> /\ <<>> \in Seq(Seq(Photos))
      BY <1>1
    <3>. QED  BY <1>1, <2>1, <3>1 DEF States
  <2>3. p.time # 0
    BY <1>1, <1>2, <1>7, DatesBegin
  <2>4. Lost(photos, new, k + 1, k)
    BY <1>3, <1>7, <2>1, <2>3 DEF Lost, p
  <2>5. Split(Append(new.done, new.infos), photos, k, (k + 1) - k)
    <3>. DEFINE none == <<>>
    <3>1. Split(none, photos, k, 0) /\ none \in Seq(Seq(Photos))
      BY SplitNone
    <3>. HIDE DEF none
    <3>2. p = photos[k + 0 + 1] /\ 0 + 1 = (k + 1) - k /\ 0 \in Nat
      BY DEF p
    <3>3. Split(Append(none, <<p>>), photos, k, 0 + 1)
      BY <1>1, <3>1, <3>2, AppendEvent
    <3>. QED  BY <2>1, <3>2, <3>3 DEF none
  <2>6. Collects(Photos, photos, new, k + 1)
    <3>1. k \in 0..k + 1
      OBVIOUS
    <3>. QED  BY <2>1, <2>2, <2>4, <2>5, <3>1 DEF Collects
  <2>. QED  BY <2>6 DEF new, p
<1>8. CASE ~StartsEvent(st, p, layout)
  <2>1. /\ new.done = st.done /\ new.infos = Append(st.infos, p) /\ new.began = st.began
        /\ new.end = st.end /\ new.last = p.time
        /\ DOMAIN new = DOMAIN st
    BY <1>4, <1>8 DEF WithPhoto
  <2>2. new = [done |-> new.done, infos |-> new.infos, began |-> new.began,
               end |-> new.end, last |-> new.last]
    BY <1>2, <1>8 DEF WithPhoto, States
  <2>. HIDE DEF new
  <2>3. new \in States(Photos) /\ new.infos # <<>>
    <3>1. Append(st.infos, p) \in Seq(Photos) /\ Append(st.infos, p) # <<>>
      BY <1>1, <1>4, AppendElements
    <3>. QED  BY <1>1, <1>4, <2>1, <2>2, <3>1 DEF States
  <2>4. ~st.began => p.time = 0
    BY <1>1, <1>2, <1>8, DatesBegin
  <2>5. Lost(photos, new, k + 1, lost)
    BY <1>3, <1>4, <2>1, <2>4 DEF Lost, p
  <2>6. Split(Append(new.done, new.infos), photos, lost, (k + 1) - lost)
    <3>. DEFINE e == st.infos
                done == st.done
    <3>1. e \in Seq(Photos) /\ done \in Seq(Seq(Photos)) /\ Split(Append(done, e), photos, lost, k - lost)
      BY <1>3, <1>4
    <3>. HIDE DEF e, done
    <3>2. Split(Append(done, Append(e, p)), photos, lost, (k - lost) + 1)
      BY <1>1, <1>5, <3>1, ExtendEvent
    <3>. QED  BY <1>5, <2>1, <3>2 DEF e, done
  <2>7. ~new.began => new.done = <<>> /\ new.end = 0 /\ new.last = 0
    BY <1>2, <2>1, <2>4
  <2>8. Collects(Photos, photos, new, k + 1)
    BY <1>5, <2>3, <2>5, <2>6, <2>7 DEF Collects
  <2>. QED  BY <2>8 DEF new, p
<1>. QED  BY <1>6, <1>7, <1>8

\* None of the first events has more photos than all of them.
LEMMA UpToEnd ==
    ASSUME NEW m \in Nat, NEW k \in Nat, NEW t \in [0..m -> Nat], t[m] = k, NEW events,
           \A j \in 1..m : t[j] = t[j - 1] + Len(events[j]) /\ Len(events[j]) \in Nat
    PROVE  \A j \in 0..m : t[j] <= k
<1>. DEFINE N == {i \in Nat : i <= m => t[m - i] <= k}
<1>1. 0 \in N
  BY m - 0 = m
<1>2. ASSUME NEW i \in Nat, 0 <= i, i < m, i \in N PROVE i + 1 \in N
  <2>1. m - i \in 1..m /\ (m - i) - 1 = m - (i + 1) /\ m - (i + 1) \in 0..m /\ m - i \in 0..m
    BY <1>2
  <2>2. t[m - i] <= k /\ t[m - i] \in Nat /\ t[m - (i + 1)] \in Nat
    BY <1>2, <2>1
  <2>3. t[m - i] = t[m - (i + 1)] + Len(events[m - i]) /\ Len(events[m - i]) \in Nat
    BY <2>1
  <2>4. t[m - (i + 1)] <= k
    BY <2>2, <2>3
  <2>. QED  BY <2>4
<1>3. ASSUME NEW j \in 0..m PROVE t[j] <= k
  <2>1. m - j \in Nat /\ 0 <= m - j /\ m - (m - j) = j /\ m - j <= m
    OBVIOUS
  <2>. DEFINE e == m - j
  <2>. HIDE DEF e, N
  <2>2. \A i \in Nat : 0 <= i /\ i < e /\ i \in N => i + 1 \in N
    BY <1>2, <2>1 DEF e
  <2>3. e \in N
    BY <1>1, <2>1, <2>2, Upwards DEF e
  <2>. QED  BY <2>1, <2>3 DEF N, e
<1>. QED  BY <1>3

\* The photos that an album or a timeline keeps are collected.
LEMMA CollectedAre ==
    ASSUME NEW Photos, ArePhotos(Photos), NEW photos \in Seq(Photos), NEW layout
    PROVE  Collects(Photos, photos, Collected(photos, layout), Len(photos))
<1>. DEFINE n == Len(photos)
            S == States(Photos)
            At(f) == [k \in 0..n |->
                         IF k = 0 THEN NoEvent ELSE WithPhoto(f[k - 1], photos[k], layout)]
            st == CHOOSE f : f = At(f)
<1>1. n \in Nat /\ \A k \in 1..n : photos[k] \in Photos
  OBVIOUS
<1>2. ASSUME NEW s \in S, NEW p \in Photos PROVE WithPhoto(s, p, layout) \in S
  <2>1. p.time \in Nat /\ <<p>> \in Seq(Photos)
    BY DEF ArePhotos
  <2>2. /\ s.done \in Seq(Seq(Photos)) /\ s.infos \in Seq(Photos)
        /\ Append(s.infos, p) \in Seq(Photos) /\ Append(s.done, s.infos) \in Seq(Seq(Photos))
    BY DEF States
  <2>3. CASE StartsEvent(s, p, layout)
    BY <2>1, <2>2, <2>3 DEF WithPhoto, NewEvent, States
  <2>4. CASE ~StartsEvent(s, p, layout)
    BY <2>1, <2>2, <2>4 DEF WithPhoto, States
  <2>. QED  BY <2>3, <2>4
<1>3. NoEvent \in S
  BY DEF NoEvent, States
<1>. HIDE DEF S
<1>4. \E f : f = At(f)
  <2>. DEFINE F == [k \in Nat |-> [s \in S |->
                      IF k \in 1..n THEN WithPhoto(s, photos[k], layout) ELSE s]]
  <2>1. F \in [Nat -> [S -> S]]
    <3>1. \A k \in Nat, s \in S :
              (IF k \in 1..n THEN WithPhoto(s, photos[k], layout) ELSE s) \in S
      BY <1>1, <1>2
    <3>. HIDE DEF n
    <3>. QED  BY <3>1
  <2>2. \A k \in 1..n, s \in S : F[k][s] = WithPhoto(s, photos[k], layout)
    <3>1. \A k \in 1..n : k \in Nat
      BY <1>1
    <3>. QED  BY <3>1
  <2>. HIDE DEF F
  <2>3. PICK f \in [0..n -> S] : Iterates(f, F, NoEvent, 0, n)
    <3>. HIDE DEF n
    <3>1. 0 \in Nat /\ 0 <= n
      BY <1>1
    <3>. QED  BY ONLY <1>1, <1>3, <2>1, <3>1, Iterated
  <2>4. ASSUME NEW k \in 0..n
        PROVE  f[k] = IF k = 0 THEN NoEvent ELSE WithPhoto(f[k - 1], photos[k], layout)
    <3>1. CASE k = 0
      BY <2>3, <3>1 DEF Iterates
    <3>2. CASE k # 0
      <4>1. k \in 0 + 1..n /\ k \in 1..n /\ k - 1 \in 0..n
        BY <1>1, <3>2
      <4>2. f[k - 1] \in S
        BY <4>1
      <4>3. f[k] = F[k][f[k - 1]]
        BY <2>3, <4>1 DEF Iterates
      <4>. QED  BY <2>2, <3>2, <4>1, <4>2, <4>3
    <3>. QED  BY <3>1, <3>2
  <2>5. f = At(f)
    BY <2>4
  <2>. QED  BY <2>5
<1>5. st = At(st)
  <2>. HIDE DEF At
  <2>. QED  BY <1>4, Zenon
<1>6. Collected(photos, layout) = st[n]
  BY Zenon DEF Collected
<1>. HIDE DEF st
<1>7. st[0] = NoEvent
  <2>1. 0 \in 0..n
    BY <1>1
  <2>2. st[0] = At(st)[0]
    BY <1>5, Zenon
  <2>. QED  BY <2>1, <2>2
<1>8. ASSUME NEW k \in 0..n - 1 PROVE st[k + 1] = WithPhoto(st[k], photos[k + 1], layout)
  <2>1. k + 1 \in 0..n /\ k + 1 # 0 /\ (k + 1) - 1 = k
    BY <1>1
  <2>2. st[k + 1] = At(st)[k + 1]
    BY <1>5, Zenon
  <2>3. st[k + 1] = WithPhoto(st[(k + 1) - 1], photos[k + 1], layout)
    BY <2>1, <2>2
  <2>. QED  BY <2>1, <2>3, Zenon
<1>. HIDE DEF At
<1>. DEFINE N == {k \in Nat : Collects(Photos, photos, st[k], k)}
<1>9. 0 \in N
  <2>. DEFINE none == <<>>
  <2>1. Split(none, photos, 0, 0) /\ none \in Seq(Seq(Photos))
    BY SplitNone
  <2>2. Split(Append(none, <<>>), photos, 0, 0 - 0)
    <3>. DEFINE t == [k \in 0..1 |-> 0]
    <3>1. t \in [0..1 -> Nat] /\ t[0] = 0 /\ t[1] = 0 /\ 1..1 = {1} /\ 0 - 0 = 0
      OBVIOUS
    <3>. DEFINE q == Append(none, <<>>)
    <3>2. Len(q) = 1 /\ q[1] = <<>> /\ Len(q[1]) = 0 /\ 1..0 = {}
      OBVIOUS
    <3>. HIDE DEF t, q
    <3>3. Counts(t, q, 0) /\ InOrder(t, q, photos, 0)
      BY <3>1, <3>2 DEF Counts, InOrder
    <3>. QED  BY <3>1, <3>3 DEF Split, q
  <2>3. /\ NoEvent.done = none /\ NoEvent.infos = <<>> /\ ~NoEvent.began
        /\ NoEvent.end = 0 /\ NoEvent.last = 0
    BY DEF NoEvent
  <2>4. Lost(photos, NoEvent, 0, 0) /\ 0 \in 0..0
    BY <2>3 DEF Lost
  <2>5. Collects(Photos, photos, NoEvent, 0)
    BY <1>3, <2>2, <2>3, <2>4 DEF Collects, S
  <2>. QED  BY <1>7, <2>5
<1>10. ASSUME NEW k \in Nat, 0 <= k, k < n, k \in N PROVE k + 1 \in N
  <2>1. k \in 0..n - 1 /\ k + 1 \in Nat
    BY <1>1, <1>10
  <2>2. Collects(Photos, photos, st[k], k)
    BY <1>10
  <2>3. Collects(Photos, photos, WithPhoto(st[k], photos[k + 1], layout), k + 1)
    BY <1>10, <2>2, WithPhotoCollects
  <2>. QED  BY <1>8, <2>1, <2>3
<1>11. n \in N
  <2>. HIDE DEF N, n
  <2>1. 0 \in Nat /\ 0 <= n
    BY <1>1
  <2>. QED  BY <1>1, <1>9, <1>10, <2>1, Upwards
<1>. QED  BY <1>6, <1>11

\* The events of an album or a timeline are the photos it keeps, in their order.
EventsAre(events, kept) == Split(events, kept, 0, Len(kept))

THEOREM EventsAreKept ==
    ASSUME NEW Photos, ArePhotos(Photos), NEW photos \in Seq(Photos), NEW layout
    PROVE  /\ Events(photos, layout) \in Seq(Seq(Photos))
           /\ PhotosKept(photos) \in Seq(Photos)
           /\ EventsAre(Events(photos, layout), PhotosKept(photos))
<1>. DEFINE n == Len(photos)
            st == Collected(photos, layout)
            events == Events(photos, layout)
            kept == PhotosKept(photos)
<1>1. Collects(Photos, photos, st, n) /\ n \in Nat
  BY CollectedAre
<1>2. PICK lost \in 0..n : /\ Lost(photos, st, n, lost)
                           /\ Split(Append(st.done, st.infos), photos, lost, n - lost)
  BY <1>1 DEF Collects
<1>. HIDE DEF st
<1>3. /\ st.done \in Seq(Seq(Photos)) /\ st.infos \in Seq(Photos) /\ st.began \in BOOLEAN
      /\ n # 0 => st.infos # <<>>
  BY <1>1 DEF Collects, States
<1>4. /\ kept \in Seq(Photos) /\ Len(kept) = n - lost
      /\ \A i \in 1..n - lost : kept[i] = photos[lost + i]
  <2>. DEFINE D == WithDate(photos)
  <2>1. D = {i \in 1..n : photos[i].time # 0}
    BY DEF WithDate
  <2>. HIDE DEF D
  <2>2. CASE ~st.began
    <3>1. lost = 0 /\ D = {}
      BY <1>2, <2>1, <2>2 DEF Lost
    <3>. QED  BY <3>1 DEF PhotosKept, D
  <2>3. CASE st.began
    <3>1. /\ lost \in 0..n - 1 /\ photos[lost + 1].time # 0
          /\ \A i \in 1..lost : photos[i].time = 0
      BY <1>2, <2>3 DEF Lost
    <3>2. lost + 1 \in D /\ D \in SUBSET Nat
      BY <1>1, <2>1, <3>1
    <3>3. Min(D) \in D /\ \A j \in D : Min(D) <= j
      BY ONLY <3>2, MinOfNaturals
    <3>4. Min(D) = lost + 1
      <4>. DEFINE d == Min(D)
      <4>1. d \in 1..n /\ photos[d].time # 0 /\ d <= lost + 1
        BY <2>1, <3>2, <3>3
      <4>. HIDE DEF d
      <4>2. d \notin 1..lost
        BY <3>1, <4>1
      <4>3. d = lost + 1
        BY <1>1, <3>1, <4>1, <4>2
      <4>. QED  BY <4>3 DEF d
    <3>5. kept = SubSeq(photos, lost + 1, n)
      BY <3>2, <3>4 DEF PhotosKept, D
    <3>. HIDE DEF kept
    <3>. QED  BY <1>1, <3>1, <3>5
  <2>. QED  BY <1>3, <2>2, <2>3
<1>. HIDE DEF kept
<1>5. events = EventsOf(st)
  BY DEF Events, st
<1>6. events \in Seq(Seq(Photos)) /\ Split(events, photos, lost, n - lost)
  <2>1. CASE st.infos = <<>>
    <3>1. n = 0 /\ lost = 0
      BY <1>2, <1>3, <2>1
    <3>2. ~st.began
      BY <1>2, <1>3, <3>1 DEF Lost
    <3>3. events = <<>>
      BY <1>1, <1>5, <2>1, <3>2 DEF Collects, EventsOf
    <3>4. n - lost = 0
      BY <3>1
    <3>. HIDE DEF events
    <3>. QED  BY <3>3, <3>4, SplitNone
  <2>2. CASE st.infos # <<>>
    <3>1. events = Append(st.done, st.infos)
      BY <1>5, <2>2 DEF EventsOf
    <3>2. Append(st.done, st.infos) \in Seq(Seq(Photos))
      BY <1>3
    <3>. HIDE DEF events
    <3>. QED  BY <1>2, <3>1, <3>2
  <2>. QED  BY <2>1, <2>2
<1>. HIDE DEF events
<1>7. EventsAre(events, kept)
  <2>. DEFINE k == n - lost
              m == Len(events)
  <2>0. k \in Nat /\ m \in Nat
    BY <1>1, <1>2, <1>6
  <2>1. PICK t : Counts(t, events, k) /\ InOrder(t, events, photos, lost)
    BY <1>6 DEF Split
  <2>2. /\ t \in [0..m -> Nat] /\ t[m] = k
        /\ \A j \in 1..m : t[j] = t[j - 1] + Len(events[j]) /\ Len(events[j]) \in Nat
    BY <1>6, <2>1 DEF Counts
  <2>. HIDE DEF m, k
  <2>3. \A j \in 0..m : t[j] <= k
    BY <2>0, <2>2, UpToEnd
  <2>4. ASSUME NEW j \in 1..m, NEW l \in 1..Len(events[j])
        PROVE  events[j][l] = kept[0 + t[j - 1] + l]
    <3>1. j \in 0..m /\ j - 1 \in 0..m
      BY <2>0
    <3>2. t[j] \in Nat /\ t[j - 1] \in Nat /\ t[j] <= k
      BY <2>2, <2>3, <3>1
    <3>. DEFINE i == t[j - 1] + l
    <3>3. i \in 1..k /\ i = 0 + t[j - 1] + l /\ lost + i = lost + t[j - 1] + l
      <4>. DEFINE a == t[j - 1]
                  z == t[j]
                  size == Len(events[j])
      <4>1. /\ a \in Nat /\ z \in Nat /\ z <= k /\ size \in Nat /\ z = a + size
            /\ l \in 1..size /\ k \in Nat /\ lost \in Nat
        BY <1>2, <2>0, <2>2, <3>2
      <4>. HIDE DEF a, z, size
      <4>2. a + l \in 1..k /\ a + l = 0 + a + l /\ lost + (a + l) = lost + a + l
        BY ONLY <4>1
      <4>. QED  BY <4>2 DEF a
    <3>. HIDE DEF i
    <3>4. events[j][l] = photos[lost + t[j - 1] + l]
      BY <2>1 DEF InOrder, m
    <3>5. kept[i] = photos[lost + i]
      BY <1>4, <3>3 DEF k
    <3>. QED  BY <3>3, <3>4, <3>5
  <2>5. InOrder(t, events, kept, 0) /\ Counts(t, events, Len(kept))
    BY <1>4, <2>1, <2>4 DEF InOrder, m, k
  <2>. QED  BY <2>5 DEF EventsAre, Split
<1>. QED  BY <1>4, <1>6, <1>7 DEF events, kept

LEMMA WidthsAre ==
    ASSUME NEW Photos, \A p \in Photos : p.w \in Nat, NEW event \in Seq(Photos)
    PROVE  Widths(event) \in Seq(Nat) /\ Len(Widths(event)) = Len(event)
<1>1. Widths(event) = [i \in 1..Len(event) |-> event[i].w] /\ Len(event) \in Nat
  BY DEF Widths
<1>2. \A i \in 1..Len(event) : event[i].w \in Nat
  OBVIOUS
<1>. QED  BY <1>1, <1>2

\* Events of n photos with the space before and after each.
EventsToPlace(Photos, events, before, after, total, n) ==
    /\ \A p \in Photos : p.w \in Nat
    /\ events \in Seq(Seq(Photos))
    /\ before \in [DOMAIN events -> Nat] /\ after \in [DOMAIN events -> Nat]
    /\ Counts(total, events, n)

\* However the photos are split into events, LayoutAlbum and LayoutTimeline put every
\* photo below those of the events before and over no other.
THEOREM EventsArePlaced ==
    ASSUME NEW b \in Rects, NEW c, Measures(b, c),
           NEW Photos, NEW events, NEW before, NEW after, NEW n, NEW total,
           EventsToPlace(Photos, events, before, after, total, n)
    PROVE  LET st == LayoutEvents(events, b, c, before, after)
           IN  EventInv(st, b) /\ Len(st.rects) = n
<1>. DEFINE m == Len(events)
            none == [rects |-> <<>>, y |-> b.y]
            With(s, k) == AddEvent(s, events[k], before[k], after[k], b, c)
            At(f) == [k \in 0..m |->
                         IF k = 0 THEN [rects |-> <<>>, y |-> b.y]
                         ELSE AddEvent(f[k - 1], events[k], before[k], after[k], b, c)]
            st == CHOOSE f : f = At(f)
            S == {s \in [rects : Seq(Rects), y : Nat] : EventInv(s, b)}
<1>0. /\ \A p \in Photos : p.w \in Nat
      /\ events \in Seq(Seq(Photos))
      /\ before \in [DOMAIN events -> Nat] /\ after \in [DOMAIN events -> Nat]
      /\ Counts(total, events, n)
  BY DEF EventsToPlace
<1>1. /\ m \in Nat /\ DOMAIN events = 1..m
      /\ \A k \in 1..m : events[k] \in Seq(Photos) /\ before[k] \in Nat /\ after[k] \in Nat
  BY <1>0
<1>2. ASSUME NEW s, EventInv(s, b), NEW k \in 1..m
      PROVE  /\ EventInv(With(s, k), b)
             /\ Len(With(s, k).rects) = Len(s.rects) + Len(events[k])
  <2>1. events[k] \in Seq(Photos) /\ before[k] \in Nat /\ after[k] \in Nat
    BY <1>1
  <2>. DEFINE e == events[k]
              u == before[k]
              v == after[k]
  <2>2. Widths(e) \in Seq(Nat) /\ Len(Widths(e)) = Len(e)
    <3>. HIDE DEF e
    <3>1. e \in Seq(Photos)
      BY <2>1 DEF e
    <3>. QED  BY <1>0, <3>1, WidthsAre, Zenon
  <2>3. u \in Nat /\ v \in Nat
    BY <2>1
  <2>. HIDE DEF e, u, v
  <2>4. EventInv(s, b) /\ EventFits(e, u, v)
    BY <1>2, <2>2, <2>3 DEF EventFits
  <2>5. Grown(AddEvent(s, e, u, v, b, c), s, e, b)
    BY ONLY b \in Rects, Measures(b, c), <2>4, AddEventKeeps
  <2>. QED  BY <2>2, <2>5, Zenon DEF Grown, e, u, v
<1>3. EventInv(none, b) /\ Len(none.rects) = 0
  <2>1. none.rects = <<>> /\ none.y = b.y /\ b.y \in Nat /\ <<>> \in Seq(Rects) /\ DOMAIN <<>> = {}
    BY DEF Measures
  <2>2. none \in [rects : Seq(Rects), y : Nat]
    BY <2>1
  <2>. HIDE DEF none
  <2>3. b.y <= none.y /\ Clear(none.rects)
    BY <2>1 DEF Clear
  <2>. QED  BY <2>1, <2>2, <2>3 DEF EventInv
<1>4. \E f : f = At(f)
  <2>. DEFINE F == [k \in Nat |-> [s \in S |-> IF k \in 1..m THEN With(s, k) ELSE s]]
  <2>0. \A s \in S, k \in 1..m : With(s, k) \in S
    <3>. HIDE DEF With
    <3>. QED  BY <1>2 DEF EventInv
  <2>00. none \in S
    <3>. HIDE DEF none
    <3>. QED  BY <1>3 DEF EventInv
  <2>. HIDE DEF S, With
  <2>1. F \in [Nat -> [S -> S]]
    <3>1. \A k \in Nat, s \in S : (IF k \in 1..m THEN With(s, k) ELSE s) \in S
      BY <2>0
    <3>. HIDE DEF m
    <3>. QED  BY <3>1
  <2>2. \A k \in 1..m, s \in S : F[k][s] = With(s, k)
    <3>1. \A k \in 1..m : k \in Nat
      BY <1>1
    <3>. QED  BY <3>1
  <2>. HIDE DEF F
  <2>3. PICK f \in [0..m -> S] : Iterates(f, F, none, 0, m)
    <3>1. m \in Nat
      BY <1>1
    <3>. HIDE DEF m, none
    <3>2. 0 \in Nat /\ 0 <= m
      BY <3>1
    <3>. QED  BY ONLY <2>00, <2>1, <3>1, <3>2, Iterated
  <2>4. ASSUME NEW k \in 0..m
        PROVE  f[k] = IF k = 0 THEN none ELSE With(f[k - 1], k)
    <3>. HIDE DEF none
    <3>1. CASE k = 0
      BY <2>3, <3>1 DEF Iterates
    <3>2. CASE k # 0
      <4>1. k \in 0 + 1..m /\ k \in 1..m /\ k - 1 \in 0..m
        BY <1>1, <3>2
      <4>2. f[k - 1] \in S
        BY <4>1
      <4>3. f[k] = F[k][f[k - 1]]
        BY <2>3, <4>1 DEF Iterates
      <4>. QED  BY <2>2, <3>2, <4>1, <4>2, <4>3
    <3>. QED  BY <3>1, <3>2
  <2>5. f = [k \in 0..m |-> IF k = 0 THEN none ELSE With(f[k - 1], k)]
    <3>. HIDE DEF none
    <3>. QED  BY <2>4
  <2>6. f = At(f)
    BY <2>5, Zenon DEF With
  <2>. QED  BY <2>6
<1>5. st = At(st)
  <2>. HIDE DEF At
  <2>. QED  BY <1>4, Zenon
<1>6. LayoutEvents(events, b, c, before, after) = st[m]
  BY Zenon DEF LayoutEvents
<1>. HIDE DEF st
<1>7. st[0] = none
  <2>1. 0 \in 0..m
    BY <1>1
  <2>2. st[0] = At(st)[0]
    BY <1>5, Zenon
  <2>. QED  BY <2>1, <2>2
<1>8. ASSUME NEW k \in 0..m - 1 PROVE st[k + 1] = With(st[k], k + 1)
  <2>1. k + 1 \in 0..m /\ k + 1 # 0 /\ (k + 1) - 1 = k
    BY <1>1
  <2>2. st[k + 1] = At(st)[k + 1]
    BY <1>5, Zenon
  <2>3. st[k + 1] = With(st[(k + 1) - 1], k + 1)
    BY <2>1, <2>2
  <2>. QED  BY <2>1, <2>3, Zenon
<1>. HIDE DEF At, none, With
<1>9. /\ total \in [0..m -> Nat] /\ total[0] = 0 /\ total[m] = n
      /\ \A k \in 1..m : total[k] = total[k - 1] + Len(events[k])
  BY <1>0 DEF Counts
<1>. DEFINE P(k) == EventInv(st[k], b) /\ Len(st[k].rects) = total[k]
            N == {k \in Nat : P(k)}
<1>10. 0 \in N
  <2>1. P(0)
    BY <1>3, <1>7, <1>9, Zenon
  <2>. HIDE DEF P
  <2>. QED  BY <2>1
<1>11. ASSUME NEW k \in Nat, 0 <= k, k < m, k \in N PROVE k + 1 \in N
  <2>1. k \in 0..m - 1 /\ k + 1 \in 1..m /\ (k + 1) - 1 = k
    BY <1>1, <1>11
  <2>2. P(k)
    BY <1>11
  <2>3. /\ EventInv(With(st[k], k + 1), b)
        /\ Len(With(st[k], k + 1).rects) = Len(st[k].rects) + Len(events[k + 1])
    BY <1>2, <2>1, <2>2
  <2>4. total[k + 1] = total[k] + Len(events[k + 1])
    BY <1>9, <2>1
  <2>5. P(k + 1)
    BY <1>8, <2>1, <2>2, <2>3, <2>4, Zenon
  <2>. HIDE DEF P
  <2>. QED  BY <2>5
<1>12. m \in N
  <2>. HIDE DEF N, P, m
  <2>1. 0 \in Nat /\ 0 <= m
    BY <1>1
  <2>. QED  BY <1>1, <1>10, <1>11, <2>1, Upwards
<1>. QED  BY <1>6, <1>9, <1>12

\* Of two tiles next to each other, one shows a place.
LEMMA TilesMeet ==
    ASSUME NEW side \in Nat, NEW p \in Nat, p <= side
    PROVE  \E k \in 0..1 :
              /\ (side * k) \div 2^1 <= p
              /\ p <= (side * k) \div 2^1 + ((side * (k + 1)) \div 2^1 - (side * k) \div 2^1)
              /\ (side * k) \div 2^1 \in Nat
<1>. DEFINE At(k) == (side * k) \div 2^1
            half == At(1)
<1>1. 2^1 = 2
  OBVIOUS
<1>2. At(0) = 0
  <2>1. side * 0 = 0
    OBVIOUS
  <2>2. 0 \div 2 = 0
    OBVIOUS
  <2>. QED  BY <1>1, <2>1, <2>2
<1>3. At(2) = side
  <2>. DEFINE q == (side * 2) \div 2
  <2>1. q \in Nat /\ q * 2 <= side * 2 /\ side * 2 < q * 2 + 2
    <3>1. side * 2 \in Nat /\ 2 \in Nat \ {0}
      OBVIOUS
    <3>. QED  BY <3>1, DivIs
  <2>. HIDE DEF q
  <2>2. q = side
    BY <2>1
  <2>. QED  BY <1>1, <2>2 DEF q
<1>4. half \in Nat
  <2>1. side * 1 \in Nat /\ 2 \in Nat \ {0}
    OBVIOUS
  <2>. QED  BY <1>1, <2>1, DivIs
<1>. HIDE DEF At, half
<1>5. At(1) = half
  BY DEF half
<1>6. CASE p <= half
  <2>1. At(0) <= p /\ p <= At(0) + (At(0 + 1) - At(0)) /\ At(0) \in Nat
    BY <1>2, <1>4, <1>5, <1>6
  <2>2. 0 \in 0..1
    OBVIOUS
  <2>. QED  BY <2>1, <2>2 DEF At
<1>7. CASE ~(p <= half)
  <2>1. At(1) <= p /\ p <= At(1) + (At(1 + 1) - At(1)) /\ At(1) \in Nat
    BY <1>3, <1>4, <1>5, <1>7
  <2>2. 1 \in 0..1
    OBVIOUS
  <2>. QED  BY <2>1, <2>2 DEF At
<1>. QED  BY <1>6, <1>7

\* So a photo that begins in the scene is in one of the four tiles of the first zoom.
LEMMA TilesShow ==
    ASSUME NEW rects \in Seq(Rects), NEW width \in Nat, NEW height \in Nat, NEW photos,
           \A i \in DOMAIN rects : rects[i].x <= width /\ rects[i].y <= height,
           Len(photos) = Len(rects), InPlace(Scene(rects, width, height), Len(rects))
    PROVE  WellPlaced(photos, Scene(rects, width, height))
<1>. DEFINE laid == Scene(rects, width, height)
            side == Max({width, height})
            At(k) == (side * k) \div 2^1
            Tile(x, y) == Rect(At(x), At(y), At(x + 1) - At(x), At(y + 1) - At(y))
<1>1. laid.rects = rects /\ laid.bounds.w = width /\ laid.bounds.h = height
  BY DEF Scene, Rect
<1>2. side \in Nat /\ width <= side /\ height <= side
  <2>. DEFINE I == {width, height}
  <2>1. I \in SUBSET Nat /\ I # {} /\ width + height \in Nat /\ width \in I /\ height \in I
    OBVIOUS
  <2>2. \A i \in I : i <= width + height
    OBVIOUS
  <2>. HIDE DEF I
  <2>3. Max(I) \in I /\ \A j \in I : j <= Max(I)
    BY <2>1, <2>2, MaxOfNaturals
  <2>. QED  BY <2>1, <2>3 DEF I
<1>3. \A x, y : TileRect(laid, 1, x, y) = Tile(x, y)
  BY <1>1, Zenon DEF TileRect
<1>. HIDE DEF laid, side
<1>4. ASSUME NEW i \in DOMAIN rects
      PROVE  \E x, y \in 0..1 : IsVisible(rects[i], Tile(x, y))
  <2>. DEFINE r == rects[i]
  <2>1. r \in Rects /\ r.x <= width /\ r.y <= height
    OBVIOUS
  <2>2. /\ r.x \in Nat /\ r.y \in Nat /\ r.w \in Nat /\ r.h \in Nat
        /\ Right(r) = r.x + r.w /\ Bottom(r) = r.y + r.h
    BY <2>1, RectHas
  <2>. HIDE DEF r
  <2>3. r.x <= side /\ r.y <= side
    BY <1>2, <2>1, <2>2
  <2>4. PICK x \in 0..1 : At(x) <= r.x /\ r.x <= At(x) + (At(x + 1) - At(x)) /\ At(x) \in Nat
    BY <1>2, <2>2, <2>3, TilesMeet
  <2>5. PICK y \in 0..1 : At(y) <= r.y /\ r.y <= At(y) + (At(y + 1) - At(y)) /\ At(y) \in Nat
    BY <1>2, <2>2, <2>3, TilesMeet
  <2>. DEFINE t == Tile(x, y)
  <2>6. /\ t.x = At(x) /\ t.y = At(y)
        /\ Right(t) = At(x) + (At(x + 1) - At(x)) /\ Bottom(t) = At(y) + (At(y + 1) - At(y))
    BY DEF Rect, Right, Bottom
  <2>. HIDE DEF At, t
  <2>7. /\ r.x <= Right(t) /\ r.y <= Bottom(t)
    BY <2>4, <2>5, <2>6
  <2>8. Right(r) >= t.x /\ Bottom(r) >= t.y
    <3>1. Right(r) >= r.x /\ Bottom(r) >= r.y /\ Right(r) \in Nat /\ Bottom(r) \in Nat
      BY <2>2
    <3>2. t.x \in Nat /\ t.y \in Nat /\ t.x <= r.x /\ t.y <= r.y
      BY <2>4, <2>5, <2>6
    <3>. QED  BY ONLY <2>2, <3>1, <3>2
  <2>9. IsVisible(r, t)
    BY <2>7, <2>8 DEF IsVisible
  <2>. QED  BY <2>9, Zenon DEF r, t
<1>. HIDE DEF Tile
<1>5. ASSUME NEW i \in DOMAIN rects
      PROVE  \E x, y \in 0..1 : i \in Visible(laid, TileRect(laid, 1, x, y))
  BY <1>1, <1>3, <1>4 DEF Visible
<1>6. InPlace(laid, Len(photos))
  BY DEF laid
<1>7. WellPlaced(photos, laid)
  BY <1>1, <1>5, <1>6 DEF WellPlaced
<1>. QED  BY <1>7 DEF laid

\* The settings of a layout.
Settings == [height : Nat, spacing : Nat, line : Nat, viewHeight : Nat, shuffled : BOOLEAN]

LEMMA InsideIs ==
    ASSUME NEW width \in Nat, width >= 2 * Margin
    PROVE  /\ Inside(width) \in Rects
           /\ Inside(width).x = 10 /\ Inside(width).y = 74 /\ Inside(width).w = width - 20
           /\ width - 20 \in Nat
<1>1. width - 20 \in Nat
  BY DEF Margin
<1>2. Inside(width) = [x |-> 10, y |-> 74, w |-> width - 20, h |-> 0]
  BY DEF Inside, Rect, Margin
<1>. QED  BY <1>1, <1>2 DEF Rects

LEMMA MeasuresAre ==
    ASSUME NEW width \in Nat, width >= 2 * Margin, NEW c \in Settings
    PROVE  Measures(Inside(width), c)
BY InsideIs DEF Measures, Settings

\* A photo in a scene of the width and the height: only one at the margin may be wider.
Fits(r, width, height) == Bottom(r) <= height /\ (Right(r) <= width \/ r.x = Margin)

LEMMA BandsFit ==
    ASSUME NEW width \in Nat, width >= 2 * Margin, NEW r \in Rects, NEW y \in Nat,
           InBand(r, Inside(width), y)
    PROVE  Fits(r, width, y + Margin)
<1>1. Bottom(r) <= y /\ (Right(r) <= 10 + (width - 20) \/ r.x = 10)
  BY InsideIs DEF InBand
<1>2. Right(r) \in Nat /\ Bottom(r) \in Nat
  BY RectHas
<1>. QED  BY <1>1, <1>2 DEF Fits, Margin

\* Row y of a scroll bar stops at photos that end below y + (y + 0.5) / height, which
\* lies within the row: those passed end above the end of the row, and the others
\* below its begin.
LEMMA RowsMeasure ==
    ASSUME NEW B \in Nat, NEW H \in Nat, NEW h \in Nat \ {0}, NEW y \in 0..h - 1
    PROVE  /\ 2 * h * h * B <= (2 * h * y + 2 * y + 1) * H => B * h <= (y + 1) * H
           /\ ~(2 * h * h * B <= (2 * h * y + 2 * y + 1) * H) => B * h >= y * H
<1>. DEFINE p == B * h
            q == y * H
            m == (2 * y + 1) * H
<1>1. y \in Nat /\ 2 * y + 1 <= 2 * h /\ p \in Nat /\ q \in Nat /\ m \in Nat
  OBVIOUS
<1>2. /\ 2 * h * h * B = (2 * h) * p
      /\ (2 * h * y + 2 * y + 1) * H = (2 * h) * q + m
      /\ (y + 1) * H = q + H
  BY <1>1, Z3
<1>3. m <= (2 * h) * H
  BY <1>1, Z3
<1>. HIDE DEF p, q, m
<1>4. ASSUME (2 * h) * p <= (2 * h) * q + m PROVE p <= q + H
  <2>1. (2 * h) * p <= (2 * h) * (q + H)
    BY <1>1, <1>3, <1>4, Z3
  <2>. QED  BY <1>1, <2>1, Z3
<1>5. ASSUME ~((2 * h) * p <= (2 * h) * q + m) PROVE p >= q
  BY <1>1, <1>5, Z3
<1>. QED  BY <1>2, <1>4, <1>5, Zenon DEF p, q

\* The scroll bar of a scene whose photos end in their order, GetTimestamps.
LEMMA ScrollBar ==
    ASSUME NEW width \in Nat, NEW H \in Nat, NEW rects \in Seq(Rects), Clear(rects),
           NEW h \in Nat \ {0}
    PROVE  TimestampsAreRight(Scene(rects, width, H), h)
<1>. DEFINE n == Len(rects)
            laid == Scene(rects, width, H)
            Above(i, y) == 2 * h * h * Bottom(rects[i]) <= (2 * h * y + 2 * y + 1) * H
            Passed(y) == {i \in 1..n : \A j \in 1..(i - 1) : Above(j, y)}
            at == [y \in 0..(h - 1) |-> IF Passed(y) = {} THEN 0 ELSE Max(Passed(y))]
<1>1. n \in Nat /\ DOMAIN rects = 1..n
  OBVIOUS
<1>2. laid.rects = rects /\ laid.bounds.h = H
  BY DEF Scene, Rect
<1>. HIDE DEF laid
<1>3. TimestampPhotos(laid, h) = at
  BY <1>1, <1>2 DEF TimestampPhotos
<1>4. \A i \in 1..n : Bottom(rects[i]) \in Nat
  BY RectHas
<1>5. \A i, j \in 1..n : i < j => Bottom(rects[i]) <= Bottom(rects[j])
  BY <1>1 DEF Clear, LaidAfter
<1>. HIDE DEF n
<1>6. ASSUME NEW y \in 0..(h - 1), NEW i \in 1..n
      PROVE  /\ i < at[y] => Bottom(rects[i]) * h <= (y + 1) * H
             /\ i > at[y] => Bottom(rects[i]) * h >= y * H
  <2>. DEFINE B(k) == Bottom(rects[k])
              P == Passed(y)
              m == Max(P)
  <2>1. 1 \in P
    BY <1>1
  <2>2. at[y] = m
    <3>. HIDE DEF Passed
    <3>. QED  BY <2>1
  <2>3. P \in SUBSET Nat /\ \A j \in P : j <= n
    BY <1>1
  <2>4. m \in P /\ \A j \in P : j <= m
    <3>. HIDE DEF P, m
    <3>1. Max(P) \in P /\ \A j \in P : j <= Max(P)
      BY <1>1, <2>1, <2>3, MaxOfNaturals
    <3>. QED  BY <3>1 DEF m
  <2>. HIDE DEF m, at
  <2>5. m \in 1..n /\ \A j \in 1..(m - 1) : Above(j, y)
    BY <2>4
  <2>6. ASSUME i < m PROVE B(i) * h <= (y + 1) * H
    <3>1. Above(i, y)
      BY <1>1, <2>5, <2>6
    <3>. QED  BY <1>4, <3>1, RowsMeasure
  <2>7. ASSUME i > m PROVE B(i) * h >= y * H
    <3>1. i \notin P
      BY <1>1, <2>4, <2>5, <2>7
    <3>2. PICK j \in 1..(i - 1) : ~Above(j, y)
      BY <3>1
    <3>3. j \in 1..n /\ j < i
      BY <1>1
    <3>. HIDE DEF Above
    <3>4. B(j) <= B(i) /\ B(j) \in Nat /\ B(i) \in Nat
      BY <1>4, <1>5, <3>3
    <3>5. B(j) * h >= y * H
      BY <3>2, <3>4, RowsMeasure DEF Above
    <3>. HIDE DEF B
    <3>6. B(j) * h <= B(i) * h
      BY <3>4, Z3
    <3>7. B(j) * h \in Nat /\ B(i) * h \in Nat /\ y * H \in Nat
      BY <3>4
    <3>. QED  BY ONLY <3>5, <3>6, <3>7
  <2>. QED  BY <2>2, <2>6, <2>7
<1>7. DOMAIN at = 0..(h - 1)
  OBVIOUS
<1>. HIDE DEF at
<1>8. TimestampsAreRight(laid, h)
  BY <1>1, <1>2, <1>3, <1>6, <1>7 DEF TimestampsAreRight
<1>. QED  BY <1>8 DEF laid

\* What a layout promises: its photos are placed, and a scroll bar of any height finds
\* their times.
IsLaidOut(photos, laid) ==
    /\ WellPlaced(photos, laid)
    /\ \A height \in Nat \ {0} : TimestampsAreRight(laid, height)

\* A scene that its photos fit into has them placed.
LEMMA SceneIsPlaced ==
    ASSUME NEW width \in Nat, width >= Margin, NEW height \in Nat, NEW rects \in Seq(Rects),
           Clear(rects), \A i \in DOMAIN rects : Fits(rects[i], width, height),
           NEW photos, Len(photos) = Len(rects)
    PROVE  IsLaidOut(photos, Scene(rects, width, height))
<1>. DEFINE laid == Scene(rects, width, height)
<1>1. laid.rects = rects /\ laid.bounds.w = width /\ laid.bounds.h = height
  BY DEF Scene, Rect
<1>2. DOMAIN rects = 1..Len(rects) /\ Len(rects) \in Nat
  OBVIOUS
<1>. HIDE DEF laid
<1>3. ASSUME NEW i \in DOMAIN rects, NEW j \in DOMAIN rects, i # j
      PROVE  Apart2(rects[i], rects[j])
  <2>1. i < j \/ j < i
    BY <1>2, <1>3
  <2>2. CASE i < j
    BY <2>2 DEF Clear, LaidAfter
  <2>3. CASE j < i
    <3>1. Apart2(rects[j], rects[i])
      BY <2>3 DEF Clear, LaidAfter
    <3>. QED  BY <3>1 DEF Apart2
  <2>. QED  BY <2>1, <2>2, <2>3
<1>4. ASSUME NEW i \in DOMAIN rects
      PROVE  /\ rects[i].x >= 0 /\ rects[i].y >= 0
             /\ Bottom(rects[i]) <= height
             /\ Right(rects[i]) <= width \/ (Right(rects[i]) > width /\ rects[i].x = 10)
             /\ rects[i].x <= width /\ rects[i].y <= height
  <2>. DEFINE r == rects[i]
  <2>1. r \in Rects
    BY <1>2
  <2>2. /\ r.x \in Nat /\ r.y \in Nat /\ Right(r) \in Nat /\ Bottom(r) \in Nat
        /\ r.x <= Right(r) /\ r.y <= Bottom(r)
    <3>. HIDE DEF r
    <3>1. /\ r.x \in Nat /\ r.y \in Nat /\ r.w \in Nat /\ r.h \in Nat
          /\ Right(r) = r.x + r.w /\ Bottom(r) = r.y + r.h
      BY <2>1, RectHas
    <3>. QED  BY ONLY <3>1
  <2>3. Bottom(r) <= height /\ (Right(r) <= width \/ r.x = 10) /\ 10 <= width
    BY DEF Fits, Margin
  <2>. HIDE DEF r
  <2>4. /\ r.x >= 0 /\ r.y >= 0 /\ Bottom(r) <= height
        /\ Right(r) <= width \/ (Right(r) > width /\ r.x = 10)
        /\ r.x <= width /\ r.y <= height
    BY <2>2, <2>3
  <2>. QED  BY <2>4 DEF r
<1>5. ASSUME NEW i \in DOMAIN laid.rects
      PROVE  /\ laid.rects[i].x >= 0 /\ laid.rects[i].y >= 0
             /\ Bottom(laid.rects[i]) <= laid.bounds.h
             /\ Right(laid.rects[i]) <= laid.bounds.w \/ Spills(laid, i)
  BY <1>1, <1>4 DEF Spills, Margin
<1>6. InPlace(laid, Len(rects))
  BY <1>1, <1>3, <1>5 DEF InPlace
<1>7. WellPlaced(photos, Scene(rects, width, height))
  BY <1>4, <1>6, TilesShow DEF laid
<1>. QED  BY <1>7, ScrollBar DEF IsLaidOut

\* A scene of events has room for every photo.
LEMMA ScenesOfEvents ==
    ASSUME NEW width \in Nat, width >= 2 * Margin, NEW c \in Settings,
           NEW Photos, ArePhotos(Photos), NEW photos \in Seq(Photos), NEW layout,
           NEW before \in [DOMAIN Events(photos, layout) -> Nat],
           NEW after \in [DOMAIN Events(photos, layout) -> Nat]
    PROVE  LET st == LayoutEvents(Events(photos, layout), Inside(width), c, before, after)
           IN  IsLaidOut(PhotosKept(photos), Scene(st.rects, width, st.y + Margin))
<1>. DEFINE events == Events(photos, layout)
            b == Inside(width)
            kept == PhotosKept(photos)
            n == Len(kept)
            st == LayoutEvents(events, b, c, before, after)
<1>1. events \in Seq(Seq(Photos)) /\ \E t : Counts(t, events, n)
  BY EventsAreKept DEF EventsAre, Split
<1>2. PICK total : Counts(total, events, n)
  BY <1>1
<1>3. b \in Rects /\ Measures(b, c)
  BY InsideIs, MeasuresAre
<1>0. kept \in Seq(Photos) /\ n \in Nat /\ \A p \in Photos : p.w \in Nat
  <2>1. kept \in Seq(Photos)
    BY EventsAreKept
  <2>. HIDE DEF kept
  <2>. QED  BY <2>1 DEF ArePhotos
<1>. HIDE DEF events, b, n, kept
<1>4. before \in [DOMAIN events -> Nat] /\ after \in [DOMAIN events -> Nat]
  BY DEF events
<1>5. EventInv(st, b) /\ Len(st.rects) = n
  <2>1. EventsToPlace(Photos, events, before, after, total, n)
    BY <1>0, <1>1, <1>2, <1>4 DEF EventsToPlace
  <2>. QED  BY ONLY <1>3, <2>1, EventsArePlaced
<1>. HIDE DEF st
<1>6. /\ st.rects \in Seq(Rects) /\ st.y \in Nat /\ Clear(st.rects)
      /\ \A i \in DOMAIN st.rects : InBand(st.rects[i], Inside(width), st.y)
  BY <1>5 DEF EventInv, b
<1>7. IsLaidOut(kept, Scene(st.rects, width, st.y + Margin))
  <2>1. st.y + Margin \in Nat /\ width >= Margin
    BY <1>6 DEF Margin
  <2>2. \A i \in DOMAIN st.rects : Fits(st.rects[i], width, st.y + Margin)
    BY <1>6, BandsFit
  <2>. QED  BY <1>0, <1>5, <1>6, <2>1, <2>2, SceneIsPlaced DEF n
<1>. QED  BY <1>5, <1>7, Zenon DEF st, events, b, n, kept

\* LayoutAlbum lays out every photo once, but for those without a date before the first
\* one with a date, in their order, inside of the scene, over no other and where a tile
\* shows it, and the scroll bar finds its time, however wide the photos and the scene
\* are and however the photos fall into events.
THEOREM AlbumIsPlaced ==
    ASSUME NEW width \in Nat, width >= 2 * Margin, NEW c \in Settings,
           NEW Photos, ArePhotos(Photos), NEW photos \in Seq(Photos)
    PROVE  /\ EventsAre(Events(photos, "album"), PhotosKept(photos))
           /\ IsLaidOut(PhotosKept(photos), LayoutAlbum(photos, width, c))
<1>. DEFINE events == Events(photos, "album")
            before == [k \in DOMAIN events |-> AlbumHeader(events, k, c.shuffled)]
            after == [k \in DOMAIN events |-> AlbumSpace(events, k)]
            st == LayoutEvents(events, Inside(width), c, before, after)
<1>1. before \in [DOMAIN events -> Nat] /\ after \in [DOMAIN events -> Nat]
  <2>. HIDE DEF events
  <2>1. \A k \in DOMAIN events : AlbumHeader(events, k, c.shuffled) \in Nat
    BY DEF AlbumHeader
  <2>2. \A k \in DOMAIN events : AlbumSpace(events, k) \in Nat
    BY DEF AlbumSpace
  <2>. QED  BY <2>1, <2>2
<1>2. LayoutAlbum(photos, width, c) = Scene(st.rects, width, st.y + Margin)
  BY Zenon DEF LayoutAlbum
<1>. HIDE DEF before, after
<1>3. IsLaidOut(PhotosKept(photos), Scene(st.rects, width, st.y + Margin))
  BY <1>1, ScenesOfEvents
<1>4. EventsAre(events, PhotosKept(photos))
  BY EventsAreKept
<1>. QED  BY <1>2, <1>3, <1>4, Zenon

\* LayoutTimeline lays out the same photos once each, in their order, inside of the
\* scene, over no other and where a tile shows them and the scroll bar finds their time.
THEOREM TimelineIsPlaced ==
    ASSUME NEW width \in Nat, width >= 2 * Margin, NEW c \in Settings,
           NEW Photos, ArePhotos(Photos), NEW photos \in Seq(Photos)
    PROVE  /\ EventsAre(Events(photos, "timeline"), PhotosKept(photos))
           /\ IsLaidOut(PhotosKept(photos), LayoutTimeline(photos, width, c))
<1>. DEFINE events == Events(photos, "timeline")
            before == [k \in DOMAIN events |-> IF c.shuffled THEN 0 ELSE 34]
            after == [k \in DOMAIN events |-> 10]
            st == LayoutEvents(events, Inside(width), c, before, after)
<1>1. before \in [DOMAIN events -> Nat] /\ after \in [DOMAIN events -> Nat]
  <2>. HIDE DEF events
  <2>. QED  OBVIOUS
<1>2. LayoutTimeline(photos, width, c) = Scene(st.rects, width, st.y + Margin)
  BY Zenon DEF LayoutTimeline
<1>. HIDE DEF before, after
<1>3. IsLaidOut(PhotosKept(photos), Scene(st.rects, width, st.y + Margin))
  BY <1>1, ScenesOfEvents
<1>4. EventsAre(events, PhotosKept(photos))
  BY EventsAreKept
<1>. QED  BY <1>2, <1>3, <1>4, Zenon

\* LayoutWall lays out every photo once, inside of the scene, over no other and where a
\* tile shows it and the scroll bar finds its time.
THEOREM WallIsPlaced ==
    ASSUME NEW width \in Nat, width >= 2 * Margin, NEW c \in Settings, c.height > 0,
           NEW Photos, \A p \in Photos : p.w \in Nat, NEW photos \in Seq(Photos)
    PROVE  IsLaidOut(photos, LayoutWall(photos, width, c))
<1>. DEFINE b == Inside(width)
            n == Len(photos)
            cols == Max({1} \cup {k \in DOMAIN photos : k * k <= Len(photos)})
            height == ((b.w \div cols) * 4) \div 5
            spacing == b.w \div (cols * 50)
            widths == [i \in DOMAIN photos |-> (photos[i].w * height) \div c.height]
            settings == [c EXCEPT !.height = height, !.spacing = spacing, !.line = spacing]
            section == AddSection(widths, b, settings)
            rs == section.rects
            h == section.height
<1>1. n \in Nat /\ DOMAIN photos = 1..n /\ \A i \in 1..n : photos[i].w \in Nat
  OBVIOUS
<1>2. b \in Rects /\ b.x = 10 /\ b.y = 74 /\ b.w = width - 20 /\ b.w \in Nat
  BY InsideIs
<1>3. cols \in Nat \ {0}
  <2>. DEFINE I == {1} \cup {k \in DOMAIN photos : k * k <= Len(photos)}
  <2>1. I \in SUBSET Nat /\ I # {} /\ 0 \notin I
    BY <1>1
  <2>2. \A i \in I : i <= n + 1
    BY <1>1
  <2>3. n + 1 \in Nat
    BY <1>1
  <2>. HIDE DEF I
  <2>4. Max(I) \in I
    BY <2>1, <2>2, <2>3, MaxOfNaturals
  <2>. QED  BY <2>1, <2>4 DEF I
<1>4. LayoutWall(photos, width, c) = Scene(rs, width, b.y + h + Margin)
  BY Zenon DEF LayoutWall
<1>. HIDE DEF b, cols, n
<1>5. height \in Nat
  <2>. DEFINE u == b.w \div cols
  <2>1. u \in Nat
    BY <1>2, <1>3, DivIs
  <2>. HIDE DEF u
  <2>2. u * 4 \in Nat /\ 5 \in Nat \ {0}
    BY <2>1
  <2>3. (u * 4) \div 5 \in Nat
    BY <2>2, DivIs
  <2>. QED  BY <2>3 DEF u
<1>6. spacing \in Nat
  <2>1. cols * 50 \in Nat \ {0}
    BY <1>3
  <2>. QED  BY <1>2, <2>1, DivIs
<1>. HIDE DEF height, spacing
<1>7. widths \in Seq(Nat) /\ Len(widths) = n
  <2>1. c.height \in Nat \ {0}
    BY DEF Settings
  <2>2. ASSUME NEW i \in 1..n PROVE (photos[i].w * height) \div c.height \in Nat
    <3>1. photos[i].w * height \in Nat
      BY <1>1, <1>5
    <3>. QED  BY <2>1, <3>1, DivIs
  <2>. QED  BY <1>1, <2>2
<1>8. Measures(b, settings)
  <2>1. settings.height = height /\ settings.spacing = spacing /\ settings.line = spacing
    BY DEF Settings
  <2>. HIDE DEF settings
  <2>. QED  BY <1>2, <1>5, <1>6, <2>1 DEF Measures
<1>. HIDE DEF settings, widths
<1>9. /\ rs \in Seq(Rects) /\ Len(rs) = n /\ h \in Nat /\ Clear(rs)
      /\ \A i \in DOMAIN rs : InSection(rs[i], b, h)
  BY <1>7, <1>8, SectionsArePlaced, Zenon
<1>. DEFINE y == b.y + h
<1>. HIDE DEF section
<1>10. y \in Nat /\ \A i \in DOMAIN rs : InBand(rs[i], b, y)
  <2>1. y \in Nat
    BY <1>2, <1>9
  <2>. QED  BY <1>9, <2>1 DEF InSection, InBand
<1>. HIDE DEF rs, y
<1>11. IsLaidOut(photos, Scene(rs, width, y + Margin))
  <2>1. y + Margin \in Nat /\ width >= Margin
    BY <1>10 DEF Margin
  <2>2. \A i \in DOMAIN rs : Fits(rs[i], width, y + Margin)
    BY <1>9, <1>10, BandsFit DEF b
  <2>. QED  BY <1>9, <2>1, <2>2, SceneIsPlaced DEF n
<1>. QED  BY <1>4, <1>9, <1>11, Zenon DEF y, n

\* FitInside makes a photo fit into a page, in the middle of it.
LEMMA FitInsideIs ==
    ASSUME NEW w \in Nat, NEW h \in Nat \ {0}, NEW page \in Rects
    PROVE  LET r == FitInside(Rect(0, 0, w, h), page)
           IN  /\ r \in Rects
               /\ page.x <= r.x /\ Right(r) <= Right(page)
               /\ page.y <= r.y /\ Bottom(r) <= Bottom(page)
<1>. DEFINE W == page.w
            H == page.h
            wide == W * h < w * H
            u == IF wide THEN W ELSE (w * H) \div h
            v == IF wide THEN (h * W) \div w ELSE H
            x == page.x + (W - u) \div 2
            y == page.y + (H - v) \div 2
            r == FitInside(Rect(0, 0, w, h), page)
<1>1. page.x \in Nat /\ page.y \in Nat /\ W \in Nat /\ H \in Nat
  BY DEF Rects
<1>2. r = Rect(x, y, u, v)
  BY DEF FitInside, Rect
<1>. HIDE DEF W, H
<1>3. W * h \in Nat /\ w * H \in Nat /\ h * W \in Nat /\ h * W = W * h
  BY <1>1
<1>4. u \in Nat /\ v \in Nat /\ u <= W /\ v <= H
  <2>1. CASE wide
    <3>1. w # 0
      BY <1>1, <1>3, <2>1
    <3>2. w \in Nat \ {0}
      BY <3>1
    <3>. DEFINE q == (h * W) \div w
    <3>3. q \in Nat /\ q * w <= h * W
      BY <1>3, <3>2, DivIs
    <3>4. ~(H + 1 <= q)
      <4>. SUFFICES ASSUME H + 1 <= q PROVE FALSE
        OBVIOUS
      <4>. HIDE DEF q
      <4>1. (H + 1) * w <= q * w
        BY <1>1, <3>2, <3>3, Z3
      <4>2. (H + 1) * w = w * H + w /\ q * w \in Nat
        BY <1>1, <3>2, <3>3, Z3
      <4>. QED  BY <1>3, <2>1, <3>2, <3>3, <4>1, <4>2
    <3>5. u = W /\ v = q
      BY <2>1
    <3>. HIDE DEF q, u, v
    <3>. QED  BY <1>1, <3>3, <3>4, <3>5
  <2>2. CASE ~wide
    <3>. DEFINE q == (w * H) \div h
    <3>3. q \in Nat /\ q * h <= w * H
      BY <1>3, DivIs
    <3>4. ~(W + 1 <= q)
      <4>. SUFFICES ASSUME W + 1 <= q PROVE FALSE
        OBVIOUS
      <4>. HIDE DEF q
      <4>1. (W + 1) * h <= q * h
        BY <1>1, <3>3, Z3
      <4>2. (W + 1) * h = W * h + h /\ q * h \in Nat
        BY <1>1, <3>3, Z3
      <4>. QED  BY <1>3, <2>2, <3>3, <4>1, <4>2
    <3>5. u = q /\ v = H
      BY <2>2
    <3>. HIDE DEF q, u, v
    <3>. QED  BY <1>1, <3>3, <3>4, <3>5
  <2>. QED  BY <2>1, <2>2
<1>. HIDE DEF u, v, wide
<1>5. x \in Nat /\ page.x <= x /\ x + u <= page.x + W
  <2>. DEFINE d == W - u
              k == d \div 2
  <2>1. d \in Nat
    BY <1>1, <1>4
  <2>. HIDE DEF d
  <2>2. k \in Nat /\ k <= d
    BY <2>1
  <2>3. x = page.x + k
    BY DEF d
  <2>. HIDE DEF k, x
  <2>4. d = W - u
    BY DEF d
  <2>. QED  BY ONLY <1>1, <1>4, <2>1, <2>2, <2>3, <2>4
<1>6. y \in Nat /\ page.y <= y /\ y + v <= page.y + H
  <2>. DEFINE d == H - v
              k == d \div 2
  <2>1. d \in Nat
    BY <1>1, <1>4
  <2>. HIDE DEF d
  <2>2. k \in Nat /\ k <= d
    BY <2>1
  <2>3. y = page.y + k
    BY DEF d
  <2>. HIDE DEF k, y
  <2>4. d = H - v
    BY DEF d
  <2>. QED  BY ONLY <1>1, <1>4, <2>1, <2>2, <2>3, <2>4
<1>7. Right(page) = page.x + W /\ Bottom(page) = page.y + H
  BY DEF Right, Bottom, W, H
<1>. HIDE DEF x, y, r
<1>8. r \in Rects /\ r.x = x /\ r.y = y /\ Right(r) = x + u /\ Bottom(r) = y + v
  <2>. DEFINE s == Rect(x, y, u, v)
  <2>1. s \in Rects /\ s.x = x /\ s.y = y /\ Right(s) = x + u /\ Bottom(s) = y + v
    BY ONLY <1>4, <1>5, <1>6 DEF Rect, Rects, Right, Bottom
  <2>. QED  BY <1>2, <2>1, Zenon
<1>9. /\ r \in Rects
      /\ page.x <= r.x /\ Right(r) <= Right(page)
      /\ page.y <= r.y /\ Bottom(r) <= Bottom(page)
  BY <1>5, <1>6, <1>7, <1>8, Zenon
<1>. QED  BY <1>9 DEF r

\* LayoutStrip gives every photo a page of its own, which it does not leave.
THEOREM StripIsPlaced ==
    ASSUME NEW width \in Nat, NEW c \in Settings, c.height > 0,
           NEW Photos, \A p \in Photos : p.w \in Nat, NEW photos \in Seq(Photos)
    PROVE  WellPlaced(photos, LayoutStrip(photos, width, c))
<1>. DEFINE n == Len(photos)
            spacing == width \div 50
            step == width + spacing
            Page(i) == Rect((i - 1) * (width + spacing), 0, width, c.viewHeight)
            rs == [i \in DOMAIN photos |-> FitInside(Rect(0, 0, photos[i].w, c.height), Page(i))]
            laid == LayoutStrip(photos, width, c)
<1>1. /\ n \in Nat /\ DOMAIN photos = 1..n /\ \A i \in 1..n : photos[i].w \in Nat
      /\ c.height \in Nat \ {0} /\ c.viewHeight \in Nat
  BY DEF Settings
<1>2. spacing \in Nat
  BY DivIs
<1>3. laid = Scene(rs, n * (width + spacing), c.viewHeight)
  BY Zenon DEF LayoutStrip
<1>. HIDE DEF spacing, n
<1>4. step \in Nat /\ width <= step
  BY <1>2
<1>. DEFINE left == [i \in 1..n |-> (i - 1) * step]
<1>5. ASSUME NEW i \in 1..n
      PROVE  /\ left[i] \in Nat /\ left[i] + step <= n * step
             /\ \A j \in 1..n : i < j => left[i] + step <= left[j]
             /\ Page(i) = Rect(left[i], 0, width, c.viewHeight)
  <2>. DEFINE k == i - 1
  <2>1. left[i] = k * step /\ k \in Nat /\ k + 1 <= n
    BY <1>1
  <2>. HIDE DEF step, k
  <2>2. k * step \in Nat
    BY <1>4, <2>1
  <2>3. (k + 1) * step = k * step + step
    BY <1>4, <2>1, Z3
  <2>4. \A m \in Nat : k + 1 <= m => (k + 1) * step <= m * step
    BY <1>4, <2>1, Z3
  <2>5. ASSUME NEW j \in 1..n, i < j PROVE left[i] + step <= left[j]
    <3>1. left[j] = (j - 1) * step /\ j - 1 \in Nat
      BY <1>1
    <3>2. k + 1 <= j - 1
      BY <1>1, <2>5 DEF k
    <3>3. (k + 1) * step <= (j - 1) * step
      BY <2>4, <3>1, <3>2
    <3>. HIDE DEF left
    <3>. QED  BY <2>1, <2>3, <3>1, <3>3
  <2>6. Page(i) = Rect(left[i], 0, width, c.viewHeight)
    BY <2>1 DEF k, step
  <2>7. (k + 1) * step <= n * step
    BY <1>1, <2>1, <2>4
  <2>. HIDE DEF left
  <2>8. left[i] \in Nat /\ left[i] + step <= n * step
    BY <2>1, <2>2, <2>3, <2>7
  <2>. QED  BY <2>5, <2>6, <2>8
<1>. HIDE DEF left, step
<1>6. ASSUME NEW i \in 1..n
      PROVE  /\ rs[i] \in Rects
             /\ left[i] <= rs[i].x /\ Right(rs[i]) <= left[i] + width
             /\ Bottom(rs[i]) <= c.viewHeight
  <2>. DEFINE l == left[i]
              w == photos[i].w
              page == Rect(l, 0, width, c.viewHeight)
              r == FitInside(Rect(0, 0, w, c.height), page)
  <2>1. rs[i] = r
    <3>1. rs[i] = FitInside(Rect(0, 0, w, c.height), Page(i))
      <4>. HIDE DEF Page
      <4>. QED  BY <1>1
    <3>2. Page(i) = page
      BY <1>5
    <3>. HIDE DEF Page, page, rs
    <3>. QED  BY <3>1, <3>2, Zenon
  <2>2. l \in Nat /\ w \in Nat
    BY <1>1, <1>5
  <2>. HIDE DEF l, w, rs
  <2>3. /\ page \in Rects /\ page.x = l /\ page.y = 0
        /\ Right(page) = l + width /\ Bottom(page) = 0 + c.viewHeight
    BY ONLY <1>1, <2>2, width \in Nat DEF Rect, Rects, Right, Bottom
  <2>. HIDE DEF page
  <2>4. /\ r \in Rects /\ page.x <= r.x /\ Right(r) <= Right(page)
        /\ page.y <= r.y /\ Bottom(r) <= Bottom(page)
    BY <1>1, <2>2, <2>3, FitInsideIs, Zenon
  <2>5. 0 + c.viewHeight = c.viewHeight
    BY <1>1
  <2>. HIDE DEF r
  <2>. QED  BY <2>1, <2>3, <2>4, <2>5, Zenon DEF l
<1>7. DOMAIN rs = 1..n /\ Len(rs) = n
  <2>. DEFINE e(i) == FitInside(Rect(0, 0, photos[i].w, c.height), Page(i))
  <2>1. rs = [i \in 1..n |-> e(i)]
    BY <1>1, Zenon
  <2>. HIDE DEF e, rs
  <2>. QED  BY <1>1, <2>1
<1>8. rs \in Seq(Rects)
  <2>. DEFINE e(i) == FitInside(Rect(0, 0, photos[i].w, c.height), Page(i))
  <2>1. rs = [i \in 1..n |-> e(i)]
    BY <1>1, Zenon
  <2>. HIDE DEF e, rs
  <2>2. \A i \in 1..n : rs[i] = e(i)
    BY <2>1
  <2>3. \A i \in 1..n : e(i) \in Rects
    BY <1>6, <2>2, Zenon
  <2>. QED  BY <1>1, <2>1, <2>3
<1>9. laid.rects = rs /\ laid.bounds.w = n * step /\ laid.bounds.h = c.viewHeight
  <2>. HIDE DEF rs
  <2>. QED  BY <1>3 DEF Scene, Rect, step
<1>. HIDE DEF rs, laid
<1>10. ASSUME NEW i \in 1..n
      PROVE  /\ left[i] \in Nat /\ rs[i].x \in Nat /\ rs[i].y \in Nat
             /\ Right(rs[i]) \in Nat /\ Bottom(rs[i]) \in Nat
  BY <1>5, <1>6, RectHas
<1>11. ASSUME NEW i \in 1..n, NEW j \in 1..n, i < j PROVE Right(rs[i]) <= rs[j].x
  <2>. DEFINE u == left[i]
              v == left[j]
              e == Right(rs[i])
              x == rs[j].x
  <2>1. u + step <= v /\ e <= u + width /\ v <= x
    BY <1>5, <1>6, <1>11
  <2>2. u \in Nat /\ v \in Nat /\ e \in Nat /\ x \in Nat
    BY <1>10
  <2>. HIDE DEF u, v, e, x
  <2>3. e <= x
    BY ONLY <1>4, <2>1, <2>2, width \in Nat
  <2>. QED  BY <2>3 DEF e, x
<1>12. ASSUME NEW i \in 1..n
       PROVE  rs[i].x >= 0 /\ rs[i].y >= 0 /\ Right(rs[i]) <= n * step
  <2>. DEFINE u == left[i]
              e == Right(rs[i])
              all == n * step
  <2>1. u + step <= all /\ e <= u + width
    BY <1>5, <1>6
  <2>2. u \in Nat /\ e \in Nat /\ all \in Nat
    BY <1>1, <1>4, <1>10
  <2>3. rs[i].x >= 0 /\ rs[i].y >= 0
    BY <1>10
  <2>. HIDE DEF u, e, all
  <2>4. e <= all
    BY ONLY <1>4, <2>1, <2>2, width \in Nat
  <2>. QED  BY <2>3, <2>4 DEF e, all
<1>13. ASSUME NEW i \in 1..n, NEW j \in 1..n, i # j PROVE Apart2(rs[i], rs[j])
  <2>1. i < j \/ j < i
    BY <1>1, <1>13
  <2>. QED  BY <1>11, <2>1 DEF Apart2
<1>14. InPlace(laid, n)
  BY <1>6, <1>7, <1>9, <1>12, <1>13, Zenon DEF InPlace
<1>15. ASSUME NEW i \in 1..n PROVE rs[i].x <= n * step /\ rs[i].y <= c.viewHeight
  <2>1. rs[i] \in Rects
    BY <1>6
  <2>2. rs[i].x <= Right(rs[i]) /\ rs[i].y <= Bottom(rs[i])
    <3>. DEFINE r == rs[i]
    <3>. HIDE DEF r
    <3>1. r \in Rects
      BY <2>1 DEF r
    <3>2. /\ r.x \in Nat /\ r.y \in Nat /\ r.w \in Nat /\ r.h \in Nat
          /\ Right(r) = r.x + r.w /\ Bottom(r) = r.y + r.h
      BY <3>1, RectHas
    <3>3. r.x <= Right(r) /\ r.y <= Bottom(r)
      BY ONLY <3>2
    <3>. QED  BY <3>3 DEF r
  <2>. DEFINE all == n * step
  <2>3. all \in Nat
    BY <1>1, <1>4
  <2>4. Right(rs[i]) <= all
    BY <1>12
  <2>. HIDE DEF all
  <2>5. rs[i].x <= all /\ rs[i].y <= c.viewHeight
    BY <1>1, <1>6, <1>10, <2>2, <2>3, <2>4
  <2>. QED  BY <2>5 DEF all
<1>16. laid = Scene(rs, n * step, c.viewHeight)
  BY <1>3 DEF laid, step, rs
<1>17. WellPlaced(photos, laid)
  <2>. DEFINE all == n * step
  <2>1. all \in Nat
    BY <1>1, <1>4
  <2>2. Len(photos) = Len(rs)
    BY <1>7 DEF n
  <2>. HIDE DEF all
  <2>3. \A i \in DOMAIN rs : rs[i].x <= all /\ rs[i].y <= c.viewHeight
    BY <1>7, <1>15 DEF all
  <2>4. InPlace(Scene(rs, all, c.viewHeight), Len(rs))
    BY <1>7, <1>14, <1>16, Zenon DEF all
  <2>5. WellPlaced(photos, Scene(rs, all, c.viewHeight))
    BY <1>1, <1>8, <2>1, <2>2, <2>3, <2>4, TilesShow
  <2>. QED  BY <1>16, <2>5, Zenon DEF all
<1>. QED  BY <1>17 DEF laid

\* A face of the rows above, or of the row that is being filled, which has come to x.
FaceAt(r, x, y, width, c) ==
    /\ Right(r) <= width
    /\ Bottom(r) <= y \/ (r.y = y /\ r.h = c.height /\ Right(r) <= x)

\* The inductive invariant of the faces of a scene.
FaceInv(st, width, c) ==
    /\ st.rects \in Seq(Rects) /\ st.x \in Nat /\ st.y \in Nat
    /\ Clear(st.rects)
    /\ \A i \in DOMAIN st.rects : FaceAt(st.rects[i], st.x, st.y, width, c)
    /\ st.x + c.height <= width

LEMMA AddFaceKeeps ==
    ASSUME NEW width \in Nat, NEW c \in Settings, Padding + c.height <= width,
           NEW st, FaceInv(st, width, c)
    PROVE  LET new == AddFace(st, width - 2 * Padding, c)
           IN  FaceInv(new, width, c) /\ Len(new.rects) = Len(st.rects) + 1
<1>. DEFINE rs == st.rects
            n == Len(rs)
            h == c.height
            r == Rect(st.x, st.y, h, h)
            R == Append(rs, r)
            x == st.x + h + 10
            wraps == x + h + 10 > width - 40
            new == AddFace(st, width - 2 * Padding, c)
<1>1. h \in Nat /\ 20 + h <= width
  BY DEF Settings, Padding
<1>2. /\ rs \in Seq(Rects) /\ n \in Nat /\ DOMAIN rs = 1..n /\ st.x \in Nat /\ st.y \in Nat
      /\ \A i, j \in 1..n : i < j => LaidAfter(rs[i], rs[j])
      /\ \A i \in 1..n : FaceAt(rs[i], st.x, st.y, width, c)
      /\ st.x + h <= width
  <2>1. rs \in Seq(Rects) /\ st.x \in Nat /\ st.y \in Nat
    BY DEF FaceInv
  <2>2. n \in Nat /\ DOMAIN rs = 1..n
    BY <2>1
  <2>. QED  BY <2>1, <2>2 DEF FaceInv, Clear
<1>3. /\ new.rects = R
      /\ new.x = IF wraps THEN 20 ELSE x
      /\ new.y = IF wraps THEN st.y + h + 10 ELSE st.y
  BY DEF AddFace, Padding
<1>4. /\ r \in Rects /\ r.x = st.x /\ r.y = st.y /\ r.h = h
      /\ Right(r) = st.x + h /\ Bottom(r) = st.y + h
  <2>. DEFINE u == st.x
              v == st.y
  <2>1. u \in Nat /\ v \in Nat
    BY <1>2
  <2>. DEFINE t == Rect(u, v, h, h)
  <2>. HIDE DEF u, v, h
  <2>2. /\ t \in Rects /\ t.x = u /\ t.y = v /\ t.h = h
        /\ Right(t) = u + h /\ Bottom(t) = v + h
    BY ONLY <1>1, <2>1 DEF t, Rect, Rects, Right, Bottom
  <2>3. r = t
    BY DEF u, v
  <2>. HIDE DEF t, r
  <2>. QED  BY <2>2, <2>3 DEF u, v
<1>. HIDE DEF new, r
<1>5. /\ R \in Seq(Rects) /\ Len(R) = n + 1 /\ DOMAIN R = 1..n + 1
      /\ \A i \in 1..n : R[i] = rs[i]
      /\ R[n + 1] = r
  BY <1>2, <1>4
<1>6. /\ new.x \in Nat /\ new.y \in Nat /\ new.x + h <= width
      /\ \/ new.y = st.y /\ new.x = st.x + h + 10
         \/ new.y = st.y + h + 10
  <2>. DEFINE u == st.x
              v == st.y
  <2>1. u \in Nat /\ v \in Nat
    BY <1>2
  <2>2. x = u + h + 10 /\ new.y = IF wraps THEN v + h + 10 ELSE v
    BY <1>3
  <2>. HIDE DEF u, v
  <2>3. CASE wraps
    <3>1. new.x = 20 /\ new.y = v + h + 10
      BY <1>3, <2>2, <2>3
    <3>. QED  BY <1>1, <2>1, <3>1 DEF v
  <2>4. CASE ~wraps
    <3>1. new.x = u + h + 10 /\ new.y = v
      BY <1>3, <2>2, <2>4
    <3>2. u + h + 10 + h + 10 <= width - 40
      BY <1>1, <2>1, <2>2, <2>4
    <3>3. new.x \in Nat /\ new.x + h <= width
      BY <1>1, <2>1, <3>1, <3>2
    <3>. QED  BY <2>1, <3>1, <3>3 DEF u, v
  <2>. QED  BY <2>3, <2>4
<1>. HIDE DEF R, n, rs, h
<1>. DEFINE u == st.x
            v == st.y
            p == new.x
            q == new.y
<1>7. /\ u \in Nat /\ v \in Nat /\ p \in Nat /\ q \in Nat /\ h \in Nat
      /\ (q = v /\ p = u + h + 10) \/ q = v + h + 10
  BY <1>1, <1>2, <1>6
<1>. HIDE DEF u, v, p, q
<1>8. ASSUME NEW i \in 1..n
      PROVE  FaceAt(rs[i], p, q, width, c) /\ LaidAfter(rs[i], r)
  <2>. DEFINE s == rs[i]
              right == Right(s)
              bottom == Bottom(s)
              top == s.y
              tall == s.h
  <2>1. s \in Rects
    BY <1>2
  <2>2. right \in Nat /\ top \in Nat /\ tall \in Nat /\ bottom = top + tall
    BY <2>1, RectHas
  <2>3. right <= width /\ (bottom <= v \/ (top = v /\ tall = h /\ right <= u))
    BY <1>2 DEF FaceAt, u, v, h
  <2>4. LaidAfter(s, r)
    <3>1. CASE bottom <= v
      BY <1>4, <2>1, <3>1, NextIsBelow DEF v
    <3>2. CASE top = v /\ tall = h /\ right <= u
      BY <1>4, <2>1, <3>2, NextIsBeside DEF u, v
    <3>. QED  BY <2>3, <3>1, <3>2
  <2>. HIDE DEF s, right, top, bottom, tall
  <2>5. right <= width /\ (bottom <= q \/ (top = q /\ tall = h /\ right <= p))
    BY ONLY <1>7, <2>2, <2>3, width \in Nat
  <2>6. FaceAt(s, p, q, width, c)
    BY <2>5 DEF FaceAt, right, top, bottom, tall, h
  <2>. QED  BY <2>4, <2>6, Zenon DEF s
<1>9. FaceAt(r, p, q, width, c)
  <2>1. /\ Right(r) = u + h /\ Bottom(r) = v + h /\ r.y = v /\ r.h = h
        /\ u + h <= width
    BY <1>2, <1>4 DEF u, v
  <2>2. u + h <= width /\ (v + h <= q \/ (v = q /\ h = h /\ u + h <= p))
    BY ONLY <1>7, <2>1, width \in Nat
  <2>. QED  BY <2>1, <2>2, Zenon DEF FaceAt, h
<1>10. \A i \in DOMAIN R : FaceAt(R[i], p, q, width, c)
  <2>1. \A i \in 1..n + 1 : i \in 1..n \/ i = n + 1
    BY <1>2
  <2>. QED  BY <1>5, <1>8, <1>9, <2>1
<1>11. Clear(R)
  <2>. SUFFICES ASSUME NEW i \in 1..n + 1, NEW j \in 1..n + 1, i < j PROVE LaidAfter(R[i], R[j])
    BY <1>5 DEF Clear
  <2>1. i \in 1..n /\ (j \in 1..n \/ j = n + 1)
    BY <1>2
  <2>2. CASE j \in 1..n
    BY <1>2, <1>5, <2>1, <2>2
  <2>3. CASE j = n + 1
    BY <1>5, <1>8, <2>1, <2>3
  <2>. QED  BY <2>1, <2>2, <2>3
<1>12. FaceInv(new, width, c)
  BY <1>3, <1>5, <1>6, <1>10, <1>11 DEF FaceInv, p, q, h
<1>. QED  BY <1>3, <1>5, <1>12 DEF new, n, rs

\* LayoutFaces lays out every face once, inside of the scene, over no other and where a
\* tile shows it and the scroll bar finds it, if one face fits next to the padding.
THEOREM FacesArePlaced ==
    ASSUME NEW width \in Nat, NEW c \in Settings, Padding + c.height <= width,
           NEW Photos, NEW photos \in Seq(Photos)
    PROVE  IsLaidOut(photos, LayoutFaces(photos, width, c))
<1>. DEFINE n == Len(photos)
            inner == width - 2 * Padding
            none == [rects |-> <<>>, x |-> Padding, y |-> Padding + 64]
            At(f) == [k \in 0..n |->
                         IF k = 0 THEN [rects |-> <<>>, x |-> Padding, y |-> Padding + 64]
                         ELSE AddFace(f[k - 1], width - 2 * Padding, c)]
            st == CHOOSE f : f = At(f)
            S == {s \in [rects : Seq(Rects), x : Nat, y : Nat] : FaceInv(s, width, c)}
            laid == LayoutFaces(photos, width, c)
<1>1. n \in Nat
  OBVIOUS
<1>2. none \in S /\ Len(none.rects) = 0
  <2>1. <<>> \in Seq(Rects) /\ 20 \in Nat /\ 20 + 64 \in Nat /\ Clear(<<>>) /\ DOMAIN <<>> = {}
    BY DEF Clear
  <2>2. none = [rects |-> <<>>, x |-> 20, y |-> 20 + 64]
    BY DEF Padding
  <2>3. none.rects = <<>> /\ none.x = 20 /\ none.y = 20 + 64
    BY <2>2
  <2>. HIDE DEF none
  <2>4. FaceInv(none, width, c)
    BY <2>1, <2>3 DEF FaceInv, Padding
  <2>. QED  BY <2>1, <2>2, <2>3, <2>4
<1>3. \A s \in S : AddFace(s, inner, c) \in S /\ Len(AddFace(s, inner, c).rects) = Len(s.rects) + 1
  <2>. TAKE s \in S
  <2>. DEFINE new == AddFace(s, inner, c)
  <2>1. FaceInv(new, width, c) /\ Len(new.rects) = Len(s.rects) + 1
    BY AddFaceKeeps
  <2>2. new = [rects |-> new.rects, x |-> new.x, y |-> new.y]
    BY DEF AddFace
  <2>. HIDE DEF new
  <2>3. new \in [rects : Seq(Rects), x : Nat, y : Nat]
    BY <2>1, <2>2 DEF FaceInv
  <2>. QED  BY <2>1, <2>3 DEF new
<1>4. \E f : f = At(f)
  <2>. DEFINE F == [k \in Nat |-> [s \in S |-> AddFace(s, inner, c)]]
  <2>. HIDE DEF S, none
  <2>1. F \in [Nat -> [S -> S]] /\ \A k \in Nat, s \in S : F[k][s] = AddFace(s, inner, c)
    BY <1>3
  <2>. HIDE DEF F
  <2>2. PICK f \in [0..n -> S] : Iterates(f, F, none, 0, n)
    <3>. HIDE DEF n
    <3>1. 0 \in Nat /\ 0 <= n
      BY <1>1
    <3>. QED  BY ONLY <1>1, <1>2, <2>1, <3>1, Iterated
  <2>3. ASSUME NEW k \in 0..n
        PROVE  f[k] = IF k = 0 THEN none ELSE AddFace(f[k - 1], inner, c)
    <3>1. CASE k = 0
      BY <2>2, <3>1 DEF Iterates
    <3>2. CASE k # 0
      <4>1. k \in 0 + 1..n /\ k \in Nat /\ k - 1 \in 0..n
        BY <1>1, <3>2
      <4>2. f[k - 1] \in S
        BY <4>1
      <4>3. f[k] = F[k][f[k - 1]]
        BY <2>2, <4>1 DEF Iterates
      <4>. QED  BY <2>1, <3>2, <4>1, <4>2, <4>3
    <3>. QED  BY <3>1, <3>2
  <2>4. f = At(f)
    BY <2>3 DEF none
  <2>. QED  BY <2>4
<1>5. st = At(st)
  <2>. HIDE DEF At
  <2>. QED  BY <1>4, Zenon
<1>6. laid = Scene(st[n].rects, width, st[n].y + c.height + 10 + Padding)
  BY Zenon DEF LayoutFaces
<1>. HIDE DEF st, laid
<1>7. st[0] = none /\ \A k \in 0..n - 1 : st[k + 1] = AddFace(st[k], inner, c)
  <2>1. 0 \in 0..n
    BY <1>1
  <2>2. st[0] = At(st)[0]
    BY <1>5, Zenon
  <2>3. st[0] = none
    BY <2>1, <2>2
  <2>4. ASSUME NEW k \in 0..n - 1 PROVE st[k + 1] = AddFace(st[k], inner, c)
    <3>1. k + 1 \in 0..n /\ k + 1 # 0 /\ (k + 1) - 1 = k
      BY <1>1
    <3>2. st[k + 1] = At(st)[k + 1]
      BY <1>5, Zenon
    <3>3. st[k + 1] = AddFace(st[(k + 1) - 1], inner, c)
      BY <3>1, <3>2
    <3>. QED  BY <3>1, <3>3, Zenon
  <2>. QED  BY <2>3, <2>4
<1>. HIDE DEF At, none, inner
<1>. DEFINE N == {k \in Nat : st[k] \in S /\ Len(st[k].rects) = k}
<1>8. n \in N
  <2>. HIDE DEF S, n
  <2>1. 0 \in N
    BY <1>2, <1>7
  <2>2. ASSUME NEW k \in Nat, 0 <= k, k < n, k \in N PROVE k + 1 \in N
    <3>1. k \in 0..n - 1 /\ st[k] \in S /\ Len(st[k].rects) = k
      BY <1>1, <2>2
    <3>2. st[k + 1] \in S /\ Len(st[k + 1].rects) = k + 1
      BY <1>3, <1>7, <3>1
    <3>. QED  BY <3>2
  <2>. HIDE DEF N
  <2>3. 0 \in Nat /\ 0 <= n
    BY <1>1
  <2>. QED  BY <1>1, <2>1, <2>2, <2>3, Upwards
<1>. DEFINE rs == st[n].rects
            y == st[n].y
            height == y + c.height + 10 + Padding
<1>9. /\ rs \in Seq(Rects) /\ Len(rs) = n /\ y \in Nat /\ Clear(rs)
      /\ \A i \in DOMAIN rs : FaceAt(rs[i], st[n].x, y, width, c)
  BY <1>8 DEF FaceInv
<1>10. c.height \in Nat /\ height \in Nat /\ height = y + c.height + 30 /\ 10 <= width
  <2>. HIDE DEF y
  <2>1. c.height \in Nat /\ 20 + c.height <= width
    BY DEF Settings, Padding
  <2>. QED  BY <1>9, <2>1 DEF Padding
<1>. HIDE DEF rs, y, height, n
<1>11. ASSUME NEW i \in DOMAIN rs PROVE Fits(rs[i], width, height)
  <2>. DEFINE r == rs[i]
              h == c.height
  <2>1. r \in Rects
    BY <1>9
  <2>. HIDE DEF r
  <2>2. r.y \in Nat /\ r.h \in Nat /\ Bottom(r) = r.y + r.h
    BY <2>1, RectHas
  <2>3. Right(r) <= width /\ (Bottom(r) <= y \/ (r.y = y /\ r.h = h))
    BY <1>9 DEF FaceAt, r
  <2>4. h \in Nat /\ y \in Nat /\ height = y + h + 30
    BY <1>9, <1>10
  <2>. HIDE DEF h
  <2>5. Bottom(r) <= height
    BY ONLY <2>2, <2>3, <2>4
  <2>. QED  BY <2>3, <2>5 DEF Fits, r
<1>12. IsLaidOut(photos, Scene(rs, width, height))
  BY <1>9, <1>10, <1>11, SceneIsPlaced DEF Margin, n
<1>. QED  BY <1>6, <1>12, Zenon DEF laid, rs, y, height

\* A photo that is less similar than the first is no higher.
LEMMA FadedIs ==
    ASSUME NEW height \in Nat, NEW sim \in Nat \ {0}, NEW most \in Nat, sim <= most
    PROVE  Faded(height, sim, most) \in Nat /\ Faded(height, sim, most) <= height
<1>. DEFINE f == Fifth(sim)
            g == Fifth(most)
<1>1. \A a, e, m, k \in Nat : a <= e /\ m <= k => a * m <= e * k
  <2>. SUFFICES ASSUME NEW a \in Nat, NEW e \in Nat, NEW m \in Nat, NEW k \in Nat, a <= e, m <= k
                PROVE  a * m <= e * k
    OBVIOUS
  <2>1. a * m <= e * m
    BY Z3
  <2>2. e * m <= e * k
    BY Z3
  <2>3. a * m \in Nat /\ e * m \in Nat /\ e * k \in Nat
    OBVIOUS
  <2>. QED  BY ONLY <2>1, <2>2, <2>3
<1>2. \A a, e \in Nat \ {0} : a * e \in Nat \ {0}
  BY Z3
<1>3. f \in Nat \ {0} /\ g \in Nat \ {0} /\ f <= g
  <2>. DEFINE a2 == sim * sim
              a3 == a2 * sim
              a4 == a3 * sim
              e2 == most * most
              e3 == e2 * most
              e4 == e3 * most
  <2>1. most \in Nat \ {0} /\ sim \in Nat
    OBVIOUS
  <2>2. a2 \in Nat \ {0} /\ e2 \in Nat \ {0} /\ a2 <= e2
    BY <1>1, <1>2, <2>1
  <2>. HIDE DEF a2, e2
  <2>3. a3 \in Nat \ {0} /\ e3 \in Nat \ {0} /\ a3 <= e3
    BY <1>1, <1>2, <2>1, <2>2
  <2>. HIDE DEF a3, e3
  <2>4. a4 \in Nat \ {0} /\ e4 \in Nat \ {0} /\ a4 <= e4
    BY <1>1, <1>2, <2>1, <2>3
  <2>. HIDE DEF a4, e4
  <2>5. a4 * sim \in Nat \ {0} /\ e4 * most \in Nat \ {0} /\ a4 * sim <= e4 * most
    BY <1>1, <1>2, <2>1, <2>4
  <2>6. f = a4 * sim /\ g = e4 * most
    BY Zenon DEF Fifth, a4, a3, a2, e4, e3, e2
  <2>. QED  BY <2>5, <2>6, Zenon
<1>4. Faded(height, sim, most) = (height * f) \div g
  BY DEF Faded
<1>. HIDE DEF f, g
<1>5. height * f \in Nat /\ height * f <= height * g
  BY <1>1, <1>3
<1>6. (height * f) \div g \in Nat
  BY <1>3, <1>5, DivIs
<1>7. (height * f) \div g <= height
  BY <1>3, <1>5, DivAtMost
<1>. QED  BY <1>4, <1>6, <1>7, Zenon

\* The height of a row says nothing once the row is full.
LEMMA NewHeight ==
    ASSUME NEW b, NEW c, NEW d, NEW st, RowInv(st, b, c), st.first = Len(st.rects) + 1
    PROVE  RowInv(st, b, d)
<1>1. Len(st.rects) \in Nat
  BY RowStateHas DEF RowInv
<1>2. st.first..Len(st.rects) = {} /\ ~(st.first <= Len(st.rects))
  BY <1>1
<1>. QED  BY <1>2 DEF RowInv

\* The inductive invariant of the photos of a search.
FoundInv(st, b, c) ==
    /\ st.height \in Nat /\ st.height <= c.height
    /\ RowInv(st.row, b, [c EXCEPT !.height = st.height])

LEMMA AddFoundKeeps ==
    ASSUME NEW b, NEW c \in Settings, c.height > 0, Measures(b, c), NEW st, FoundInv(st, b, c),
           NEW p, p.w \in Nat, p.sim \in Nat \ {0}, NEW most \in Nat, p.sim <= most
    PROVE  LET new == AddFound(st, p, most, b, c)
           IN  FoundInv(new, b, c) /\ Len(new.row.rects) = Len(st.row.rects) + 1
<1>. DEFINE Of(height) == [c EXCEPT !.height = height]
            Width(height) == (p.w * height) \div c.height
            full == b.x + st.row.x + Width(st.height) > b.w
            h == IF full THEN Faded(c.height, p.sim, most) ELSE st.height
            next == NextRow(st.row, b, Of(st.height))
            row == IF full THEN next ELSE st.row
            new == AddFound(st, p, most, b, c)
<1>1. new = [row |-> PutPhoto(row, Width(h), b, Of(h)), height |-> h]
  BY Zenon DEF AddFound
<1>2. c.height \in Nat \ {0} /\ b.x \in Nat /\ b.w \in Nat
  BY DEF Settings, Measures
<1>3. \A k \in Nat : Measures(b, Of(k)) /\ Width(k) \in Nat
  <2>. TAKE k \in Nat
  <2>1. Of(k).height = k /\ Of(k).spacing = c.spacing /\ Of(k).line = c.line
    BY DEF Settings
  <2>2. p.w * k \in Nat
    OBVIOUS
  <2>. HIDE DEF Of
  <2>. QED  BY <1>2, <2>1, <2>2, DivIs DEF Measures
<1>4. st.height \in Nat /\ st.height <= c.height /\ RowInv(st.row, b, Of(st.height))
  BY DEF FoundInv
<1>. HIDE DEF Of, Width
<1>5. h \in Nat /\ h <= c.height
  BY <1>2, <1>4, FadedIs
<1>. HIDE DEF new
<1>6. ASSUME NEW s, RowInv(s, b, Of(h)), Len(s.rects) = Len(st.row.rects), row = s,
             s.first <= Len(s.rects) => s.x + Width(h) <= b.w
      PROVE  FoundInv(new, b, c) /\ Len(new.row.rects) = Len(st.row.rects) + 1
  <2>. DEFINE w == Width(h)
  <2>1. Measures(b, Of(h)) /\ w \in Nat
    BY <1>3, <1>5
  <2>2. new.row = PutPhoto(s, w, b, Of(h)) /\ new.height = h
    BY <1>1, <1>6
  <2>. HIDE DEF h, w, row
  <2>3. /\ RowInv(PutPhoto(s, w, b, Of(h)), b, Of(h))
        /\ Len(PutPhoto(s, w, b, Of(h)).rects) = Len(s.rects) + 1
    BY <1>6, <2>1, PutPhotoKeeps DEF w
  <2>. QED  BY <1>5, <1>6, <2>2, <2>3 DEF FoundInv, Of
<1>7. ASSUME full
      PROVE  FoundInv(new, b, c) /\ Len(new.row.rects) = Len(st.row.rects) + 1
  <2>1. RowInv(next, b, Of(st.height)) /\ Len(next.rects) = Len(st.row.rects)
    <3>. DEFINE d == Of(st.height)
    <3>1. Measures(b, d) /\ RowInv(st.row, b, d)
      BY <1>3, <1>4
    <3>. HIDE DEF d
    <3>2. /\ RowInv(NextRow(st.row, b, d), b, d)
          /\ Len(NextRow(st.row, b, d).rects) = Len(st.row.rects)
      BY <3>1, NextRowKeeps
    <3>. QED  BY <3>2 DEF d
  <2>2. next.first = Len(st.row.rects) + 1 /\ row = next
    BY <1>7 DEF NextRow
  <2>3. Len(st.row.rects) \in Nat
    BY <1>4, RowStateHas DEF RowInv
  <2>. HIDE DEF next, h, row, full
  <2>4. RowInv(next, b, Of(h)) /\ ~(next.first <= Len(next.rects))
    <3>1. next.first = Len(next.rects) + 1 /\ ~(next.first <= Len(next.rects))
      BY <2>1, <2>2, <2>3
    <3>. QED  BY <2>1, <3>1, NewHeight, Zenon
  <2>. QED  BY <1>6, <2>1, <2>2, <2>4
<1>8. ASSUME ~full
      PROVE  FoundInv(new, b, c) /\ Len(new.row.rects) = Len(st.row.rects) + 1
  <2>1. h = st.height /\ row = st.row
    BY <1>8
  <2>2. st.row.x \in Nat /\ Width(h) \in Nat
    BY <1>3, <1>4, <1>5, RowStateHas DEF RowInv
  <2>3. ~(b.x + st.row.x + Width(h) > b.w)
    BY <1>8, <2>1
  <2>. DEFINE x == st.row.x
              w == Width(h)
  <2>. HIDE DEF h, row, full, x, w
  <2>4. x + w <= b.w
    BY ONLY <1>2, <2>2, <2>3 DEF x, w
  <2>. QED  BY <1>4, <1>6, <2>1, <2>4 DEF x, w
<1>. QED  BY <1>7, <1>8 DEF new

\* LayoutSearch lays out every photo once, inside of the scene, over no other and where
\* a tile shows it and the scroll bar finds its time, as long as the first photo is the
\* most similar one.
THEOREM SearchIsPlaced ==
    ASSUME NEW width \in Nat, width >= 2 * Margin, NEW c \in Settings, c.height > 0,
           NEW Photos, \A p \in Photos : p.w \in Nat /\ p.sim \in Nat \ {0},
           NEW photos \in Seq(Photos), \A i \in DOMAIN photos : photos[i].sim <= photos[1].sim
    PROVE  IsLaidOut(photos, LayoutSearch(photos, width, c))
<1>. DEFINE n == Len(photos)
            most == photos[1].sim
            b == Rect(Margin, Margin + 60, width - 2 * Margin, 0)
            none == [row |-> NoRow, height |-> c.height]
            At(f) == [k \in 0..n |->
                         IF k = 0 THEN [row |-> NoRow, height |-> c.height]
                         ELSE AddFound(f[k - 1], photos[k], photos[1].sim, b, c)]
            st == CHOOSE f : f = At(f)
            S == {s \in [row : RowStates, height : Nat] : FoundInv(s, b, c)}
            laid == LayoutSearch(photos, width, c)
<1>1. /\ n \in Nat /\ DOMAIN photos = 1..n
      /\ \A k \in 1..n : /\ photos[k].w \in Nat /\ photos[k].sim \in Nat \ {0}
                         /\ photos[k].sim <= most /\ most \in Nat
  <2>1. \A k \in 1..n : 1 \in 1..n /\ photos[k] \in Photos /\ photos[1] \in Photos
    OBVIOUS
  <2>. QED  BY <2>1
<1>2. /\ b.x = 10 /\ b.y = 70 /\ b.w = width - 20 /\ width - 20 \in Nat
      /\ Measures(b, c) /\ c.height \in Nat
  <2>1. width - 20 \in Nat
    BY DEF Margin
  <2>2. b.x = 10 /\ b.y = 70 /\ b.w = width - 20
    BY DEF Rect, Margin
  <2>. HIDE DEF b
  <2>. QED  BY <2>1, <2>2 DEF Measures, Settings
<1>3. laid = Scene(st[n].row.rects, width, b.y + st[n].row.y + c.height + c.line + Margin)
  BY Zenon DEF LayoutSearch
<1>. HIDE DEF b, laid
<1>4. none \in S /\ Len(none.row.rects) = 0
  <2>. DEFINE d == [c EXCEPT !.height = c.height]
  <2>1. none.row = NoRow /\ none.height = c.height
    OBVIOUS
  <2>2. d = c
    BY DEF Settings
  <2>3. RowInv(NoRow, b, c) /\ Len(NoRow.rects) = 0
    BY <1>2, NoRowIs
  <2>4. NoRow \in RowStates /\ none \in [row : RowStates, height : Nat]
    BY <1>2, <2>3 DEF RowInv
  <2>. HIDE DEF none
  <2>5. FoundInv(none, b, c)
    BY <1>2, <2>1, <2>2, <2>3 DEF FoundInv
  <2>. QED  BY <2>1, <2>3, <2>4, <2>5
<1>. DEFINE With(s, k) == AddFound(s, photos[k], photos[1].sim, b, c)
<1>5. \A k \in 1..n, s \in S : With(s, k) \in S /\ Len(With(s, k).row.rects) = Len(s.row.rects) + 1
  <2>. SUFFICES ASSUME NEW k \in 1..n, NEW s \in S
                PROVE  With(s, k) \in S /\ Len(With(s, k).row.rects) = Len(s.row.rects) + 1
    BY Zenon
  <2>. DEFINE p == photos[k]
              new == AddFound(s, p, most, b, c)
  <2>1. p.w \in Nat /\ p.sim \in Nat \ {0} /\ p.sim <= most /\ most \in Nat /\ FoundInv(s, b, c)
    BY <1>1
  <2>2. \E row, h : new = [row |-> row, height |-> h]
    BY Zenon DEF AddFound
  <2>. HIDE DEF p, most
  <2>3. FoundInv(new, b, c) /\ Len(new.row.rects) = Len(s.row.rects) + 1
    BY <1>2, <2>1, AddFoundKeeps
  <2>. HIDE DEF new
  <2>4. new \in [row : RowStates, height : Nat]
    BY <2>2, <2>3 DEF FoundInv, RowInv
  <2>5. new \in S
    BY <2>3, <2>4
  <2>. QED  BY <2>3, <2>5 DEF new, p, most
<1>6. \E f : f = At(f)
  <2>. DEFINE F == [k \in Nat |-> [s \in S |-> IF k \in 1..n THEN With(s, k) ELSE s]]
  <2>. HIDE DEF S, none, With
  <2>1. F \in [Nat -> [S -> S]]
    <3>1. \A k \in Nat, s \in S : (IF k \in 1..n THEN With(s, k) ELSE s) \in S
      BY <1>5
    <3>. HIDE DEF n
    <3>. QED  BY <3>1
  <2>2. \A k \in 1..n, s \in S : F[k][s] = With(s, k)
    <3>1. \A k \in 1..n : k \in Nat
      BY <1>1
    <3>. QED  BY <3>1
  <2>. HIDE DEF F
  <2>3. PICK f \in [0..n -> S] : Iterates(f, F, none, 0, n)
    <3>. HIDE DEF n
    <3>1. 0 \in Nat /\ 0 <= n
      BY <1>1
    <3>. QED  BY ONLY <1>1, <1>4, <2>1, <3>1, Iterated
  <2>4. ASSUME NEW k \in 0..n PROVE f[k] = IF k = 0 THEN none ELSE With(f[k - 1], k)
    <3>1. CASE k = 0
      BY <2>3, <3>1 DEF Iterates
    <3>2. CASE k # 0
      <4>1. k \in 0 + 1..n /\ k \in 1..n /\ k - 1 \in 0..n
        BY <1>1, <3>2
      <4>2. f[k - 1] \in S
        BY <4>1
      <4>3. f[k] = F[k][f[k - 1]]
        BY <2>3, <4>1 DEF Iterates
      <4>. QED  BY <2>2, <3>2, <4>1, <4>2, <4>3
    <3>. QED  BY <3>1, <3>2
  <2>5. f = At(f)
    BY <2>4 DEF none, With
  <2>. QED  BY <2>5
<1>7. st = At(st)
  <2>. HIDE DEF At
  <2>. QED  BY <1>6, Zenon
<1>. HIDE DEF st
<1>8. st[0] = none /\ \A k \in 0..n - 1 : st[k + 1] = With(st[k], k + 1)
  <2>1. 0 \in 0..n
    BY <1>1
  <2>2. st[0] = At(st)[0]
    BY <1>7, Zenon
  <2>3. st[0] = none
    BY <2>1, <2>2
  <2>4. ASSUME NEW k \in 0..n - 1 PROVE st[k + 1] = With(st[k], k + 1)
    <3>1. k + 1 \in 0..n /\ k + 1 # 0 /\ (k + 1) - 1 = k
      BY <1>1
    <3>2. st[k + 1] = At(st)[k + 1]
      BY <1>7, Zenon
    <3>3. st[k + 1] = With(st[(k + 1) - 1], k + 1)
      BY <3>1, <3>2
    <3>. QED  BY <3>1, <3>3, Zenon
  <2>. QED  BY <2>3, <2>4
<1>. HIDE DEF At, none, With
<1>. DEFINE N == {k \in Nat : st[k] \in S /\ Len(st[k].row.rects) = k}
<1>9. n \in N
  <2>. HIDE DEF S, n
  <2>1. 0 \in N
    BY <1>4, <1>8
  <2>2. ASSUME NEW k \in Nat, 0 <= k, k < n, k \in N PROVE k + 1 \in N
    <3>1. k \in 0..n - 1 /\ k + 1 \in 1..n /\ st[k] \in S /\ Len(st[k].row.rects) = k
      BY <1>1, <2>2
    <3>2. st[k + 1] \in S /\ Len(st[k + 1].row.rects) = k + 1
      BY <1>5, <1>8, <3>1
    <3>. QED  BY <3>2
  <2>. HIDE DEF N
  <2>3. 0 \in Nat /\ 0 <= n
    BY <1>1
  <2>. QED  BY <1>1, <2>1, <2>2, <2>3, Upwards
<1>. DEFINE end == st[n].row
            tall == st[n].height
            d == [c EXCEPT !.height = tall]
            rs == end.rects
            h == end.y + c.height + c.line
            height == b.y + end.y + c.height + c.line + Margin
<1>10. RowInv(end, b, d) /\ tall \in Nat /\ tall <= c.height /\ Len(rs) = n
  BY <1>9 DEF FoundInv
<1>11. d.height = tall /\ d.spacing = c.spacing /\ d.line = c.line
  BY DEF Settings
<1>12. c.line \in Nat /\ c.height \in Nat
  BY DEF Settings
<1>. HIDE DEF end, tall, d, n
<1>13. rs \in Seq(Rects) /\ end.y \in Nat /\ Clear(rs)
  BY <1>10, RowStateHas DEF RowInv
<1>14. Measures(b, d)
  BY <1>2, <1>10, <1>11 DEF Measures
<1>15. h \in Nat /\ end.y + d.height <= h /\ height \in Nat /\ height = 80 + h
  <2>. DEFINE u == end.y
              v == c.height
              w == c.line
  <2>1. u \in Nat /\ v \in Nat /\ w \in Nat /\ tall \in Nat /\ tall <= v
    BY <1>10, <1>12, <1>13
  <2>2. h = u + v + w /\ height = 70 + u + v + w + 10
    BY <1>2 DEF Margin
  <2>. HIDE DEF u, v, w, h, height
  <2>3. h \in Nat /\ u + tall <= h /\ height \in Nat /\ height = 80 + h
    BY ONLY <2>1, <2>2
  <2>. QED  BY <1>11, <2>3 DEF u
<1>. HIDE DEF h, height, rs
<1>16. \A i \in DOMAIN rs : InSection(rs[i], b, h)
  BY <1>10, <1>14, <1>15, RowsEnd DEF rs
<1>17. ASSUME NEW i \in DOMAIN rs PROVE Fits(rs[i], width, height)
  <2>. DEFINE r == rs[i]
  <2>1. r \in Rects
    BY <1>13
  <2>2. Right(r) \in Nat /\ Bottom(r) \in Nat
    BY <2>1, RectHas
  <2>3. Bottom(r) <= 70 + h /\ (Right(r) <= 10 + (width - 20) \/ r.x = 10)
    BY <1>2, <1>16 DEF InSection
  <2>. HIDE DEF r
  <2>4. Bottom(r) <= height /\ (Right(r) <= width \/ r.x = 10)
    BY ONLY <1>15, <2>2, <2>3, width \in Nat
  <2>. QED  BY <2>4 DEF Fits, Margin, r
<1>18. Len(photos) = Len(rs) /\ width >= Margin
  BY <1>10 DEF rs, n, Margin
<1>19. IsLaidOut(photos, Scene(rs, width, height))
  BY <1>13, <1>15, <1>17, <1>18, SceneIsPlaced
<1>. QED  BY <1>3, <1>19, Zenon DEF laid, rs, end, height, n
=============================================================================
