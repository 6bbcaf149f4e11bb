------------------------------- MODULE Scenes -------------------------------
(***************************************************************************)
(* The scene source, internal/scene/sceneSource.go, between the index      *)
(* database that tells it what became out of date and the tile handlers    *)
(* that draw from it.  A scene is added by one request, loads in a         *)
(* goroutine of its own, and is looked up by others, who see whether it is *)
(* stale.  One collection is modelled, without a reload of the             *)
(* configuration.  A scene's content is the version of the database it     *)
(* shows, or Partial as long as it lacks files.                            *)
(*                                                                         *)
(* Reading the clock gives a new time.  A millisecond has two units, a     *)
(* second two milliseconds: the database keeps milliseconds, and a         *)
(* dependency on tags asks it once a second.                               *)
(***************************************************************************)
EXTENDS Integers, FiniteSets

CONSTANTS
    Ids,            \* scenes in the order of their creation
    Viewers,        \* goroutines that look scenes up
    SceneCost,      \* of a loaded scene; one that loads costs nothing
    MaxSize,        \* of the scenes stored
    Partial,
    MaxTime,        \* bound: of the clock
    MaxVersion      \* bound: versions of the database

ASSUME ScenesAssumption ==
    /\ Ids = 1..Cardinality(Ids)
    /\ SceneCost \in Nat /\ MaxSize \in Nat
    /\ Partial \notin Nat
    /\ MaxTime \in Nat /\ MaxVersion \in Nat

VARIABLES
    now,
    db, saved,      \* the database: in the writer's transaction, and committed
    dirty,          \* pendingUpdatedDirs is not empty
    flushing,       \* committed, the callbacks are still to be made
    unindexed,      \* rows were deleted and SetIndexed is still to be called
    invalidated,    \* the collection's InvalidatedAt
    tagged,         \* the latest updated_at_ms of the tags searched for
    scene,          \* the scenes, by id
    stored,         \* the ids in the map of scenes
    cached,         \* the ids in the cache
    viewer          \* what each viewer does

writerVars == <<db, saved, dirty, flushing, unindexed, invalidated, tagged>>
sceneVars == <<scene, stored, cached>>
vars == <<now, writerVars, sceneVars, viewer>>

Millisecond(t) == (t \div 2) * 2
Second(t) == (t \div 4) * 4
ReadClock == now < MaxTime /\ now' = now + 1

EmptyScene(time, loading) ==
    [created |-> time, loading |-> loading, listed |-> Partial, content |-> Partial,
     tagTime |-> 0, searched |-> FALSE, dependent |-> FALSE]
NoScene == EmptyScene(0, FALSE)
ViewerAt(at, id) == [at |-> at, id |-> id, incomplete |-> FALSE, drawn |-> Partial]
Idle == ViewerAt("idle", 0)

Init ==
    /\ now = 0
    /\ db = 0 /\ saved = 0
    /\ dirty = FALSE /\ flushing = FALSE /\ unindexed = FALSE
    /\ invalidated = 0 /\ tagged = 0
    /\ scene = [i \in Ids |-> NoScene]
    /\ stored = {} /\ cached = {}
    /\ viewer = [v \in Viewers |-> Idle]

----------------------------------------------------------------------------
(* The writer of the index database.                                       *)

\* A write of a file's row or metadata marks its directory as updated.
Write ==
    /\ ~flushing /\ db < MaxVersion
    /\ db' = db + 1
    /\ dirty' = TRUE
    /\ UNCHANGED <<now, saved, flushing, unindexed, invalidated, tagged, sceneVars, viewer>>

\* A deletion does not, but the scan that deletes marks the directory at its end.
DeleteRow ==
    /\ ~flushing /\ db < MaxVersion
    /\ db' = db + 1
    /\ unindexed' = TRUE
    /\ UNCHANGED <<now, saved, dirty, flushing, invalidated, tagged, sceneVars, viewer>>

SetIndexed ==
    /\ ~flushing /\ unindexed
    /\ unindexed' = FALSE
    /\ dirty' = TRUE
    /\ UNCHANGED <<now, db, saved, flushing, invalidated, tagged, sceneVars, viewer>>

Commit ==
    /\ ~flushing
    /\ saved # db \/ dirty
    /\ saved' = db
    /\ flushing' = TRUE
    /\ UNCHANGED <<now, db, dirty, unindexed, invalidated, tagged, sceneVars, viewer>>

\* Faulty variant: the directories are forgotten before they are reported.
FlushEmpty ==
    /\ flushing
    /\ flushing' = FALSE
    /\ dirty' = FALSE
    /\ ReadClock
    /\ UNCHANGED <<db, saved, unindexed, invalidated, tagged, sceneVars, viewer>>

\* invalidateDirs: the collection's directories are a prefix of the updated ones.
Flush ==
    /\ flushing
    /\ flushing' = FALSE
    /\ dirty' = FALSE
    /\ ReadClock
    /\ invalidated' = IF dirty THEN now' ELSE invalidated
    /\ UNCHANGED <<db, saved, unindexed, tagged, sceneVars, viewer>>

\* A tag operation commits what the transaction holds.
TagOperation ==
    /\ ~flushing
    /\ ReadClock
    /\ tagged' = Millisecond(now')
    /\ saved' = db
    /\ UNCHANGED <<db, dirty, flushing, unindexed, invalidated, sceneVars, viewer>>

Writer == Write \/ DeleteRow \/ SetIndexed \/ Commit \/ Flush \/ TagOperation

Pass == ReadClock /\ UNCHANGED <<writerVars, sceneVars, viewer>>

----------------------------------------------------------------------------
(* Adding and loading.                                                     *)

\* The oldest scenes go until the rest fits.
Size(ids) == SceneCost * Cardinality({i \in ids : scene[i].content # Partial})
Newer(ids, i) == {j \in ids : scene[j].created >= scene[i].created}
Kept(ids) == {i \in ids : Size(Newer(ids, i)) <= MaxSize}

\* Add: pruneScenes, the head of loadScene, and Store.
Add(i) ==
    /\ scene[i].created = 0
    /\ \A j \in Ids : j < i => scene[j].created > 0
    /\ ReadClock
    /\ stored' = Kept(stored) \cup {i}
    /\ cached' = cached \ (stored \ Kept(stored))
    /\ scene' = [scene EXCEPT ![i] = EmptyScene(now', TRUE)]
    /\ UNCHANGED <<writerVars, viewer>>

\* Faulty variant: Loading is cleared when the list has been read.
ListOnly(i) ==
    /\ scene[i].loading /\ scene[i].listed = Partial
    /\ scene' = [scene EXCEPT ![i].listed = saved, ![i].loading = FALSE]
    /\ UNCHANGED <<now, writerVars, stored, cached, viewer>>

\* The files are listed from the committed database, ...
List(i) ==
    /\ scene[i].loading /\ scene[i].listed = Partial
    /\ scene' = [scene EXCEPT ![i].listed = saved]
    /\ UNCHANGED <<now, writerVars, stored, cached, viewer>>

\* ... and the tags searched for become a dependency once the search is parsed, its
\* text embedded and the listing started, before or after the listing reads; ...
DependOnTags(i) ==
    /\ scene[i].loading /\ ~scene[i].searched
    /\ scene' = [scene EXCEPT ![i].searched = TRUE]
    /\ UNCHANGED <<now, writerVars, stored, cached, viewer>>

\* ... the photos are laid out and indexed, ...
Layout(i) ==
    /\ scene[i].searched
    /\ scene[i].listed # scene[i].content
    /\ scene' = [scene EXCEPT ![i].content = scene[i].listed]
    /\ UNCHANGED <<now, writerVars, stored, cached, viewer>>

\* ... then the collection becomes a dependency, and Loading is cleared.
LoadEnds(i) ==
    /\ scene[i].loading /\ scene[i].content # Partial
    /\ scene' = [scene EXCEPT ![i].loading = FALSE, ![i].dependent = TRUE]
    /\ UNCHANGED <<now, writerVars, stored, cached, viewer>>

----------------------------------------------------------------------------
(* Lookups.                                                                *)

\* Dependency.UpdatedAt: the tags' time is read again unless the last update
\* known is of this second.
TagTime(s) == IF Second(s.tagTime) = Second(now) /\ s.tagTime > 0 THEN s.tagTime ELSE tagged

\* Faulty variant: the search becomes a dependency with the collection.
StaleOnceLoaded(s) == s.dependent /\ (TagTime(s) > s.created \/ invalidated > s.created)

\* UpdateStaleness, as a lookup would find it now, with the dependencies there are.
Stale(s) ==
    \/ s.searched /\ TagTime(s) > s.created
    \/ s.dependent /\ invalidated > s.created

\* GetSceneById: the cache answers, or the map does and the scene is then put
\* into the cache, perhaps after it has been pruned.
Find(v, i) ==
    /\ viewer[v].at = "idle"
    /\ i \in stored \cup cached
    /\ scene' = [scene EXCEPT ![i].tagTime = IF scene[i].searched THEN TagTime(scene[i]) ELSE @]
    /\ viewer' = [viewer EXCEPT ![v] =
                    ViewerAt(IF i \in cached THEN "found" ELSE "cache", i)]
    /\ UNCHANGED <<now, writerVars, stored, cached>>

CacheScene(v) ==
    /\ viewer[v].at = "cache"
    /\ cached' = cached \cup {viewer[v].id}
    /\ viewer' = [viewer EXCEPT ![v].at = "found"]
    /\ UNCHANGED <<now, writerVars, scene, stored>>

\* GetScenesSceneIdTilesImpl: Loading is read first, ...
ReadLoading(v) ==
    /\ viewer[v].at = "found"
    /\ viewer' = [viewer EXCEPT ![v] =
                    [@ EXCEPT !.at = "draw", !.incomplete = scene[viewer[v].id].loading]]
    /\ UNCHANGED <<now, writerVars, sceneVars>>

\* ... then the tile is drawn and answered, to be cached for a day unless the
\* scene was incomplete.
Draw(v) ==
    /\ viewer[v].at = "draw"
    /\ viewer' = [viewer EXCEPT ![v] =
                    [@ EXCEPT !.at = "answer", !.drawn = scene[viewer[v].id].content]]
    /\ UNCHANGED <<now, writerVars, sceneVars>>

Answer(v) ==
    /\ viewer[v].at = "answer"
    /\ viewer' = [viewer EXCEPT ![v] = Idle]
    /\ UNCHANGED <<now, writerVars, sceneVars>>

View(v) == (\E i \in Ids : Find(v, i)) \/ CacheScene(v) \/ ReadLoading(v) \/ Draw(v) \/ Answer(v)

Next ==
    \/ Writer \/ Pass
    \/ \E i \in Ids : Add(i) \/ List(i) \/ DependOnTags(i) \/ Layout(i) \/ LoadEnds(i)
    \/ \E v \in Viewers : View(v)

Spec == Init /\ [][Next]_vars

----------------------------------------------------------------------------
(* Properties.                                                             *)

\* "Refreshing the page should now always show the up to date view": a loaded
\* scene that does not show the committed files is seen to be stale by the next
\* lookup, or as soon as the writer has reported the directories it has updated.
ChangesAreNoticed ==
    \A i \in Ids :
        scene[i].dependent /\ scene[i].content # saved =>
            Stale(scene[i]) \/ dirty \/ unindexed

\* A change of a tag that a scene was searched by is noticed by the first lookup
\* in a later second that finds photos in the scene, though it was made while the
\* scene loaded and had no dependency yet; except when it was made in the scene's
\* first millisecond.
TagChangesAreNoticed ==
    \A i \in Ids :
        LET s == scene[i]
        IN  /\ s.content # Partial
            /\ tagged > Millisecond(s.created)
            /\ Second(now) > Second(tagged)
            => Stale(s)

\* A tile that a browser may keep for a day shows the complete scene, although
\* the scene loads while it is drawn.
KeptTilesAreComplete ==
    \A v \in Viewers :
        viewer[v].at = "answer" /\ ~viewer[v].incomplete => viewer[v].drawn # Partial
=============================================================================
