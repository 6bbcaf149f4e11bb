---------------------------- MODULE ConfigReload ----------------------------
(***************************************************************************)
(* watchConfig of config.go: the configuration is loaded again when its    *)
(* file changes and when a directory appears below one whose               *)
(* subdirectories are collections (expand_subdirs).  One goroutine takes   *)
(* the events of two watchers; a reload reads the configuration and lists  *)
(* the directories, replaces the watcher of the directories, and applies   *)
(* the result.                                                             *)
(*                                                                         *)
(* A configuration is a version; Absent is no file, for which the defaults *)
(* are taken.                                                              *)
(***************************************************************************)
EXTENDS FileWatcher

CONSTANTS
    Config, Expand, \* the two watchers
    Absent,         \* the version of a file that is not there
    MaxVersion,     \* bound: versions of the configuration written
    MaxChanges      \* bound: changes of the file and the directories

ASSUME ConfigReloadAssumption ==
    /\ Watchers = {Config, Expand} /\ Config # Expand
    /\ Absent \notin Nat
    /\ MaxVersion \in Nat /\ MaxChanges \in Nat

VARIABLES
    file,           \* the version of the configuration file
    version,        \* the last version written
    dirs,           \* the subdirectories there are
    at,             \* where the goroutine is: "watch", "load", "rewatch", "apply"
    loaded,         \* what loadConfig returned
    applied,        \* what applyConfig was called with
    missed,         \* history: directories made after their parent was listed
                    \* and before it was watched
    changes         \* bound

worldVars == <<file, version, dirs, missed, changes>>
reloadVars == <<at, loaded, applied>>
vars == <<watcherVars, worldVars, reloadVars>>

Init ==
    /\ InitWatchers
    /\ version = 0
    /\ file \in {0, Absent}
    /\ dirs \in SUBSET Paths[Expand]
    /\ at = "watch"
    /\ loaded = [version |-> file, dirs |-> dirs]
    /\ applied = loaded
    /\ missed = {}
    /\ changes = 0

----------------------------------------------------------------------------
(* The file system and those who use it.                                   *)

Unwatched(w) == UNCHANGED <<next, pending, ticker, renamed, events, age>>
Listed == at = "rewatch"

WriteConfig ==
    /\ version < MaxVersion /\ changes < MaxChanges
    /\ changes' = changes + 1
    /\ version' = version + 1
    /\ file' = version'
    /\ \E p \in Paths[Config] : Notify(Config, <<[op |-> "update", path |-> p]>>)
    /\ Unwatched(Config)
    /\ UNCHANGED <<dirs, missed, reloadVars>>

RemoveConfig ==
    /\ changes < MaxChanges
    /\ file # Absent
    /\ changes' = changes + 1
    /\ file' = Absent
    /\ \E p \in Paths[Config] : Notify(Config, <<[op |-> "remove", path |-> p]>>)
    /\ Unwatched(Config)
    /\ UNCHANGED <<version, dirs, missed, reloadVars>>

ChangeDirs(new, ns) ==
    /\ changes < MaxChanges
    /\ changes' = changes + 1
    /\ dirs' = new
    /\ missed' = (missed \cap new) \cup (IF Listed THEN new \ dirs ELSE {})
    /\ Notify(Expand, ns)
    /\ Unwatched(Expand)
    /\ UNCHANGED <<file, version, reloadVars>>

MakeDir ==
    \E d \in Paths[Expand] \ dirs :
        ChangeDirs(dirs \cup {d}, <<[op |-> "update", path |-> d]>>)

RemoveDir ==
    \E d \in dirs : ChangeDirs(dirs \ {d}, <<[op |-> "remove", path |-> d]>>)

RenameDir ==
    \E d \in dirs, e \in Paths[Expand] \ dirs :
        ChangeDirs((dirs \ {d}) \cup {e},
                   <<[op |-> "rename", path |-> e], [op |-> "rename", path |-> d]>>)

----------------------------------------------------------------------------
(* The goroutine of watchConfig.                                           *)

TakeEvent(w) ==
    /\ at = "watch"
    /\ events[w] # <<>>
    /\ events' = [events EXCEPT ![w] = Tail(@)]
    /\ UNCHANGED <<notified, next, pending, ticker, renamed, age, worldVars, loaded, applied>>

ConfigChanged == TakeEvent(Config) /\ at' = "load"

\* Faulty variant: a renamed directory does not count.
CollectionsChangedByUpdate ==
    /\ TakeEvent(Expand)
    /\ LET e == Head(events[Expand])
       IN  at' = IF e.op = "update" /\ e.path \in dirs THEN "load" ELSE "watch"

\* A new or renamed directory counts.  A removed one never does: its path is
\* compared with the collections' directories, which end in a separator.
CollectionsChanged ==
    /\ TakeEvent(Expand)
    /\ LET e == Head(events[Expand])
       IN  at' = IF e.op \in {"update", "rename"} /\ e.path \in dirs THEN "load" ELSE "watch"

\* loadConfig: the file is read, and the directories are expanded.
Load ==
    /\ at = "load"
    /\ loaded' = [version |-> file, dirs |-> dirs]
    /\ at' = "rewatch"
    /\ UNCHANGED <<watcherVars, worldVars, applied>>

\* Faulty variant: what the watchers have reported meanwhile is dropped.
RewatchBoth ==
    /\ at = "rewatch"
    /\ at' = "apply"
    /\ events' = [w \in Watchers |-> <<>>]
    /\ UNCHANGED <<notified, next, pending, ticker, renamed, age, worldVars, loaded, applied>>

Rewatch ==
    /\ at = "rewatch"
    /\ at' = "apply"
    /\ Rewatched(Expand)
    /\ UNCHANGED <<worldVars, loaded, applied>>

Apply ==
    /\ at = "apply"
    /\ at' = "watch"
    /\ applied' = loaded
    /\ UNCHANGED <<watcherVars, worldVars, loaded>>

----------------------------------------------------------------------------
Change == WriteConfig \/ RemoveConfig \/ MakeDir \/ RemoveDir \/ RenameDir
Reload == ConfigChanged \/ CollectionsChanged \/ Load \/ Rewatch \/ Apply
Watch == (\E w \in Watchers : Run(w)) \/ Clock

Next ==
    \/ Change
    \/ Reload
    \/ Watch /\ UNCHANGED <<worldVars, reloadVars>>

Spec == Init /\ [][Next]_vars

\* Time passes, and the goroutines run; nobody has to change a file.
FairSpec == Spec /\ WF_vars(Reload) /\ WF_watcherVars(Watch)

----------------------------------------------------------------------------
(* Properties.                                                             *)

\* "The configuration should be automatically reloaded on yaml file change": a
\* configuration that stays is applied, whatever else changes meanwhile.
ConfigApplied ==
    \A v \in 1..MaxVersion : file = v ~> applied.version = v \/ file # v

\* "If you change the dirs the server is automatically reloaded": a directory
\* that stays becomes a collection, also when it was renamed or made again, but
\* not when it is made while a reload has listed the directories already.
DirsCollected ==
    \A d \in Paths[Expand] :
        d \in dirs ~> d \in applied.dirs \/ d \notin dirs \/ d \in missed
=============================================================================
