------------------------- MODULE ConfigReloadProofs --------------------------
(***************************************************************************)
(* Proofs about the watchers of ConfigReload, for any watchers, paths,     *)
(* interval and room for notifications: an update that is held back is     *)
(* reported in time, and not before its file was quiet.                    *)
(***************************************************************************)
EXTENDS ConfigReload, SequenceLemmas

Held(w) == Seq(Paths[w] \cup {NoPath})
Notification(w) == [op : {"update", "remove", "rename"}, path : Paths[w]]
Report(w) == [op : {"update", "remove", "rename"}, path : Paths[w], old : Paths[w] \cup {NoPath}]

\* The types of what the proof is about, by watcher.
WatcherType(w) ==
    /\ notified[w] \in Seq(Notification(w))
    /\ next[w] \in Held(w) /\ pending[w] \in Held(w)
    /\ ticker[w] \in -1..Interval
    /\ renamed[w] \in Paths[w] \cup {NoPath}
    /\ events[w] \in Seq(Report(w))
    /\ age[w] \in [Paths[w] -> 0..Old]

\* While updates are held back the ticker runs, and since it was started for the
\* last of them some update is as recent as it tells.
Running(w) ==
    /\ ticker[w] = Stopped => next[w] = <<>> /\ pending[w] = <<>>
    /\ pending[w] # <<>> => \E p \in Paths[w] : age[w][p] <= Interval - ticker[w]
    /\ next[w] # <<>> /\ pending[w] = <<>> =>
          \E p \in Paths[w] : age[w][p] <= 2 * Interval - ticker[w]

\* A path that is due has been quiet since the ticker was started, unless it is
\* pending again.
Quiet(w) ==
    \A p \in Paths[w] :
        Has(next[w], p) => Has(pending[w], p) \/ age[w][p] >= Interval - ticker[w]

WatcherInv(w) == WatcherType(w) /\ Running(w) /\ Quiet(w)

ByWatcher(f) == f = [w \in Watchers |-> f[w]]

WInv ==
    /\ ByWatcher(notified) /\ ByWatcher(next) /\ ByWatcher(pending) /\ ByWatcher(ticker)
    /\ ByWatcher(renamed) /\ ByWatcher(events) /\ ByWatcher(age)
    /\ dirs \subseteq Paths[Expand]
    /\ \A w \in Watchers : WatcherInv(w)
----------------------------------------------------------------------------
(* Facts about the operators of the model.                                 *)

\* Striking a path from a list keeps the others and the length.
LEMMA Struck ==
    ASSUME NEW w, NEW paths \in Held(w), NEW p
    PROVE  /\ Strike(paths, p) \in Held(w)
           /\ Strike(paths, p) = <<>> => paths = <<>>
           /\ paths = <<>> => Strike(paths, p) = <<>>
           /\ \A q \in Paths[w] : q # NoPath =>
                 (Has(Strike(paths, p), q) <=> Has(paths, q) /\ q # p)
<1>. DEFINE r == Strike(paths, p)
<1>1. r \in Held(w) /\ Len(r) = Len(paths) /\ DOMAIN r = DOMAIN paths
  BY DEF Held, Strike
<1>2. ASSUME NEW q \in Paths[w], q # NoPath
      PROVE  Has(r, q) <=> Has(paths, q) /\ q # p
  BY <1>2 DEF Strike, Has, ToSet
<1>3. (r = <<>>) <=> (paths = <<>>)
  <2>. HIDE DEF r
  <2>. QED  BY <1>1, EmptySeq DEF Held
<1>. QED  BY <1>1, <1>2, <1>3

\* A path is in a list that it was appended to, and so are the others still.
LEMMA Appended ==
    ASSUME NEW w, NEW paths \in Held(w), NEW p \in Paths[w]
    PROVE  /\ Append(paths, p) \in Held(w) /\ Append(paths, p) # <<>>
           /\ Has(Append(paths, p), p)
           /\ \A q : Has(paths, q) => Has(Append(paths, p), q)
<1>. DEFINE r == Append(paths, p)
<1>1. paths \in Seq(Paths[w] \cup {NoPath}) /\ Len(paths) \in Nat
  BY DEF Held
<1>2. /\ r \in Seq(Paths[w] \cup {NoPath}) /\ DOMAIN r = 1..Len(paths) + 1
      /\ r[Len(paths) + 1] = p
      /\ \A i \in 1..Len(paths) : r[i] = paths[i]
  BY <1>1
<1>. HIDE DEF r
<1>3. Len(paths) + 1 \in DOMAIN r /\ DOMAIN paths \subseteq DOMAIN r /\ DOMAIN paths = 1..Len(paths)
  BY <1>1, <1>2
<1>4. r # <<>>
  BY <1>3
<1>5. Has(r, p)
  BY <1>2, <1>3 DEF Has, ToSet
<1>6. \A q : Has(paths, q) => Has(r, q)
  BY <1>2, <1>3 DEF Has, ToSet
<1>. QED  BY <1>2, <1>4, <1>5, <1>6 DEF Held, r

\* The updates of a list are of its paths.
LEMMA UpdatesListed ==
    ASSUME NEW w, NEW paths \in Held(w)
    PROVE  /\ Updates(paths) \in Seq(Report(w))
           /\ \A i \in DOMAIN Updates(paths) :
                 /\ Updates(paths)[i].op = "update"
                 /\ Has(paths, Updates(paths)[i].path)
<1>. DEFINE K == {i \in DOMAIN paths :
                    paths[i] # NoPath /\ (i > 1 => paths[i - 1] # paths[i])}
            kept == Ascending(K)
<1>1. DOMAIN paths = 1..Len(paths) /\ Len(paths) \in Nat
  BY DEF Held
<1>2. K \in SUBSET Int /\ IsFiniteSet(K)
  <2>1. IsFiniteSet(1..Len(paths))
    BY <1>1, FS_Interval
  <2>2. K \in SUBSET (1..Len(paths))
    BY <1>1
  <2>3. IsFiniteSet(K)
    <3>. HIDE DEF K
    <3>. QED  BY <2>1, <2>2, FS_Subset
  <2>. QED  BY <2>2, <2>3
<1>3. DOMAIN kept = 1..Cardinality(K) /\ Cardinality(K) \in Nat /\ \A i \in DOMAIN kept : kept[i] \in K
  <2>. HIDE DEF K
  <2>1. Cardinality(K) \in Nat /\ kept \in Seq(K) /\ Len(kept) = Cardinality(K)
        /\ \A i \in 1..Cardinality(K) : kept[i] \in K
    BY <1>2, AscendingElements
  <2>. HIDE DEF kept
  <2>2. DOMAIN kept = 1..Cardinality(K)
    BY <2>1
  <2>. QED  BY <2>1, <2>2
<1>4. Updates(paths) = [i \in DOMAIN kept |-> Event("update", paths[kept[i]], NoPath)]
  BY DEF Updates
<1>5. \A i \in DOMAIN kept : paths[kept[i]] \in Paths[w] /\ Has(paths, paths[kept[i]])
  <2>1. \A k \in K : paths[k] \in Paths[w] /\ Has(paths, paths[k])
    BY DEF Held, Has, ToSet
  <2>. HIDE DEF K, kept
  <2>. QED  BY <2>1, <1>3
<1>6. ASSUME NEW i \in DOMAIN kept
      PROVE  Event("update", paths[kept[i]], NoPath) \in Report(w)
  BY <1>5 DEF Event, Report
<1>. HIDE DEF kept
<1>7. Updates(paths) \in [1..Cardinality(K) -> Report(w)]
  BY <1>3, <1>4, <1>6
<1>8. Updates(paths) \in Seq(Report(w))
  <2>. HIDE DEF K
  <2>. QED  BY <1>3, <1>7
<1>. QED  BY <1>4, <1>5, <1>8 DEF Event

\* The notifications that there is room for.
LEMMA NotifiedType ==
    ASSUME NEW w, NEW q \in Seq(Notification(w)), NEW ns \in Seq(Notification(w))
    PROVE  LET all == q \o ns
           IN  SubSeq(all, 1, IF Len(all) < Capacity THEN Len(all) ELSE Capacity)
                  \in Seq(Notification(w))
<1>. DEFINE all == q \o ns
            n == IF Len(all) < Capacity THEN Len(all) ELSE Capacity
<1>1. all \in Seq(Notification(w)) /\ Len(all) \in Nat
  OBVIOUS
<1>. HIDE DEF all
<1>2. n \in Nat /\ n <= Len(all)
  BY <1>1, FileWatcherAssumption
<1>3. \A i \in 1..n : all[i] \in Notification(w)
  <2>. HIDE DEF n
  <2>. QED  BY <1>1, <1>2
<1>4. SubSeq(all, 1, n) \in Seq(Notification(w))
  <2>1. 1 \in Int /\ n \in Int
    BY <1>2
  <2>. HIDE DEF n
  <2>. QED  BY <1>3, <2>1, SubSeqProperties
<1>. QED  BY <1>4 DEF all

----------------------------------------------------------------------------
(* The steps.                                                              *)

\* A step of one watcher leaves the others alone.
Untouched(v) ==
    /\ notified'[v] = notified[v] /\ next'[v] = next[v] /\ pending'[v] = pending[v]
    /\ ticker'[v] = ticker[v] /\ renamed'[v] = renamed[v] /\ events'[v] = events[v]
    /\ age'[v] = age[v]
Moved(w) ==
    /\ ByWatcher(notified)' /\ ByWatcher(next)' /\ ByWatcher(pending)' /\ ByWatcher(ticker)'
    /\ ByWatcher(renamed)' /\ ByWatcher(events)' /\ ByWatcher(age)'
    /\ \A v \in Watchers \ {w} : Untouched(v)

LEMMA OthersKept == ASSUME NEW v, WatcherInv(v), Untouched(v) PROVE WatcherInv(v)'
  BY DEF WatcherInv, WatcherType, Running, Quiet, Untouched

LEMMA OneMoved ==
    ASSUME WInv, NEW w, Moved(w), w \in Watchers => WatcherInv(w)', dirs' \subseteq Paths[Expand]
    PROVE  WInv'
<1>1. ASSUME NEW v \in Watchers PROVE WatcherInv(v)'
  BY OthersKept DEF WInv, Moved
<1>. QED  BY <1>1 DEF WInv, Moved

\* It holds at the start.
LEMMA WInvInit == Init => WInv
<1>. SUFFICES ASSUME Init PROVE WInv
  OBVIOUS
<1>. USE DEF Init, InitWatchers
<1>1. Interval \in Nat /\ Interval > 0 /\ Old \in 0..Old /\ Stopped \in -1..Interval
  BY FileWatcherAssumption DEF Old, Stopped
<1>2. dirs \subseteq Paths[Expand]
  OBVIOUS
<1>3. ASSUME NEW w \in Watchers PROVE WatcherInv(w)
  <2>1. WatcherType(w)
    BY <1>1 DEF WatcherType, Held
  <2>2. Running(w) /\ Quiet(w)
    BY DEF Running, Quiet, Has, ToSet
  <2>. QED  BY <2>1, <2>2 DEF WatcherInv
<1>. QED  BY <1>2, <1>3 DEF WInv, ByWatcher
\* Changes of the configuration file and the directories notify a watcher.
LEMMA NotifyKeeps ==
    ASSUME WInv, NEW w \in Watchers, NEW ns \in Seq(Notification(w)),
           Notify(w, ns), Unwatched(w), dirs' \subseteq Paths[Expand]
    PROVE  WInv'
<1>1. Moved(w)
  BY DEF Moved, WInv, ByWatcher, Notify, Unwatched, Untouched
<1>2. notified'[w] \in Seq(Notification(w))
  BY NotifiedType DEF WInv, ByWatcher, Notify, WatcherInv, WatcherType
<1>3. WatcherInv(w)'
  BY <1>2 DEF WInv, WatcherInv, WatcherType, Running, Quiet, Unwatched
<1>. QED  BY <1>1, <1>3, OneMoved

LEMMA ChangeKeeps == WInv /\ Change => WInv'
<1>. SUFFICES ASSUME WInv, Change PROVE WInv'
  OBVIOUS
<1>1. Config \in Watchers /\ Expand \in Watchers
  BY ConfigReloadAssumption
<1>2. dirs \subseteq Paths[Expand]
  BY DEF WInv
<1>3. ASSUME NEW w, NEW p \in Paths[w], NEW op \in {"update", "remove", "rename"}
      PROVE  <<[op |-> op, path |-> p]>> \in Seq(Notification(w))
  BY DEF Notification
<1>4. ASSUME WriteConfig \/ RemoveConfig PROVE WInv'
  <2>1. PICK p \in Paths[Config], op \in {"update", "remove", "rename"} :
            /\ Notify(Config, <<[op |-> op, path |-> p]>>)
            /\ Unwatched(Config) /\ UNCHANGED dirs
    BY <1>4 DEF WriteConfig, RemoveConfig
  <2>. QED  BY <1>1, <1>2, <1>3, <2>1, NotifyKeeps
<1>5. ASSUME NEW new, NEW ns \in Seq(Notification(Expand)), ChangeDirs(new, ns),
             new \subseteq Paths[Expand]
      PROVE  WInv'
  BY <1>1, <1>5, NotifyKeeps DEF ChangeDirs
<1>6. ASSUME MakeDir PROVE WInv'
  <2>1. PICK d \in Paths[Expand] \ dirs :
            ChangeDirs(dirs \cup {d}, <<[op |-> "update", path |-> d]>>)
    BY <1>6 DEF MakeDir
  <2>2. dirs \cup {d} \subseteq Paths[Expand]
    BY <1>2
  <2>. QED  BY <1>3, <1>5, <2>1, <2>2
<1>7. ASSUME RemoveDir PROVE WInv'
  <2>1. PICK d \in dirs : ChangeDirs(dirs \ {d}, <<[op |-> "remove", path |-> d]>>)
    BY <1>7 DEF RemoveDir
  <2>2. d \in Paths[Expand] /\ dirs \ {d} \subseteq Paths[Expand]
    BY <1>2
  <2>. QED  BY <1>3, <1>5, <2>1, <2>2
<1>8. ASSUME RenameDir PROVE WInv'
  <2>1. PICK d \in dirs, e \in Paths[Expand] \ dirs :
            ChangeDirs((dirs \ {d}) \cup {e},
                       <<[op |-> "rename", path |-> e], [op |-> "rename", path |-> d]>>)
    BY <1>8 DEF RenameDir
  <2>2. (dirs \ {d}) \cup {e} \subseteq Paths[Expand]
    BY <1>2
  <2>3. <<[op |-> "rename", path |-> e], [op |-> "rename", path |-> d]>>
            \in Seq(Notification(Expand))
    BY <1>2 DEF Notification
  <2>. QED  BY <1>5, <2>1, <2>2, <2>3
<1>. QED  BY <1>4, <1>6, <1>7, <1>8 DEF Change

\* Taking a notification.
LEMMA Taken ==
    ASSUME WInv, NEW w \in Watchers, NEW op, Take(w, op)
    PROVE  /\ ByWatcher(notified)'
           /\ \A v \in Watchers \ {w} : notified'[v] = notified[v]
           /\ notified'[w] \in Seq(Notification(w))
           /\ Head(notified[w]).path \in Paths[w] /\ Head(notified[w]).path # NoPath
<1>1. notified[w] \in Seq(Notification(w)) /\ notified[w] # <<>>
  BY DEF WInv, WatcherInv, WatcherType, Take
<1>2. Head(notified[w]) \in Notification(w) /\ Tail(notified[w]) \in Seq(Notification(w))
  BY <1>1
<1>3. Head(notified[w]).path \in Paths[w]
  BY <1>2 DEF Notification
<1>. QED  BY <1>2, <1>3, FileWatcherAssumption DEF WInv, ByWatcher, Take

\* Reporting.
LEMMA Emitted ==
    ASSUME WInv, NEW w \in Watchers, NEW es \in Seq(Report(w)), Emit(w, es)
    PROVE  /\ ByWatcher(events)'
           /\ \A v \in Watchers \ {w} : events'[v] = events[v]
           /\ events'[w] \in Seq(Report(w))
<1>1. events[w] \in Seq(Report(w))
  BY DEF WInv, WatcherInv, WatcherType
<1>2. events[w] \o es \in Seq(Report(w))
  BY <1>1
<1>. QED  BY <1>2 DEF WInv, ByWatcher, Emit

LEMMA RenameKeeps ==
    ASSUME WInv, NEW w \in Watchers, HandleRename(w) PROVE Moved(w) /\ WatcherInv(w)'
<1>. DEFINE p == Head(notified[w]).path
<1>1. /\ ByWatcher(notified)'
      /\ \A v \in Watchers \ {w} : notified'[v] = notified[v]
      /\ notified'[w] \in Seq(Notification(w))
      /\ p \in Paths[w] /\ p # NoPath
  BY Taken DEF HandleRename
<1>. HIDE DEF p
<1>2. renamed[w] \in Paths[w] \cup {NoPath}
  BY DEF WInv, WatcherInv, WatcherType
<1>3. /\ ByWatcher(renamed)' /\ ByWatcher(events)'
      /\ \A v \in Watchers \ {w} : events'[v] = events[v] /\ renamed'[v] = renamed[v]
      /\ events'[w] \in Seq(Report(w)) /\ renamed'[w] \in Paths[w] \cup {NoPath}
  <2>1. CASE renamed[w] = NoPath
    <3>1. renamed' = [renamed EXCEPT ![w] = p] /\ UNCHANGED events
      BY <2>1 DEF HandleRename, p
    <3>. QED  BY <3>1, <1>1 DEF WInv, ByWatcher, WatcherInv, WatcherType
  <2>2. CASE renamed[w] # NoPath
    <3>1. /\ Emit(w, <<Event("rename", renamed[w], p)>>)
          /\ renamed' = [renamed EXCEPT ![w] = NoPath]
      BY <2>2 DEF HandleRename, p
    <3>2. <<Event("rename", renamed[w], p)>> \in Seq(Report(w))
      BY <1>1, <1>2, <2>2 DEF Event, Report
    <3>3. ByWatcher(renamed)' /\ renamed'[w] = NoPath
          /\ \A v \in Watchers \ {w} : renamed'[v] = renamed[v]
      BY <3>1 DEF WInv, ByWatcher
    <3>. QED  BY <3>1, <3>2, <3>3, Emitted
  <2>. QED  BY <2>1, <2>2
<1>4. UNCHANGED <<next, pending, ticker, age>>
  BY DEF HandleRename
<1>5. Moved(w)
  BY <1>1, <1>3, <1>4 DEF Moved, WInv, ByWatcher, Untouched
<1>6. WatcherInv(w)'
  BY <1>1, <1>3, <1>4 DEF WInv, WatcherInv, WatcherType, Running, Quiet
<1>. QED  BY <1>5, <1>6

LEMMA UpdateKeeps ==
    ASSUME WInv, NEW w \in Watchers, HandleUpdate(w) PROVE Moved(w) /\ WatcherInv(w)'
<1>. DEFINE p == Head(notified[w]).path
<1>1. /\ ByWatcher(notified)'
      /\ \A v \in Watchers \ {w} : notified'[v] = notified[v]
      /\ notified'[w] \in Seq(Notification(w))
      /\ p \in Paths[w] /\ p # NoPath
  BY Taken DEF HandleUpdate
<1>2. /\ age' = [age EXCEPT ![w][p] = 0]
      /\ IF Has(pending[w], p)
         THEN UNCHANGED <<pending, ticker>>
         ELSE /\ pending' = [pending EXCEPT ![w] = Append(@, p)]
              /\ ticker' = [ticker EXCEPT ![w] = Interval]
      /\ UNCHANGED <<next, renamed, events>>
  BY DEF HandleUpdate
<1>. HIDE DEF p
<1>3. Interval \in Nat /\ Interval > 0 /\ Old = 2 * Interval + 1
  BY FileWatcherAssumption DEF Old
<1>4. WatcherType(w) /\ Running(w) /\ Quiet(w)
  BY DEF WInv, WatcherInv
<1>5. /\ ByWatcher(age)' /\ \A v \in Watchers \ {w} : age'[v] = age[v]
      /\ age'[w] = [age[w] EXCEPT ![p] = 0]
  BY <1>2 DEF WInv, ByWatcher
<1>6. /\ age'[w] \in [Paths[w] -> 0..Old] /\ age'[w][p] = 0
      /\ \A q \in Paths[w] : q # p => age'[w][q] = age[w][q]
  BY <1>1, <1>3, <1>4, <1>5 DEF WatcherType
<1>7. CASE Has(pending[w], p)
  <2>1. UNCHANGED <<next, pending, ticker, renamed, events>>
    BY <1>2, <1>7
  <2>2. Moved(w)
    BY <1>1, <1>5, <2>1 DEF Moved, WInv, ByWatcher, Untouched
  <2>3. WatcherType(w)'
    BY <1>1, <1>4, <1>6, <2>1 DEF WatcherType
  <2>4. pending[w] # <<>> /\ ticker[w] \in 0..Interval
    BY <1>4, <1>7 DEF Has, ToSet, Running, WatcherType, Stopped
  <2>5. Running(w)'
    BY <1>1, <1>3, <1>6, <2>1, <2>4 DEF Running, Stopped
  <2>6. Quiet(w)'
    BY <1>4, <1>6, <1>7, <2>1 DEF Quiet
  <2>. QED  BY <2>2, <2>3, <2>5, <2>6 DEF WatcherInv
<1>8. CASE ~Has(pending[w], p)
  <2>1. /\ pending' = [pending EXCEPT ![w] = Append(@, p)]
        /\ ticker' = [ticker EXCEPT ![w] = Interval]
        /\ UNCHANGED <<next, renamed, events>>
    BY <1>2, <1>8
  <2>2. /\ ByWatcher(pending)' /\ ByWatcher(ticker)'
        /\ \A v \in Watchers \ {w} : pending'[v] = pending[v] /\ ticker'[v] = ticker[v]
        /\ pending'[w] = Append(pending[w], p) /\ ticker'[w] = Interval
    BY <2>1 DEF WInv, ByWatcher
  <2>3. Moved(w)
    BY <1>1, <1>5, <2>1, <2>2 DEF Moved, WInv, ByWatcher, Untouched
  <2>4. /\ pending'[w] \in Held(w) /\ pending'[w] # <<>> /\ Has(pending'[w], p)
        /\ \A q : Has(pending[w], q) => Has(pending'[w], q)
    BY <1>1, <1>4, <2>2, Appended DEF WatcherType
  <2>5. WatcherType(w)'
    BY <1>1, <1>3, <1>4, <1>6, <2>1, <2>2, <2>4 DEF WatcherType
  <2>6. Running(w)'
    BY <1>1, <1>3, <1>6, <2>2, <2>4 DEF Running, Stopped
  <2>7. Quiet(w)'
    <3>1. \A q \in Paths[w] : age'[w][q] >= 0
      BY <1>3, <1>6
    <3>. QED  BY <1>3, <2>2, <3>1 DEF Quiet
  <2>. QED  BY <2>3, <2>5, <2>6, <2>7 DEF WatcherInv
<1>. QED  BY <1>7, <1>8
LEMMA RemoveKeeps ==
    ASSUME WInv, NEW w \in Watchers, HandleRemove(w) PROVE Moved(w) /\ WatcherInv(w)'
<1>. DEFINE p == Head(notified[w]).path
<1>1. /\ ByWatcher(notified)'
      /\ \A v \in Watchers \ {w} : notified'[v] = notified[v]
      /\ notified'[w] \in Seq(Notification(w))
      /\ p \in Paths[w] /\ p # NoPath
  BY Taken DEF HandleRemove
<1>2. /\ \/ /\ Has(next[w], p)
            /\ next' = [next EXCEPT ![w] = Strike(@, p)]
            /\ UNCHANGED <<pending, events>>
         \/ /\ ~Has(next[w], p)
            /\ pending' = [pending EXCEPT ![w] = Strike(@, p)]
            /\ UNCHANGED <<next, events>>
         \/ /\ Emit(w, <<Event("remove", p, NoPath)>>)
            /\ UNCHANGED <<next, pending>>
      /\ UNCHANGED <<ticker, renamed, age>>
  BY DEF HandleRemove
<1>. HIDE DEF p
<1>3. WatcherType(w) /\ Running(w) /\ Quiet(w)
  BY DEF WInv, WatcherInv
<1>4. \A q \in Paths[w] : q # NoPath
  BY FileWatcherAssumption
<1>5. CASE Has(next[w], p) /\ next' = [next EXCEPT ![w] = Strike(@, p)]
           /\ UNCHANGED <<pending, events>>
  <2>1. /\ ByWatcher(next)' /\ next'[w] = Strike(next[w], p)
        /\ \A v \in Watchers \ {w} : next'[v] = next[v]
    BY <1>5 DEF WInv, ByWatcher
  <2>2. /\ next'[w] \in Held(w) /\ (next'[w] = <<>> <=> next[w] = <<>>)
        /\ \A q \in Paths[w] : Has(next'[w], q) => Has(next[w], q)
    BY <1>3, <1>4, <2>1, Struck DEF WatcherType
  <2>3. Moved(w)
    BY <1>1, <1>2, <1>5, <2>1 DEF Moved, WInv, ByWatcher, Untouched
  <2>4. WatcherInv(w)'
    BY <1>1, <1>2, <1>3, <1>5, <2>2 DEF WatcherInv, WatcherType, Running, Quiet
  <2>. QED  BY <2>3, <2>4
<1>6. CASE ~Has(next[w], p) /\ pending' = [pending EXCEPT ![w] = Strike(@, p)]
           /\ UNCHANGED <<next, events>>
  <2>1. /\ ByWatcher(pending)' /\ pending'[w] = Strike(pending[w], p)
        /\ \A v \in Watchers \ {w} : pending'[v] = pending[v]
    BY <1>6 DEF WInv, ByWatcher
  <2>2. /\ pending'[w] \in Held(w) /\ (pending'[w] = <<>> <=> pending[w] = <<>>)
        /\ \A q \in Paths[w] : Has(pending[w], q) /\ q # p => Has(pending'[w], q)
    BY <1>3, <1>4, <2>1, Struck DEF WatcherType
  <2>3. Moved(w)
    BY <1>1, <1>2, <1>6, <2>1 DEF Moved, WInv, ByWatcher, Untouched
  <2>4. WatcherInv(w)'
    BY <1>1, <1>2, <1>3, <1>6, <2>2 DEF WatcherInv, WatcherType, Running, Quiet
  <2>. QED  BY <2>3, <2>4
<1>7. CASE Emit(w, <<Event("remove", p, NoPath)>>) /\ UNCHANGED <<next, pending>>
  <2>1. <<Event("remove", p, NoPath)>> \in Seq(Report(w))
    BY <1>1 DEF Event, Report
  <2>2. /\ ByWatcher(events)' /\ events'[w] \in Seq(Report(w))
        /\ \A v \in Watchers \ {w} : events'[v] = events[v]
    BY <1>7, <2>1, Emitted
  <2>3. Moved(w)
    BY <1>1, <1>2, <1>7, <2>2 DEF Moved, WInv, ByWatcher, Untouched
  <2>4. WatcherInv(w)'
    BY <1>1, <1>2, <1>3, <1>7, <2>2 DEF WatcherInv, WatcherType, Running, Quiet
  <2>. QED  BY <2>3, <2>4
<1>. QED  BY <1>2, <1>5, <1>6, <1>7

LEMMA TickKeeps ==
    ASSUME WInv, NEW w \in Watchers, Tick(w) PROVE Moved(w) /\ WatcherInv(w)'
<1>1. WatcherType(w) /\ Running(w)
  BY DEF WInv, WatcherInv
<1>2. Interval \in Nat /\ Interval > 0 /\ ticker[w] = 0 /\ Stopped \in -1..Interval
  BY FileWatcherAssumption DEF Tick, Stopped
<1>3. Updates(next[w]) \in Seq(Report(w))
  BY <1>1, UpdatesListed DEF WatcherType
<1>4. /\ ByWatcher(events)' /\ events'[w] \in Seq(Report(w))
      /\ \A v \in Watchers \ {w} : events'[v] = events[v]
  BY <1>3, Emitted DEF Tick
<1>5. /\ ByWatcher(next)' /\ ByWatcher(pending)' /\ ByWatcher(ticker)'
      /\ next'[w] = pending[w] /\ pending'[w] = <<>>
      /\ ticker'[w] = IF pending[w] = <<>> THEN Stopped ELSE Interval
      /\ \A v \in Watchers \ {w} :
            next'[v] = next[v] /\ pending'[v] = pending[v] /\ ticker'[v] = ticker[v]
      /\ UNCHANGED <<notified, renamed, age>>
  BY DEF Tick, WInv, ByWatcher
<1>6. Moved(w)
  BY <1>4, <1>5 DEF Moved, WInv, ByWatcher, Untouched
<1>7. WatcherType(w)'
  <2>1. <<>> \in Held(w)
    BY DEF Held
  <2>. QED  BY <1>1, <1>2, <1>4, <1>5, <2>1 DEF WatcherType
<1>8. Running(w)'
  <2>1. CASE pending[w] = <<>>
    BY <1>5, <2>1 DEF Running
  <2>2. CASE pending[w] # <<>>
    <3>1. PICK p \in Paths[w] : age[w][p] <= Interval - ticker[w]
      BY <1>1, <2>2 DEF Running
    <3>2. age'[w][p] <= 2 * Interval - ticker'[w] /\ ticker'[w] # Stopped
      BY <1>2, <1>5, <2>2, <3>1 DEF Stopped
    <3>. QED  BY <1>5, <3>2 DEF Running
  <2>. QED  BY <2>1, <2>2
<1>9. Quiet(w)'
  <2>1. CASE pending[w] = <<>>
    BY <1>5, <2>1 DEF Quiet, Has, ToSet
  <2>2. CASE pending[w] # <<>>
    <3>1. \A p \in Paths[w] : age'[w][p] \in Nat
      BY <1>1, <1>5 DEF WatcherType
    <3>2. ticker'[w] = Interval
      BY <1>5, <2>2
    <3>. QED  BY <1>2, <3>1, <3>2 DEF Quiet
  <2>. QED  BY <2>1, <2>2
<1>. QED  BY <1>6, <1>7, <1>8, <1>9 DEF WatcherInv

\* Time passes for all watchers.
LEMMA ClockKeeps == ASSUME WInv, Clock, dirs' = dirs PROVE WInv'
<1>1. Interval \in Nat /\ Interval > 0 /\ Old = 2 * Interval + 1
  BY FileWatcherAssumption DEF Old
<1>2. /\ UNCHANGED <<notified, next, pending, renamed, events>>
      /\ ticker' = [w \in Watchers |-> IF ticker[w] = Stopped THEN Stopped ELSE ticker[w] - 1]
      /\ age' = [w \in Watchers |-> [p \in Paths[w] |-> Later(age[w][p])]]
      /\ \A w \in Watchers : ticker[w] # 0
  BY DEF Clock
<1>3. ASSUME NEW w \in Watchers PROVE WatcherInv(w)'
  <2>1. WatcherType(w) /\ Running(w) /\ Quiet(w)
    BY DEF WInv, WatcherInv
  <2>2. /\ ticker'[w] = IF ticker[w] = -1 THEN -1 ELSE ticker[w] - 1
        /\ ticker[w] \in -1..Interval /\ ticker[w] # 0
    BY <1>2, <2>1 DEF WatcherType, Stopped
  <2>3. ticker'[w] \in -1..Interval /\ ticker'[w] <= ticker[w]
        /\ (ticker'[w] = -1 <=> ticker[w] = -1) /\ (ticker[w] # -1 => ticker'[w] = ticker[w] - 1)
    BY <1>1, <2>2
  <2>4. ASSUME NEW p \in Paths[w]
        PROVE  /\ age[w][p] \in 0..Old /\ age'[w][p] \in 0..Old
               /\ age'[w][p] <= age[w][p] + 1
               /\ age'[w][p] = age[w][p] + 1 \/ age'[w][p] >= Interval
    <3>1. age[w][p] \in 0..Old /\ age'[w][p] = Later(age[w][p])
      BY <1>2, <2>1 DEF WatcherType
    <3>. QED  BY <1>1, <3>1 DEF Later
  <2>5. WatcherType(w)'
    <3>1. age'[w] \in [Paths[w] -> 0..Old]
      <4>1. age'[w] = [p \in Paths[w] |-> Later(age[w][p])]
        BY <1>2
      <4>2. \A p \in Paths[w] : Later(age[w][p]) \in 0..Old
        BY <2>4, <4>1
      <4>. QED  BY <4>1, <4>2
    <3>. QED  BY <1>2, <2>1, <2>3, <3>1 DEF WatcherType
  <2>6. Running(w)'
    <3>1. CASE ticker[w] = -1
      BY <1>2, <2>1, <2>3, <3>1 DEF Running, Stopped
    <3>2. CASE ticker[w] # -1
      <4>1. \A p \in Paths[w], n \in Int : age[w][p] <= n - ticker[w] => age'[w][p] <= n - ticker'[w]
        BY <2>2, <2>3, <2>4, <3>2
      <4>2. Interval \in Int /\ 2 * Interval \in Int
        BY <1>1
      <4>3. pending[w] # <<>> => \E p \in Paths[w] : age'[w][p] <= Interval - ticker'[w]
        BY <2>1, <4>1, <4>2 DEF Running
      <4>4. next[w] # <<>> /\ pending[w] = <<>> =>
              \E p \in Paths[w] : age'[w][p] <= 2 * Interval - ticker'[w]
        BY <2>1, <4>1, <4>2 DEF Running
      <4>. QED  BY <1>2, <2>3, <3>2, <4>3, <4>4 DEF Running, Stopped
    <3>. QED  BY <3>1, <3>2
  <2>7. Quiet(w)'
    <3>. SUFFICES ASSUME NEW p \in Paths[w], Has(next[w], p), ~Has(pending[w], p)
                  PROVE  age'[w][p] >= Interval - ticker'[w]
      BY <1>2 DEF Quiet
    <3>1. age[w][p] >= Interval - ticker[w]
      BY <2>1 DEF Quiet
    <3>2. ticker[w] # -1
      BY <2>1 DEF Running, Stopped, Has, ToSet
    <3>. QED  BY <1>1, <2>2, <2>3, <2>4, <3>1, <3>2
  <2>. QED  BY <2>5, <2>6, <2>7 DEF WatcherInv
<1>4. ByWatcher(ticker)' /\ ByWatcher(age)'
  BY <1>2 DEF ByWatcher
<1>. QED  BY <1>2, <1>3, <1>4 DEF WInv, ByWatcher

\* The loop that reloads the configuration takes events and replaces a watcher.
LEMMA ReloadKeeps == WInv /\ Reload => WInv'
<1>. SUFFICES ASSUME WInv, Reload PROVE WInv'
  OBVIOUS
<1>0. Config \in Watchers /\ Expand \in Watchers
  BY ConfigReloadAssumption
<1>1. ASSUME NEW w \in Watchers, TakeEvent(w) PROVE WInv'
  <2>1. events[w] \in Seq(Report(w)) /\ events[w] # <<>>
    BY <1>1 DEF WInv, WatcherInv, WatcherType, TakeEvent
  <2>2. Tail(events[w]) \in Seq(Report(w))
    BY <2>1
  <2>3. /\ Moved(w) /\ events'[w] = Tail(events[w])
        /\ UNCHANGED <<notified, next, pending, ticker, renamed, age, dirs>>
    BY <1>1 DEF WInv, TakeEvent, Moved, ByWatcher, Untouched, worldVars
  <2>4. WatcherInv(w)'
    BY <2>2, <2>3 DEF WInv, WatcherInv, WatcherType, Running, Quiet
  <2>. QED  BY <2>3, <2>4, OneMoved DEF WInv
<1>2. ASSUME Load \/ Apply PROVE WInv'
  <2>1. UNCHANGED watcherVars /\ dirs' = dirs
    BY <1>2 DEF Load, Apply, worldVars
  <2>. QED  BY <2>1 DEF watcherVars, WInv, ByWatcher, WatcherInv, WatcherType, Running, Quiet
<1>3. ASSUME Rewatch PROVE WInv'
  <2>1. Rewatched(Expand) /\ dirs' = dirs
    BY <1>3 DEF Rewatch, worldVars
  <2>2. /\ Moved(Expand) /\ UNCHANGED age
        /\ notified'[Expand] = <<>> /\ next'[Expand] = <<>> /\ pending'[Expand] = <<>>
        /\ ticker'[Expand] = Stopped /\ renamed'[Expand] = NoPath /\ events'[Expand] = <<>>
    BY <1>0, <2>1 DEF WInv, Rewatched, Moved, ByWatcher, Untouched
  <2>3. WatcherType(Expand)'
    <3>1. Stopped \in -1..Interval
      BY FileWatcherAssumption DEF Stopped
    <3>2. age[Expand] \in [Paths[Expand] -> 0..Old]
      BY <1>0 DEF WInv, WatcherInv, WatcherType
    <3>. QED  BY <2>2, <3>1, <3>2 DEF WatcherType, Held
  <2>4. Running(Expand)' /\ Quiet(Expand)'
    BY <2>2 DEF Running, Quiet, Has, ToSet
  <2>. QED  BY <2>1, <2>2, <2>3, <2>4, OneMoved DEF WInv, WatcherInv
<1>. QED  BY <1>0, <1>1, <1>2, <1>3 DEF Reload, ConfigChanged, CollectionsChanged

LEMMA WInvNext == WInv /\ [Next]_vars => WInv'
<1>. SUFFICES ASSUME WInv, [Next]_vars PROVE WInv'
  OBVIOUS
<1>1. CASE Change
  BY <1>1, ChangeKeeps
<1>2. CASE Reload
  BY <1>2, ReloadKeeps
<1>3. CASE Watch /\ UNCHANGED <<worldVars, reloadVars>>
  <2>1. dirs' = dirs /\ dirs \subseteq Paths[Expand]
    BY <1>3 DEF worldVars, WInv
  <2>2. ASSUME NEW w \in Watchers, Run(w) PROVE WInv'
    <3>1. Moved(w) /\ WatcherInv(w)'
      BY <2>2, RenameKeeps, UpdateKeeps, RemoveKeeps, TickKeeps DEF Run
    <3>. QED  BY <2>1, <3>1, OneMoved
  <2>. QED  BY <1>3, <2>1, <2>2, ClockKeeps DEF Watch
<1>4. CASE UNCHANGED vars
  BY <1>4 DEF vars, watcherVars, worldVars, WInv, ByWatcher, WatcherInv, WatcherType, Running, Quiet
<1>. QED  BY <1>1, <1>2, <1>3, <1>4 DEF Next

----------------------------------------------------------------------------
\* UpdatesInTime, no update is forgotten: two intervals after the last of them
\* nothing is held back, however the ticker was started anew meanwhile.
THEOREM UpdatesAreInTime == Spec => []UpdatesInTime
<1>1. WInv => UpdatesInTime
  <2>. SUFFICES ASSUME WInv, NEW w \in Watchers, \A p \in Paths[w] : age[w][p] = Old
                PROVE  ToSet(next[w]) \cup ToSet(pending[w]) \subseteq {NoPath}
    BY DEF UpdatesInTime
  <2>1. WatcherType(w) /\ Running(w)
    BY DEF WInv, WatcherInv
  <2>2. Interval \in Nat /\ Old = 2 * Interval + 1 /\ ticker[w] \in -1..Interval
    BY <2>1, FileWatcherAssumption DEF Old, WatcherType
  <2>3. next[w] = <<>> /\ pending[w] = <<>>
    <3>1. CASE ticker[w] = Stopped
      BY <2>1, <3>1 DEF Running
    <3>2. CASE ticker[w] # Stopped
      BY <2>1, <2>2, <3>2 DEF Running, Stopped
    <3>. QED  BY <3>1, <3>2
  <2>. QED  BY <2>3 DEF ToSet
<1>. QED  BY <1>1, WInvInit, WInvNext, PTL DEF Spec

\* What a step reports of a file that is not to be reported again was quiet.
LEMMA ReportsQuiet ==
    ASSUME WInv, [Next]_vars, NEW w \in Watchers,
           NEW i \in DOMAIN events'[w] \ DOMAIN events[w], events'[w][i].op = "update"
    PROVE  age[w][events'[w][i].path] >= Interval \/ Has(next'[w], events'[w][i].path)
<1>0. WatcherType(w) /\ Quiet(w) /\ events[w] \in Seq(Report(w))
  BY DEF WInv, WatcherInv, WatcherType
<1>1. ASSUME NEW es \in Seq(Report(w)), Emit(w, es)
      PROVE  \E j \in DOMAIN es : events'[w][i] = es[j]
  <2>1. events'[w] = events[w] \o es
    BY <1>1 DEF Emit, WInv, ByWatcher
  <2>2. i \in 1..Len(events[w]) + Len(es) /\ i \notin 1..Len(events[w])
    BY <1>0, <2>1
  <2>3. (events[w] \o es)[i] = es[i - Len(events[w])] /\ i - Len(events[w]) \in 1..Len(es)
    BY <1>0, <2>2
  <2>. QED  BY <2>1, <2>3
<1>2. events'[w] # events[w] /\ ~(DOMAIN events'[w] \subseteq DOMAIN events[w])
  OBVIOUS
<1>3. ~(Change \/ UNCHANGED vars \/ Clock \/ Load \/ Apply)
  BY <1>2 DEF Change, WriteConfig, RemoveConfig, MakeDir, RemoveDir, RenameDir, ChangeDirs,
              Unwatched, vars, watcherVars, Clock, Load, Apply
<1>4. ~(ConfigChanged \/ CollectionsChanged)
  <2>. SUFFICES ASSUME NEW v \in Watchers, TakeEvent(v) PROVE FALSE
    BY ConfigReloadAssumption DEF ConfigChanged, CollectionsChanged
  <2>1. v = w
    BY <1>2 DEF WInv, ByWatcher, TakeEvent
  <2>2. events'[w] = Tail(events[w]) /\ events[w] # <<>>
    BY <2>1 DEF WInv, ByWatcher, TakeEvent
  <2>3. DOMAIN events'[w] \subseteq DOMAIN events[w]
    BY <1>0, <2>2
  <2>. QED  BY <1>2, <2>3
<1>5. ~Rewatch
  <2>. SUFFICES ASSUME Rewatch PROVE FALSE
    OBVIOUS
  <2>1. events'[w] = <<>> \/ events'[w] = events[w]
    BY DEF WInv, ByWatcher, Rewatch, Rewatched
  <2>. QED  BY <1>2, <2>1
<1>6. PICK v \in Watchers : Run(v)
  BY <1>3, <1>4, <1>5 DEF Next, Reload, Watch
<1>7. v = w
  BY <1>2, <1>6 DEF Run, HandleRename, HandleUpdate, HandleRemove, Tick, Emit, WInv, ByWatcher
<1>8. ~HandleUpdate(w)
  BY <1>2 DEF HandleUpdate
<1>9. ~HandleRename(w)
  <2>. SUFFICES ASSUME HandleRename(w) PROVE FALSE
    OBVIOUS
  <2>. DEFINE p == Head(notified[w]).path
              es == <<Event("rename", renamed[w], p)>>
  <2>1. p \in Paths[w]
    BY Taken DEF HandleRename
  <2>2. renamed[w] \in Paths[w] /\ Emit(w, es)
    BY <1>0, <1>2 DEF HandleRename, WatcherType
  <2>3. es \in Seq(Report(w)) /\ \A j \in DOMAIN es : es[j].op = "rename"
    BY <2>1, <2>2 DEF Event, Report
  <2>. HIDE DEF es
  <2>. QED  BY <1>1, <2>2, <2>3
<1>10. ~HandleRemove(w)
  <2>. SUFFICES ASSUME HandleRemove(w) PROVE FALSE
    OBVIOUS
  <2>. DEFINE p == Head(notified[w]).path
              es == <<Event("remove", p, NoPath)>>
  <2>1. p \in Paths[w]
    BY Taken DEF HandleRemove
  <2>2. Emit(w, es)
    BY <1>2 DEF HandleRemove
  <2>3. es \in Seq(Report(w)) /\ \A j \in DOMAIN es : es[j].op = "remove"
    BY <2>1 DEF Event, Report
  <2>. HIDE DEF es
  <2>. QED  BY <1>1, <2>2, <2>3
<1>11. Tick(w)
  BY <1>6, <1>7, <1>8, <1>9, <1>10 DEF Run
<1>12. PICK j \in DOMAIN Updates(next[w]) : events'[w][i] = Updates(next[w])[j]
  <2>1. Updates(next[w]) \in Seq(Report(w))
    BY <1>0, UpdatesListed DEF WatcherType
  <2>. QED  BY <1>1, <1>11, <2>1 DEF Tick
<1>. DEFINE q == events'[w][i].path
<1>13. Has(next[w], q)
  BY <1>0, <1>12, UpdatesListed DEF WatcherType
<1>14. q \in Paths[w]
  <2>1. Updates(next[w])[j] \in Report(w)
    BY <1>0, UpdatesListed DEF WatcherType
  <2>. QED  BY <1>12, <2>1 DEF Report
<1>15. ticker[w] = 0 /\ next'[w] = pending[w]
  BY <1>11 DEF Tick, WInv, ByWatcher
<1>16. Interval - ticker[w] = Interval
  BY <1>15, FileWatcherAssumption
<1>. HIDE DEF q
<1>17. age[w][q] >= Interval \/ Has(next'[w], q)
  BY <1>0, <1>13, <1>14, <1>15, <1>16 DEF Quiet
<1>. QED  BY <1>17 DEF q

\* Debounced: an update is reported when its file has been quiet for an
\* interval, unless the file is to be reported again.
THEOREM ReportsDebounced == Spec => Debounced
<1>1. WInv /\ [Next]_vars => [
          \A w \in Watchers : \A i \in DOMAIN events'[w] \ DOMAIN events[w] :
          LET e == events'[w][i]
          IN  e.op = "update" => age[w][e.path] >= Interval \/ Has(next'[w], e.path)
        ]_watcherVars
  BY ReportsQuiet
<1>. QED  BY <1>1, WInvInit, WInvNext, PTL DEF Spec, Debounced
=============================================================================
