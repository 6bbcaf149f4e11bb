----------------------------- MODULE FileWatcher -----------------------------
(***************************************************************************)
(* The watchers of internal/fs/watch.go: each turns the notifications of   *)
(* the file system into events, and holds updates back for a while so that *)
(* a file that is written again and again is reported once.  Time is       *)
(* counted in steps of Clock, which waits for the watchers' goroutines:    *)
(* they are fast against the interval of 200 ms.                           *)
(*                                                                         *)
(* A path that is ignored, or is not the file of a file watcher, is not    *)
(* notified of here.  The notify library's own buffer is left out: the     *)
(* watcher's channel is what it fills, and it drops what does not fit.     *)
(***************************************************************************)
EXTENDS Integers, Sequences, SequencesExt, Sorted

CONSTANTS
    Watchers,
    Paths,          \* the paths a watcher is notified of: a function
    NoPath,         \* "" in the code: no path, or one struck from a list
    Interval,       \* in steps of Clock
    Capacity        \* of the notification channel: 100 in the code

ASSUME FileWatcherAssumption ==
    /\ \A w \in Watchers : NoPath \notin Paths[w]
    /\ Interval \in Nat \ {0}
    /\ Capacity \in Nat \ {0}

VARIABLES
    notified,       \* w.c
    next, pending,  \* the paths of updates held back: due at the next tick, or
                    \* at the one after it
    ticker,         \* the time until the next tick, or Stopped
    renamed,        \* pendingRenamePath
    events,         \* w.Events
    age             \* history: the time since a path's last update was handled

watcherVars == <<notified, next, pending, ticker, renamed, events, age>>

Stopped == -1
Old == 2 * Interval + 1

InitWatchers ==
    /\ notified = [w \in Watchers |-> <<>>]
    /\ next = [w \in Watchers |-> <<>>]
    /\ pending = [w \in Watchers |-> <<>>]
    /\ ticker = [w \in Watchers |-> Stopped]
    /\ renamed = [w \in Watchers |-> NoPath]
    /\ events = [w \in Watchers |-> <<>>]
    /\ age = [w \in Watchers |-> [p \in Paths[w] |-> Old]]

Event(op, path, old) == [op |-> op, path |-> path, old |-> old]
Has(paths, p) == p \in ToSet(paths)
Emit(w, es) == events' = [events EXCEPT ![w] = @ \o es]

\* removePathFromEvents
Strike(paths, p) == [i \in DOMAIN paths |-> IF paths[i] = p THEN NoPath ELSE paths[i]]

\* The file system notifies of ns, in order, as far as there is room.
Notify(w, ns) ==
    notified' = [notified EXCEPT ![w] =
        LET all == @ \o ns
        IN  SubSeq(all, 1, IF Len(all) < Capacity THEN Len(all) ELSE Capacity)]

----------------------------------------------------------------------------
(* The cases of run.                                                       *)

Take(w, op) ==
    /\ notified[w] # <<>>
    /\ Head(notified[w]).op = op
    /\ notified' = [notified EXCEPT ![w] = Tail(@)]

\* Two rename notifications make an event, the new path first.
HandleRename(w) ==
    /\ Take(w, "rename")
    /\ LET p == Head(notified[w]).path
       IN  IF renamed[w] = NoPath
           THEN renamed' = [renamed EXCEPT ![w] = p] /\ UNCHANGED events
           ELSE /\ Emit(w, <<Event("rename", renamed[w], p)>>)
                /\ renamed' = [renamed EXCEPT ![w] = NoPath]
    /\ UNCHANGED <<next, pending, ticker, age>>

\* A new update starts a new ticker: tickerRunning is never set.
HandleUpdate(w) ==
    /\ Take(w, "update")
    /\ LET p == Head(notified[w]).path
       IN  /\ age' = [age EXCEPT ![w][p] = 0]
           /\ IF Has(pending[w], p)
              THEN UNCHANGED <<pending, ticker>>
              ELSE /\ pending' = [pending EXCEPT ![w] = Append(@, p)]
                   /\ ticker' = [ticker EXCEPT ![w] = Interval]
    /\ UNCHANGED <<next, renamed, events>>

\* A removal strikes an update that is held back, or is reported at once.
HandleRemove(w) ==
    /\ Take(w, "remove")
    /\ LET p == Head(notified[w]).path
       IN  \/ /\ Has(next[w], p)
              /\ next' = [next EXCEPT ![w] = Strike(@, p)]
              /\ UNCHANGED <<pending, events>>
           \/ /\ ~Has(next[w], p)
              /\ Has(pending[w], p)
              /\ pending' = [pending EXCEPT ![w] = Strike(@, p)]
              /\ UNCHANGED <<next, events>>
           \/ /\ ~Has(next[w], p) /\ ~Has(pending[w], p)
              /\ Emit(w, <<Event("remove", p, NoPath)>>)
              /\ UNCHANGED <<next, pending>>
    /\ UNCHANGED <<ticker, renamed, age>>

\* The updates of a list, without the struck ones and immediate repetitions.
Updates(paths) ==
    LET kept == Ascending({i \in DOMAIN paths :
                    paths[i] # NoPath /\ (i > 1 => paths[i - 1] # paths[i])})
    IN  [i \in DOMAIN kept |-> Event("update", paths[kept[i]], NoPath)]

\* Faulty variant: the ticker stops when nothing was due.
TickLast(w) ==
    /\ ticker[w] = 0
    /\ Emit(w, Updates(next[w]))
    /\ next' = [next EXCEPT ![w] = pending[w]]
    /\ pending' = [pending EXCEPT ![w] = <<>>]
    /\ ticker' = [ticker EXCEPT ![w] = IF next[w] = <<>> THEN Stopped ELSE Interval]
    /\ UNCHANGED <<notified, renamed, age>>

\* Faulty variant: what is pending is reported without waiting for another tick.
TickAll(w) ==
    /\ ticker[w] = 0
    /\ Emit(w, Updates(next[w] \o pending[w]))
    /\ next' = [next EXCEPT ![w] = <<>>]
    /\ pending' = [pending EXCEPT ![w] = <<>>]
    /\ ticker' = [ticker EXCEPT ![w] = Stopped]
    /\ UNCHANGED <<notified, renamed, age>>

Tick(w) ==
    /\ ticker[w] = 0
    /\ Emit(w, Updates(next[w]))
    /\ next' = [next EXCEPT ![w] = pending[w]]
    /\ pending' = [pending EXCEPT ![w] = <<>>]
    /\ ticker' = [ticker EXCEPT ![w] = IF pending[w] = <<>> THEN Stopped ELSE Interval]
    /\ UNCHANGED <<notified, renamed, age>>

Run(w) == HandleRename(w) \/ HandleUpdate(w) \/ HandleRemove(w) \/ Tick(w)

Later(t) == IF t < Old THEN t + 1 ELSE t

Clock ==
    /\ \A w \in Watchers : notified[w] = <<>> /\ ticker[w] # 0
    /\ ticker' = [w \in Watchers |-> IF ticker[w] = Stopped THEN Stopped ELSE ticker[w] - 1]
    /\ age' = [w \in Watchers |-> [p \in Paths[w] |-> Later(age[w][p])]]
    /\ <<ticker, age>>' # <<ticker, age>>
    /\ UNCHANGED <<notified, next, pending, renamed, events>>

\* Close, and a new watcher of the same paths: what the old one had is lost.
Rewatched(w) ==
    /\ notified' = [notified EXCEPT ![w] = <<>>]
    /\ next' = [next EXCEPT ![w] = <<>>]
    /\ pending' = [pending EXCEPT ![w] = <<>>]
    /\ ticker' = [ticker EXCEPT ![w] = Stopped]
    /\ renamed' = [renamed EXCEPT ![w] = NoPath]
    /\ events' = [events EXCEPT ![w] = <<>>]
    /\ UNCHANGED age

----------------------------------------------------------------------------
\* Updates are held back "to avoid multiple updates for the same file": an
\* update is reported when its file has been quiet for an interval, unless the
\* file is to be reported again.
Debounced ==
    [][ \A w \in Watchers : \A i \in DOMAIN events'[w] \ DOMAIN events[w] :
          LET e == events'[w][i]
          IN  e.op = "update" => age[w][e.path] >= Interval \/ Has(next'[w], e.path)
      ]_watcherVars

\* No update is forgotten: nothing is held back two intervals after the last
\* update, although every one of them starts the ticker anew.
UpdatesInTime ==
    \A w \in Watchers :
        (\A p \in Paths[w] : age[w][p] = Old) =>
            ToSet(next[w]) \cup ToSet(pending[w]) \subseteq {NoPath}
=============================================================================
