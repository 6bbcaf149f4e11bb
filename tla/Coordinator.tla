---------------------------- MODULE Coordinator ----------------------------
(***************************************************************************)
(* The pipeline coordinator: internal/image/pipeline/coordinator.go with   *)
(* the task registry of internal/task/task.go and the two HTTP handlers    *)
(* that drive it (PostTasks and DeleteTasksId in main.go).                 *)
(*                                                                         *)
(* A task is the number of its creation, so comparing two tasks compares   *)
(* their EnqueuedAt times; taking the time and registering the task are    *)
(* one step.  tasks[t] is the task's Id: its stage and its collection.     *)
(* Request goroutines (Clients) and the coordinator's single               *)
(* worker goroutine run concurrently; each label of pc is a point where    *)
(* the code can be preempted between two accesses to shared state.         *)
(***************************************************************************)
EXTENDS Integers, Sequences, SequencesExt

CONSTANTS
    Collections,    \* collection ids
    Clients,        \* request goroutines
    Worker,         \* the goroutine started by NewCoordinator
    Calls,          \* what a request may add: a set of sequences of stages
    Stoppable,      \* the task Ids a request may stop
    MayClose,       \* whether the configuration is reloaded (Close)
    MaxCalls        \* bound: requests made in a behaviour

Priority == [files |-> 3, metadata |-> 2, contents |-> 1, faces |-> 0]
Stages == DOMAIN Priority
Id == [stage : Stages, collection : Collections]
FollowUps == <<"metadata", "contents", "faces">>
NoTask == 0

ASSUME CoordinatorAssumption ==
    /\ Worker \notin Clients
    /\ Calls \subseteq Seq(Stages) \ {<<>>}
    /\ Stoppable \subseteq Id
    /\ MayClose \in BOOLEAN
    /\ MaxCalls \in Nat

VARIABLES
    tasks,      \* the Id of every task created so far, in creation order
    registry,   \* task.Registry: Id -> task or NoTask
    queue,      \* Coordinator.queue; the tail is dequeued first
    signal,     \* whether the one-slot signal channel holds a token
    shut,       \* whether the coordinator's context is cancelled
    cancelled,  \* tasks whose context is cancelled: Completed() is closed
    started,    \* history: tasks the worker has dequeued
    current,    \* the worker's t
    pc,         \* where each goroutine is
    todo,       \* the task Ids each goroutine still has to add
    held,       \* the task each request or follow-up is handling
    closer,     \* progress of Close
    drained,    \* how many queued tasks Close has handled
    calls       \* requests made so far

work == <<current, started>>
adder == <<todo, held>>
closing == <<shut, closer, drained>>
vars == <<tasks, registry, queue, signal, cancelled, calls, pc, work, adder, closing>>

Proc == Clients \cup {Worker}
ClientLabels == {"idle", "register", "insert", "notify", "unqueue", "cancel", "delete"}
WorkerLabels == {"select", "woken", "run", "register", "insert", "notify",
                 "unregister", "complete", "resignal", "exited"}

Init ==
    /\ tasks = <<>>
    /\ registry = [id \in Id |-> NoTask]
    /\ queue = <<>>
    /\ signal = FALSE
    /\ shut = FALSE
    /\ cancelled = {}
    /\ started = {}
    /\ current = NoTask
    /\ pc = [p \in Proc |-> IF p = Worker THEN "select" ELSE "idle"]
    /\ todo = [p \in Proc |-> <<>>]
    /\ held = [p \in Proc |-> NoTask]
    /\ closer = "open"
    /\ drained = 0
    /\ calls = 0

Goto(p, label) == pc' = [pc EXCEPT ![p] = label]

\* queueMu is held across steps only by Close, which cancels the queued tasks
\* and unregisters them one by one.
QueueUnlocked == closer \notin {"draining", "unregistering"}

\* insertSorted's order: ascending (stagePriority, EnqueuedAt).
Before(a, b) ==
    LET pa == Priority[tasks[a].stage]
        pb == Priority[tasks[b].stage]
    IN  pa < pb \/ (pa = pb /\ a < b)

\* The first position whose task must come after t, which is what sort.Search
\* finds in a sorted queue.
InsertionPoint(q, t) ==
    LET first == SelectInSeq(q, LAMBDA x : Before(t, x))
    IN  IF first = 0 THEN Len(q) + 1 ELSE first

\* Faulty variant: the new task always goes to the tail.
InsertAtTail(q, t) == Append(q, t)

InsertSorted(q, t) == InsertAt(q, InsertionPoint(q, t), t)

\* The queue without its first task whose Id is id.
Unqueued(q, id) == RemoveFirstMatch(q, LAMBDA t : tasks[t] = id)

----------------------------------------------------------------------------
(* Adding tasks: addTask, called by requests and by the worker itself.     *)

\* Where a goroutine continues once it has added its tasks.
AfterAdding(p) == IF p = Worker THEN "unregister" ELSE "idle"

\* Faulty variant: a registered Id is not noticed.
RegisterAnyway(p) ==
    /\ pc[p] = "register"
    /\ tasks' = Append(tasks, Head(todo[p]))
    /\ registry' = [registry EXCEPT ![Head(todo[p])] = Len(tasks) + 1]
    /\ held' = [held EXCEPT ![p] = Len(tasks) + 1]
    /\ todo' = [todo EXCEPT ![p] = Tail(todo[p])]
    /\ Goto(p, "insert")
    /\ UNCHANGED <<queue, signal, cancelled, calls, work, closing>>

\* LoadOrStore: a task whose Id is registered is dropped in favour of the
\* registered one.
Register(p) ==
    /\ pc[p] = "register"
    /\ LET id == Head(todo[p])
           rest == Tail(todo[p])
       IN  IF registry[id] # NoTask
           THEN /\ todo' = [todo EXCEPT ![p] = rest]
                /\ Goto(p, IF rest = <<>> THEN AfterAdding(p) ELSE "register")
                /\ UNCHANGED <<tasks, registry, held>>
           ELSE /\ tasks' = Append(tasks, id)
                /\ registry' = [registry EXCEPT ![id] = Len(tasks) + 1]
                /\ held' = [held EXCEPT ![p] = Len(tasks) + 1]
                /\ todo' = [todo EXCEPT ![p] = rest]
                /\ Goto(p, "insert")
    /\ UNCHANGED <<queue, signal, cancelled, calls, work, closing>>

\* Faulty variant: addTask inserts without taking queueMu.
InsertUnlocked(p) ==
    /\ pc[p] = "insert"
    /\ queue' = InsertSorted(queue, held[p])
    /\ held' = [held EXCEPT ![p] = NoTask]
    /\ Goto(p, "notify")
    /\ UNCHANGED <<tasks, registry, signal, cancelled, calls, work, todo, closing>>

Insert(p) ==
    /\ pc[p] = "insert"
    /\ QueueUnlocked
    /\ queue' = InsertSorted(queue, held[p])
    /\ held' = [held EXCEPT ![p] = NoTask]
    /\ Goto(p, "notify")
    /\ UNCHANGED <<tasks, registry, signal, cancelled, calls, work, todo, closing>>

\* Faulty variant: a request leaves without notifying the worker.
NotifyForgotten(p) ==
    /\ pc[p] = "notify"
    /\ Goto(p, IF todo[p] = <<>> THEN AfterAdding(p) ELSE "register")
    /\ UNCHANGED <<tasks, registry, queue, signal, cancelled, calls, work, adder, closing>>

\* The non-blocking send on the signal channel.
Notify(p) ==
    /\ pc[p] = "notify"
    /\ signal' = TRUE
    /\ Goto(p, IF todo[p] = <<>> THEN AfterAdding(p) ELSE "register")
    /\ UNCHANGED <<tasks, registry, queue, cancelled, calls, work, adder, closing>>

----------------------------------------------------------------------------
(* Requests.                                                               *)

\* PostTasks, and the --scan command: one Add* call after the other.
Request(c) ==
    /\ pc[c] = "idle"
    /\ calls < MaxCalls
    /\ calls' = calls + 1
    /\ \E call \in Calls, col \in Collections :
          todo' = [todo EXCEPT ![c] =
                      [i \in DOMAIN call |-> [stage |-> call[i], collection |-> col]]]
    /\ Goto(c, "register")
    /\ UNCHANGED <<tasks, registry, queue, signal, cancelled, work, held, closing>>

\* StopTask finds the task by Id ...
Stop(c) ==
    /\ pc[c] = "idle"
    /\ calls < MaxCalls
    /\ calls' = calls + 1
    /\ \E id \in Stoppable :
          /\ registry[id] # NoTask
          /\ held' = [held EXCEPT ![c] = registry[id]]
    /\ Goto(c, "unqueue")
    /\ UNCHANGED <<tasks, registry, queue, signal, cancelled, work, todo, closing>>

\* ... takes the first task with that Id off the queue ...
Unqueue(c) ==
    /\ pc[c] = "unqueue"
    /\ QueueUnlocked
    /\ queue' = Unqueued(queue, tasks[held[c]])
    /\ Goto(c, "cancel")
    /\ UNCHANGED <<tasks, registry, signal, cancelled, calls, work, adder, closing>>

\* Faulty variant: cancels what the Id maps to now.
CancelRegistered(c) ==
    /\ pc[c] = "cancel"
    /\ cancelled' = cancelled \cup {registry[tasks[held[c]]]}
    /\ Goto(c, "delete")
    /\ UNCHANGED <<tasks, registry, queue, signal, calls, work, adder, closing>>

\* ... cancels the task it found ...
Cancel(c) ==
    /\ pc[c] = "cancel"
    /\ cancelled' = cancelled \cup {held[c]}
    /\ Goto(c, "delete")
    /\ UNCHANGED <<tasks, registry, queue, signal, calls, work, adder, closing>>

\* ... and removes whatever the Id maps to.
Delete(c) ==
    /\ pc[c] = "delete"
    /\ registry' = [registry EXCEPT ![tasks[held[c]]] = NoTask]
    /\ held' = [held EXCEPT ![c] = NoTask]
    /\ Goto(c, "idle")
    /\ UNCHANGED <<tasks, queue, signal, cancelled, calls, work, todo, closing>>

----------------------------------------------------------------------------
(* The worker goroutine.                                                   *)

\* select takes the ctx.Done() case; when both are ready either may be taken.
Exit ==
    /\ pc[Worker] = "select"
    /\ shut
    /\ Goto(Worker, "exited")
    /\ UNCHANGED <<tasks, registry, queue, signal, cancelled, calls, work, adder, closing>>

Wake ==
    /\ pc[Worker] = "select"
    /\ signal
    /\ signal' = FALSE
    /\ Goto(Worker, "woken")
    /\ UNCHANGED <<tasks, registry, queue, cancelled, calls, work, adder, closing>>

\* Faulty variant: runs the head but cuts off the tail.
DequeueHead ==
    /\ pc[Worker] = "woken"
    /\ QueueUnlocked
    /\ IF queue = <<>>
       THEN Goto(Worker, "select") /\ UNCHANGED <<queue, work>>
       ELSE /\ current' = Head(queue)
            /\ queue' = Front(queue)
            /\ started' = started \cup {Head(queue)}
            /\ Goto(Worker, "run")
    /\ UNCHANGED <<tasks, registry, signal, cancelled, calls, adder, closing>>

Dequeue ==
    /\ pc[Worker] = "woken"
    /\ QueueUnlocked
    /\ IF queue = <<>>
       THEN /\ Goto(Worker, "select")
            /\ UNCHANGED <<queue, work>>
       ELSE /\ current' = Last(queue)
            /\ queue' = Front(queue)
            /\ started' = started \cup {Last(queue)}
            /\ Goto(Worker, "run")
    /\ UNCHANGED <<tasks, registry, signal, cancelled, calls, adder, closing>>

\* A file scan that returns no error adds the other stages of its collection,
\* even when its context was cancelled or the coordinator closed meanwhile.
ScanSucceeds ==
    /\ pc[Worker] = "run"
    /\ tasks[current].stage = "files"
    /\ todo' = [todo EXCEPT ![Worker] =
                   [i \in DOMAIN FollowUps |->
                      [stage |-> FollowUps[i],
                       collection |-> tasks[current].collection]]]
    /\ Goto(Worker, "register")
    /\ UNCHANGED <<tasks, registry, queue, signal, cancelled, calls, work, held, closing>>

\* A scan that fails, or any other stage: only logged.
RunEnds ==
    /\ pc[Worker] = "run"
    /\ Goto(Worker, "unregister")
    /\ UNCHANGED <<tasks, registry, queue, signal, cancelled, calls, work, adder, closing>>

\* Faulty variant: the finished task stays registered.
UnregisterForgotten ==
    /\ pc[Worker] = "unregister"
    /\ Goto(Worker, "complete")
    /\ UNCHANGED <<tasks, registry, queue, signal, cancelled, calls, work, adder, closing>>

\* The deferred calls of processTask, last one first.
Unregister ==
    /\ pc[Worker] = "unregister"
    /\ registry' = [registry EXCEPT ![tasks[current]] = NoTask]
    /\ Goto(Worker, "complete")
    /\ UNCHANGED <<tasks, queue, signal, cancelled, calls, work, adder, closing>>

Complete ==
    /\ pc[Worker] = "complete"
    /\ cancelled' = cancelled \cup {current}
    /\ current' = NoTask
    /\ Goto(Worker, "resignal")
    /\ UNCHANGED <<tasks, registry, queue, signal, calls, started, adder, closing>>

\* Faulty variant: the worker does not signal itself again.
ResignalForgotten ==
    /\ pc[Worker] = "resignal"
    /\ Goto(Worker, "select")
    /\ UNCHANGED <<tasks, registry, queue, signal, cancelled, calls, work, adder, closing>>

Resignal ==
    /\ pc[Worker] = "resignal"
    /\ signal' = TRUE
    /\ Goto(Worker, "select")
    /\ UNCHANGED <<tasks, registry, queue, cancelled, calls, work, adder, closing>>

----------------------------------------------------------------------------
(* Close, called by applyConfig when the configuration is reloaded.        *)

\* Faulty variant: Close empties the queue but leaves the context alive.
CloseQueueOnly ==
    /\ MayClose
    /\ closer = "open"
    /\ closer' = "locking"
    /\ UNCHANGED <<tasks, registry, queue, signal, cancelled, calls, pc, work,
                   adder, shut, drained>>

CloseContext ==
    /\ MayClose
    /\ closer = "open"
    /\ shut' = TRUE
    /\ closer' = "locking"
    /\ UNCHANGED <<tasks, registry, queue, signal, cancelled, pc, calls, work, adder, drained>>

LockQueue ==
    /\ closer = "locking"
    /\ closer' = "draining"
    /\ UNCHANGED <<tasks, registry, queue, signal, cancelled, pc, calls, work, adder, shut, drained>>

DrainCancel ==
    /\ closer = "draining"
    /\ drained < Len(queue)
    /\ cancelled' = cancelled \cup {queue[drained + 1]}
    /\ closer' = "unregistering"
    /\ UNCHANGED <<tasks, registry, queue, signal, pc, calls, work, adder, shut, drained>>

DrainDelete ==
    /\ closer = "unregistering"
    /\ registry' = [registry EXCEPT ![tasks[queue[drained + 1]]] = NoTask]
    /\ drained' = drained + 1
    /\ closer' = "draining"
    /\ UNCHANGED <<tasks, queue, signal, cancelled, pc, calls, work, adder, shut>>

CloseQueue ==
    /\ closer = "draining"
    /\ drained = Len(queue)
    /\ queue' = <<>>
    /\ closer' = "closed"
    /\ UNCHANGED <<tasks, registry, signal, cancelled, pc, calls, work, adder, shut, drained>>

----------------------------------------------------------------------------
Adding(p) == Register(p) \/ Insert(p) \/ Notify(p)
Stopping(c) == Unqueue(c) \/ Cancel(c) \/ Delete(c)
Running == Dequeue \/ ScanSucceeds \/ RunEnds \/ Unregister \/ Complete \/ Resignal
Closing == LockQueue \/ DrainCancel \/ DrainDelete \/ CloseQueue

Next ==
    \/ \E p \in Proc : Adding(p)
    \/ \E c \in Clients : Request(c) \/ Stop(c) \/ Stopping(c)
    \/ Exit \/ Wake \/ Running
    \/ CloseContext \/ Closing

Spec == Init /\ [][Next]_vars

\* Goroutines that can run do run, and every stage runner returns.  Nothing
\* obliges a request to be made.
Fairness ==
    /\ \A c \in Clients : WF_vars(Adding(c) \/ Stopping(c))
    /\ WF_vars(Adding(Worker) \/ Exit \/ Wake \/ Running)
    /\ WF_vars(Closing)

FairSpec == Spec /\ Fairness

----------------------------------------------------------------------------
(* Properties.                                                             *)

\* The worker and the requests hold well-formed state.
TypeOK ==
    /\ tasks \in Seq(Id)
    /\ registry \in [Id -> DOMAIN tasks \cup {NoTask}]
    /\ queue \in Seq(DOMAIN tasks)
    /\ signal \in BOOLEAN
    /\ cancelled \subseteq DOMAIN tasks
    /\ started \subseteq DOMAIN tasks
    /\ current \in started \cup {NoTask}
    /\ pc \in [Proc -> ClientLabels \cup WorkerLabels]
    /\ pc[Worker] \in WorkerLabels
    /\ \A c \in Clients : pc[c] \in ClientLabels
    /\ todo \in [Proc -> Seq(Id)]
    /\ held \in [Proc -> DOMAIN tasks \cup {NoTask}]
    /\ shut \in BOOLEAN
    /\ closer \in {"open", "locking", "draining", "unregistering", "closed"}
    /\ drained \in Nat
    /\ calls \in 0..MaxCalls

\* Each goroutine holds what its next step needs, and Close stays within the
\* queue it has locked.
Control ==
    /\ \A p \in Proc : pc[p] = "register" => todo[p] # <<>>
    /\ \A p \in Proc : pc[p] = "insert" => held[p] # NoTask
    /\ \A c \in Clients :
          pc[c] \in {"unqueue", "cancel", "delete"} => held[c] # NoTask
    /\ current # NoTask <=> pc[Worker] \notin {"select", "woken", "resignal", "exited"}
    /\ closer \in {"open", "locking"} => drained = 0
    /\ closer = "draining" => drained <= Len(queue)
    /\ closer = "unregistering" => drained < Len(queue)

\* A task is at one place at a time: being inserted by one goroutine, at one
\* position of the queue, or started.
Queued == {queue[i] : i \in DOMAIN queue}
Placement ==
    /\ \A i, j \in DOMAIN queue : queue[i] = queue[j] => i = j
    /\ \A p, q \in Proc :
          pc[p] = "insert" /\ pc[q] = "insert" /\ held[p] = held[q] => p = q
    /\ \A p \in Proc : pc[p] = "insert" => held[p] \notin Queued \cup started
    /\ Queued \cap started = {}

\* The inductive invariant behind the theorems of CoordinatorProofs.
IInv == TypeOK /\ Control /\ Placement

\* No lost wakeup: whenever the worker sleeps although tasks are queued, a
\* token is in the signal channel or the request that queued one is about to
\* put it there.  The queue is filled before the signal is sent, and requests,
\* stops, Close and the worker's own re-signal interleave freely.
NoLostWakeup ==
    pc[Worker] = "select" /\ queue # <<>> =>
        signal \/ \E c \in Clients : pc[c] = "notify"

\* Binary search insertion keeps the queue ordered whatever the order in which
\* concurrent requests insert tasks created earlier or later: the worker never
\* starts a task while one with a higher stage priority, or a younger one of
\* the same stage, is queued.
StartsBest ==
    [][ pc[Worker] = "woken" /\ current' # current
          => \A i \in DOMAIN queue : queue[i] = current' \/ Before(queue[i], current')
      ]_vars

\* A task that has been created and is neither queued nor running is over.
Inserting == {held[p] : p \in {q \in Proc : pc[q] = "insert"}}
Status ==
    [t \in DOMAIN tasks |->
        IF t \in Queued \cup Inserting THEN "pending"
        ELSE IF t \notin started THEN "dropped"
        ELSE IF t = current THEN "running" ELSE "done"]

Board == INSTANCE TaskBoard WITH status <- Status

\* The coordinator implements the task board: every task it is given is run at
\* most once, one at a time, through every interleaving of requests, stops,
\* the worker and Close.
ImplementsBoard == Board!Spec

\* "The coordinator prevents duplicate tasks for the same collection": no two
\* tasks with the same Id are queued or running, not counting tasks that were
\* stopped and are only winding down.
Executing == IF pc[Worker] = "complete" THEN {} ELSE {current} \ {NoTask}
Live == (Queued \cup Inserting \cup Executing) \ cancelled
OneTaskPerId ==
    \A t, u \in Live : tasks[t] = tasks[u] => t = u

\* Whoever sees Completed() closed can add the same stage again and gets a
\* fresh task: until Close, no completed task is still registered.
CompletedIsUnregistered ==
    closer = "open" => \A id \in Id : registry[id] \notin cancelled

\* "Close stops the coordinator and cancels all pending tasks": a task that is
\* not completed is being added, queued or run, also while Close drains a queue
\* that requests and the worker go on adding to.  None leaves the queue without
\* being run or cancelled, so that nobody waits on it for ever unnoticed.
NoTaskForgotten ==
    \A t \in DOMAIN tasks \ cancelled : t \in Queued \cup Inserting \cup {current}

\* Every task a request was given is eventually completed, which is what the
\* goroutines of PostTasks and the --scan command wait for, unless the
\* coordinator is closed.  Requests are bounded, so that none are left over.
EveryTaskCompletes ==
    (DOMAIN tasks \ cancelled # {}) ~> (DOMAIN tasks \subseteq cancelled \/ closer # "open")

\* Close stops the worker goroutine, though select may still prefer a pending
\* signal to the closed context.
WorkerStops == (closer = "closed") ~> (pc[Worker] = "exited")
=============================================================================
